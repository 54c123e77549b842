---------------------------- MODULE OfflineProofs ----------------------------
(***************************************************************************)
(* Proofs about OfflineScorm, for every number of entitlements, commits,   *)
(* launches and faults: the progress on the server is what was handed over *)
(* and the commits that were accepted, in their order and once each; the   *)
(* journal of the device agrees with the receipts of the server; and the   *)
(* whole implements AttemptWriter.                                         *)
(***************************************************************************)
EXTENDS OfflineScorm, FiniteSetTheorems, WellFoundedInduction, TLAPS

-----------------------------------------------------------------------------
(***************************************************************************)
(* Types.                                                                  *)
(***************************************************************************)
Attempts == [mode : {"online", "offline"}, ent : 0..MaxEnts, gen : Nat, rev : Nat,
             started : BOOLEAN, done : BOOLEAN, time : 0..MaxTime]
Entitlements == [status : {"none", "active", "resolved"},
                 res : {"none", "reconciled", "discarded"},
                 cleanup : {"none", "pending", "clearing", "cleared"},
                 gen : Nat, inst : 0..MaxEnts, base : Nat, cursor : Nat,
                 init : Snapshots]
Receipts == [outcome : Outcomes, launch : Nat, elapsed : Nat]
Entries == [launch : Nat, ordinal : Nat, elapsed : Nat, delta : Nat, done : BOOLEAN,
            time : 0..MaxTime]
Records == [status : {"signing", "pending", "acknowledged", "discarded"},
            outcome : Outcomes \cup {"none"}]
Cards == [state : {"none", "activating"}, ent : {0}]
         \cup [state : {"downloading", "ready", "blocked", "removing"}, ent : Ents]

Requests ==
    [kind : {"activate", "issue"}, inst : Ents, live : BOOLEAN]
    \cup [kind : {"sync"}, ent : Ents, first : Nat \ {0}, count : Nat \ {0}, live : BOOLEAN]
    \cup [kind : {"resolve"}, ent : Ents, res : {"reconciled", "discarded"}, live : BOOLEAN]
    \cup [kind : {"cleanup"}, ent : Ents, live : BOOLEAN]
Answers ==
    {Nothing} \cup [kind : {"denied"}, discard : BOOLEAN]
    \cup [kind : {"issued"}, ent : Ents]
    \cup [kind : {"receipts"}, first : Nat \ {0}, out : Seq(Outcomes), gap : BOOLEAN]
    \cup [kind : {"cleanup", "refused", "cleared"}]

ServerTypes ==
    /\ att \in Attempts /\ ent \in [Ents -> Entitlements]
    /\ receipts \in [Ents -> Seq(Receipts)]
    /\ token \in Nat /\ sess \subseteq Nat
    /\ inst \in [Ents -> {"none", "active", "revoked"}]
    /\ clock \in {"open", "ended", "late"}

NetTypes == req \subseteq Requests /\ ans \in Answers

DeviceTypes ==
    /\ idx \in Cards /\ key \in 0..MaxEnts
    /\ loc \in [ent : 0..MaxEnts, snap : Snapshots]
    /\ commits \in [Ents -> Seq(Entries)] /\ journal \in Seq(Records)
    /\ pkg \in {"none", "downloading", "ready", "cleanup_pending", "cleared"}
    /\ spool \in [entries : Seq(Entries), launch : Nat, next : Nat, high : Nat]

\* The operations on a package, and the steps that only they have, or that follow an
\* activation.
Existing == {"launch", "sync", "remove"}
Steps == {"load", "finalize", "drain", "play", "send", "confirm", "complete", "wipe",
          "unindex"}
Installing == {"entitlement", "package", "download", "installed"}

StepNames == {"none", "prepare", "wait"} \cup Steps \cup Installing
Operations == [kind : {"none", "install"} \cup Existing, step : StepNames,
               ent : 0..MaxEnts, res : {"none", "reconciled", "discarded"}, base : Nat]
Bootstraps == [Ents -> [res : {"none", "reconciled", "discarded"},
                        cleanup : {"none", "pending", "clearing", "cleared"}]]

PageTypes ==
    /\ op \in Operations
    /\ op.kind \in Existing \/ op.step \in Installing => op.ent # 0
    /\ op.step \in Steps => op.kind \in Existing
    /\ op.step \in {"drain", "play", "send"} => loc.ent # 0
    /\ op.step = "complete" => op.res # "none"
    /\ shown \in Cards /\ known \in Bootstraps /\ launches \in Nat

Types == ServerTypes /\ NetTypes /\ DeviceTypes /\ PageTypes

-----------------------------------------------------------------------------
(***************************************************************************)
(* The parts of the inductive invariant.                                   *)
(***************************************************************************)
\* The page waits for one request at a time, about the entitlement of its operation,
\* or of its journal.
ServerAnswers == {"receipts", "cleanup", "refused", "cleared"}

WaitInv ==
    /\ \A r \in req : r.live =>
          /\ ans.kind = "none" /\ op.step = "wait"
          /\ \A q \in req : q.live => q = r
          /\ r.kind \in {"sync", "resolve", "cleanup"} => op.kind \in Existing
          /\ r.kind \in {"resolve", "cleanup"} => r.ent = op.ent
          /\ r.kind = "sync" => r.ent = loc.ent
    /\ ans.kind # "none" => op.step = "wait"
    /\ ans.kind \in ServerAnswers => op.kind \in Existing

\* The attempt is in the hands of the active entitlement; an entitlement is cleared
\* only after its end, and leaves nothing before its start.
HolderInv ==
    /\ att.mode = "online" <=> att.ent = 0
    /\ \A e \in Ents :
          /\ ent[e].status = "active" <=> att.ent = e
          /\ ent[e].status = "active" => ent[e].gen = att.gen
          /\ ent[e].status = "none" <=> ent[e].cleanup = "none"
          /\ ent[e].status = "none" => ent[e].res = "none"
          /\ ent[e].status = "active" <=> ent[e].cleanup = "pending"
          /\ ent[e].status = "none" =>
                receipts[e] = << >> /\ commits[e] = << >> /\ loc.ent # e

\* The generation counts the changes of hands.
EpochInv ==
    /\ \A e \in Ents : ent[e].status = "none" <=> att.gen < 2 * e - 1
    /\ att.ent # 0 => att.gen = 2 * att.ent - 1
    /\ att.ent = 0 => \E m \in 0..MaxEnts : att.gen = 2 * m
    /\ token # NoToken => token <= att.gen
    /\ \A g \in sess : g <= att.gen
    /\ \A e \in Ents : ent[e].gen <= att.gen

\* The device gives up a journal only behind a confirmed cleanup, so it never begins
\* a second one for an entitlement.
Fresh(e) == ent[e].status # "none" /\ (loc.ent = e \/ commits[e] = << >>)

ClearedInv ==
    /\ \A e \in Ents :
          /\ commits[e] # << >> /\ loc.ent # e => ent[e].cleanup = "cleared"
          /\ known[e].cleanup = "cleared" => ent[e].cleanup = "cleared"
    /\ ans.kind = "cleared" \/ op.step = "finalize" => ent[op.ent].cleanup = "cleared"
    /\ ans.kind = "issued" => Fresh(ans.ent)
    /\ op.step = "entitlement" => Fresh(op.ent)

\* The journal has a record for each commit.
LengthInv ==
    /\ loc.ent = 0 => journal = << >>
    /\ loc.ent # 0 => Len(journal) = Len(commits[loc.ent])

\* A batch asks for commits the device has recorded, from one that is next to be
\* received, or earlier.
BatchInv ==
    \A r \in req : r.kind = "sync" =>
        /\ ent[r.ent].status # "none"
        /\ r.first + r.count <= Len(commits[r.ent]) + 1
        /\ r.first <= Len(receipts[r.ent]) + 1

\* The commits of an entitlement follow each other.
Follows(e, k) ==
    /\ commits[e][k].time = ProgressAt(e, k - 1).time + commits[e][k].delta
    /\ ProgressAt(e, k - 1).done => commits[e][k].done

ChainInv ==
    /\ \A e \in Ents : \A k \in 1..Len(commits[e]) : Follows(e, k)
    /\ loc.ent # 0 /\ ~Has("discarded") /\ ~Has("signing")
       => loc.snap = ProgressAt(loc.ent, Len(commits[loc.ent]))

\* The accepted receipts are the first ones, and the attempt in the hands of a device
\* is as its last accepted commit left it.
TakenIn(rs) == Cardinality({k \in DOMAIN rs : rs[k].outcome = "accepted"})
InOrder(rs) == /\ TakenIn(rs) \in 0..Len(rs)
               /\ {k \in DOMAIN rs : rs[k].outcome = "accepted"} = 1..TakenIn(rs)

AcceptedInv ==
    /\ \A e \in Ents : /\ InOrder(receipts[e])
                       /\ Len(receipts[e]) <= Len(commits[e])
    /\ att.ent # 0 => [done |-> att.done, time |-> att.time]
                        = ProgressAt(att.ent, TakenIn(receipts[att.ent]))

\* A record that is answered stands behind accepted ones; only the last can be without
\* a signature, and what is discarded stands behind a refusal.
Consistent(jn, k) ==
    /\ jn[k].status = "signing" => k = Len(jn)
    /\ jn[k].status \in {"signing", "pending"} => jn[k].outcome = "none"
    /\ jn[k].status = "acknowledged" => jn[k].outcome # "none"
    /\ jn[k].status = "discarded" =>
          \E t \in 1..k : jn[t].outcome \in {"rejected", "conflict"}
    /\ jn[k].outcome # "none" => \A j \in 1..(k - 1) : jn[j] = Acknowledged("accepted")

JournalInv == \A k \in 1..Len(journal) : Consistent(journal, k)

\* What the page waits for, or holds, are receipts of pending records, behind accepted
\* ones.
Awaited(first, n) ==
    /\ loc.ent # 0
    /\ first + n <= Len(journal) + 1
    /\ \A k \in first..(first + n - 1) : journal[k].status = "pending"
    /\ n > 0 => \A k \in 1..(first - 1) : journal[k] = Acknowledged("accepted")

ReceivedInv ==
    /\ \A r \in req : r.live /\ r.kind = "sync" => Awaited(r.first, r.count)
    /\ ans.kind = "receipts" =>
          /\ Awaited(ans.first, Len(ans.out))
          /\ ans.first + Len(ans.out) <= Len(receipts[loc.ent]) + 1
          /\ \A i \in 1..Len(ans.out) :
                /\ ans.out[i] = receipts[loc.ent][ans.first + i - 1].outcome
                /\ i < Len(ans.out) => ans.out[i] = "accepted"

Inv == /\ Types /\ WaitInv /\ HolderInv /\ EpochInv /\ ClearedInv /\ LengthInv
       /\ BatchInv /\ ChainInv /\ AcceptedInv /\ JournalInv /\ ReceiptsAgree
       /\ ReceivedInv

-----------------------------------------------------------------------------
(***************************************************************************)
(* The loop over a batch.                                                  *)
(***************************************************************************)
LEMMA NoneTaken == TakenIn(<< >>) = 0 /\ InOrder(<< >>)
  <1>1. {k \in DOMAIN << >> : << >>[k].outcome = "accepted"} = {}
    OBVIOUS
  <1> QED
    BY <1>1, FS_EmptySet DEF TakenIn, InOrder

\* One more receipt: an acceptance comes only behind acceptances.
LEMMA OneMoreReceipt ==
    ASSUME NEW rs \in Seq(Receipts), InOrder(rs), NEW x \in Receipts,
           x.outcome = "accepted" => TakenIn(rs) = Len(rs)
    PROVE  /\ InOrder(Append(rs, x))
           /\ TakenIn(Append(rs, x))
                = IF x.outcome = "accepted" THEN TakenIn(rs) + 1 ELSE TakenIn(rs)
  <1> DEFINE n == TakenIn(rs)
             m == IF x.outcome = "accepted" THEN n + 1 ELSE n
             more == {k \in DOMAIN Append(rs, x) : Append(rs, x)[k].outcome = "accepted"}
  <1>1. n \in 0..Len(rs) /\ {k \in DOMAIN rs : rs[k].outcome = "accepted"} = 1..n
    BY DEF InOrder
  <1>2. /\ DOMAIN Append(rs, x) = 1..(Len(rs) + 1) /\ Len(Append(rs, x)) = Len(rs) + 1
        /\ \A k \in 1..Len(rs) : Append(rs, x)[k] = rs[k]
        /\ Append(rs, x)[Len(rs) + 1] = x
        /\ DOMAIN rs = 1..Len(rs) /\ Len(rs) \in Nat
    OBVIOUS
  <1>3. more = 1..m
    <2>1. ASSUME NEW k \in 1..(Len(rs) + 1)
          PROVE  Append(rs, x)[k].outcome = "accepted" <=> k \in 1..m
      <3>1. CASE k = Len(rs) + 1
        BY <1>1, <1>2, <3>1
      <3>2. CASE k # Len(rs) + 1
        <4>1. k \in 1..Len(rs)
          BY <1>2, <3>2
        <4>2. Append(rs, x)[k].outcome = "accepted" <=> k \in 1..n
          BY <1>1, <1>2, <4>1
        <4> QED
          BY <1>1, <1>2, <4>1, <4>2
      <3> QED
        BY <3>1, <3>2
    <2>2. m \in 0..(Len(rs) + 1)
      BY <1>1, <1>2
    <2> QED
      BY <1>2, <2>1, <2>2
  <1>4. m \in 0..(Len(rs) + 1) /\ TakenIn(Append(rs, x)) = m
    <2>1. m \in 0..(Len(rs) + 1)
      BY <1>1, <1>2
    <2>2. \A i \in Nat : Cardinality(1..i) = i
      BY FS_Interval
    <2>3. TakenIn(Append(rs, x)) = Cardinality(more)
      BY DEF TakenIn
    <2> HIDE DEF m, more
    <2> QED
      BY <1>2, <1>3, <2>1, <2>2, <2>3
  <1> QED
    BY <1>2, <1>3, <1>4 DEF InOrder

\* The state of the transaction, and what holds of it after j turns over request r.
Transactions == [a : Attempts, r : Entitlements, rs : Seq(Receipts),
                 out : Seq(Outcomes), stop : BOOLEAN, gap : BOOLEAN]

Turn(r, s, j) ==
    /\ s \in Transactions /\ (att.done => s.a.done)
    /\ s.a.mode = att.mode /\ s.a.ent = att.ent /\ s.a.gen = att.gen
    /\ s.r = [ent[r.ent] EXCEPT !.cursor = s.r.cursor]
    /\ InOrder(s.rs)
    /\ Len(s.rs) \in Len(receipts[r.ent])..Len(commits[r.ent])
    /\ \A k \in 1..Len(receipts[r.ent]) : s.rs[k] = receipts[r.ent][k]
    /\ TakenIn(s.rs) >= TakenIn(receipts[r.ent])
    /\ IF att.ent = r.ent
       THEN [done |-> s.a.done, time |-> s.a.time] = ProgressAt(r.ent, TakenIn(s.rs))
       ELSE s.a = att /\ TakenIn(s.rs) = TakenIn(receipts[r.ent])
    /\ Len(s.out) <= j
    /\ r.first + Len(s.out) <= Len(s.rs) + 1
    /\ \A i \in 1..Len(s.out) : /\ s.out[i] = s.rs[r.first + i - 1].outcome
                                /\ i < Len(s.out) => s.out[i] = "accepted"
    /\ ~s.stop => Len(s.out) = j /\ \A i \in 1..Len(s.out) : s.out[i] = "accepted"

\* The state in which a batch is received.
Ready(r) ==
    /\ ServerTypes /\ commits \in [Ents -> Seq(Entries)]
    /\ HolderInv /\ AcceptedInv /\ \A e \in Ents : \A k \in 1..Len(commits[e]) : Follows(e, k)
    /\ r.ent \in Ents /\ r.first \in Nat \ {0} /\ r.count \in Nat
    /\ r.first + r.count <= Len(commits[r.ent]) + 1
    /\ r.first <= Len(receipts[r.ent]) + 1

LEMMA TurnStart ==
    ASSUME NEW r, Ready(r)
    PROVE  Turn(r, BatchStart(r), 0)
  <1>1. /\ BatchStart(r).a = att /\ BatchStart(r).r = ent[r.ent]
        /\ BatchStart(r).rs = receipts[r.ent] /\ BatchStart(r).out = << >>
        /\ BatchStart(r).stop = FALSE /\ BatchStart(r).gap = FALSE
    BY DEF BatchStart
  <1>2. /\ ent[r.ent] \in Entitlements /\ receipts[r.ent] \in Seq(Receipts)
        /\ commits[r.ent] \in Seq(Entries) /\ att \in Attempts
        /\ InOrder(receipts[r.ent]) /\ Len(receipts[r.ent]) <= Len(commits[r.ent])
    BY DEF Ready, ServerTypes, AcceptedInv
  <1>3. ent[r.ent] = [ent[r.ent] EXCEPT !.cursor = ent[r.ent].cursor]
    BY <1>2 DEF Entitlements
  <1>4. att.ent = r.ent => [done |-> att.done, time |-> att.time]
                             = ProgressAt(r.ent, TakenIn(receipts[r.ent]))
    BY <1>2 DEF Ready, AcceptedInv, Ents
  <1>5. /\ TakenIn(receipts[r.ent]) >= TakenIn(receipts[r.ent])
        /\ Len(receipts[r.ent]) \in Len(receipts[r.ent])..Len(commits[r.ent])
    BY <1>2 DEF InOrder
  <1>6. /\ << >> \in Seq(Outcomes) /\ Len(<< >>) = 0
        /\ r.first + 0 <= Len(receipts[r.ent]) + 1
    BY DEF Ready
  <1> DEFINE s == BatchStart(r)
  <1> HIDE DEF s
  <1>7. \A i \in 1..Len(s.out) : FALSE
    BY <1>1, <1>6 DEF s
  <1>8. Len(s.out) = 0
    BY <1>1, <1>6 DEF s
  <1>9. r.first + Len(s.out) <= Len(s.rs) + 1
    BY <1>1, <1>6, <1>8 DEF s
  <1>10. s \in Transactions
    BY <1>2, <1>6 DEF s, BatchStart, Transactions
  <1>11. /\ s.a = att /\ s.r = ent[r.ent] /\ s.rs = receipts[r.ent]
    BY <1>1 DEF s
  <1>12. Turn(r, s, 0)
    BY <1>2, <1>3, <1>4, <1>5, <1>7, <1>8, <1>9, <1>10, <1>11 DEF Turn
  <1> QED
    BY <1>12 DEF s

\* A turn.  A commit without a receipt is the next one.
LEMMA TurnStep ==
    ASSUME NEW r, Ready(r), NEW j \in Nat, j < r.count, NEW s, Turn(r, s, j),
           NEW k, k = r.first + j
    PROVE  Turn(r, ReconcileOne(r.ent, s, k), j + 1)
  <1> DEFINE c == commits[r.ent][k]
             v == Verdict(s.a, r.ent, s.r, s.rs, k, c)
             t == ReconcileOne(r.ent, s, k)
             after == IF v = "accepted" THEN Applied(s.a, c) ELSE s.a
             x == [outcome |-> v, launch |-> c.launch, elapsed |-> c.elapsed]
  <1>1. /\ r.ent \in Ents /\ k \in 1..Len(commits[r.ent]) /\ k \in Nat
        /\ r.first \in Nat \ {0} /\ commits[r.ent] \in Seq(Entries) /\ c \in Entries
    BY DEF Ready
  <1>2. /\ s \in Transactions /\ s.a \in Attempts /\ s.r \in Entitlements
        /\ s.rs \in Seq(Receipts) /\ s.out \in Seq(Outcomes)
        /\ Len(s.rs) \in Nat /\ Len(s.out) \in Nat /\ Len(commits[r.ent]) \in Nat
        /\ ent[r.ent] \in Entitlements /\ Len(receipts[r.ent]) \in Nat
    <2>1. s \in Transactions
      BY DEF Turn
    <2>2. /\ s.a \in Attempts /\ s.r \in Entitlements
          /\ s.rs \in Seq(Receipts) /\ s.out \in Seq(Outcomes)
      BY <2>1 DEF Transactions
    <2>3. ent[r.ent] \in Entitlements /\ receipts[r.ent] \in Seq(Receipts)
      BY <1>1 DEF Ready, ServerTypes
    <2> QED
      BY <1>1, <2>1, <2>2, <2>3
  <1>3. /\ s.stop => t = s
        /\ ~s.stop /\ k <= Len(s.rs) =>
              t = [s EXCEPT !.out = Append(@, s.rs[k].outcome),
                            !.stop = s.rs[k].outcome # "accepted"]
        /\ ~s.stop /\ ~(k <= Len(s.rs)) /\ v = "gap" =>
              t = [s EXCEPT !.stop = TRUE, !.gap = TRUE]
        /\ ~s.stop /\ ~(k <= Len(s.rs)) /\ v # "gap" =>
              t = [s EXCEPT !.a = after, !.r = [@ EXCEPT !.cursor = after.rev],
                            !.rs = Append(@, x), !.out = Append(@, v),
                            !.stop = v # "accepted"]
    BY DEF ReconcileOne
  <1>4. /\ v \in Outcomes \cup {"gap"}
        /\ v = "accepted" => k = TakenIn(s.rs) + 1 /\ s.a.ent = r.ent
    BY DEF Verdict, TakenIn, Outcomes
  <1>5. /\ after \in Attempts /\ (s.a.done => after.done)
        /\ after.mode = s.a.mode /\ after.ent = s.a.ent /\ after.gen = s.a.gen
        /\ v = "accepted" => /\ after.done <=> (s.a.done \/ c.done)
                             /\ after.time = c.time
        /\ v # "accepted" => after = s.a
    <2> HIDE DEF v, c
    <2>1. CASE v = "accepted"
      <3>1. s.a.rev \in Nat /\ s.a.rev + 1 \in Nat
        BY <1>2 DEF Attempts
      <3>2. PICK d \in BOOLEAN : d = (s.a.done \/ c.done)
        OBVIOUS
      <3>3. PICK n \in Nat : after = [s.a EXCEPT !.started = TRUE, !.done = d,
                                                 !.time = c.time, !.rev = n]
        BY <2>1, <3>1, <3>2 DEF Applied
      <3>4. c.time \in 0..MaxTime /\ s.a.rev \in Nat
        BY <1>1, <1>2 DEF Attempts, Entries
      <3> HIDE DEF after
      <3>5. /\ after \in Attempts /\ after.mode = s.a.mode /\ after.ent = s.a.ent
            /\ after.gen = s.a.gen /\ after.time = c.time /\ after.done = d
        BY <1>2, <3>1, <3>3, <3>4 DEF Attempts
      <3>6. d <=> (s.a.done \/ c.done)
        BY <3>2
      <3>7. after.done <=> (s.a.done \/ c.done)
        BY <3>5, <3>6
      <3> QED
        BY <2>1, <3>5, <3>7
    <2>2. CASE v # "accepted"
      BY <1>2, <2>2
    <2> QED
      BY <2>1, <2>2
  <1>6. v # "gap" => x \in Receipts /\ x.outcome = v
    BY <1>1, <1>4 DEF Receipts, Entries
  <1> HIDE DEF c, v, after, x
  <1> SUFFICES Turn(r, t, j + 1)
    OBVIOUS
  <1> HIDE DEF t
  <1>7. CASE s.stop
    BY <1>2, <1>3, <1>7 DEF Turn
  <1>8. CASE ~s.stop /\ k <= Len(s.rs)
    <2>1. PICK o : o = s.rs[k].outcome
      OBVIOUS
    <2>2. o \in Outcomes
      <3>1. s.rs[k] \in Receipts
        BY <1>1, <1>2, <1>8
      <3> QED
        BY <2>1, <3>1 DEF Receipts
    <2>3. t = [s EXCEPT !.out = Append(@, o), !.stop = o # "accepted"]
      BY <1>3, <1>8, <2>1
    <2>4. /\ t \in Transactions /\ t.a = s.a /\ t.r = s.r /\ t.rs = s.rs
          /\ t.out = Append(s.out, o) /\ (~t.stop => o = "accepted")
      <3>1. PICK b \in BOOLEAN : b = (o # "accepted")
        OBVIOUS
      <3>2. t = [s EXCEPT !.out = Append(s.out, o), !.stop = b]
        BY <1>2, <2>3, <3>1 DEF Transactions
      <3>3. Append(s.out, o) \in Seq(Outcomes)
        BY <1>2, <2>2
      <3>4. t.stop <=> o # "accepted"
        BY <1>2, <3>1, <3>2 DEF Transactions
      <3> QED
        BY <1>2, <3>2, <3>3, <3>4 DEF Transactions
    <2>5. /\ Len(t.out) = j + 1 /\ t.out[j + 1] = o
          /\ \A i \in 1..j : t.out[i] = s.out[i] /\ s.out[i] = "accepted"
      BY <1>2, <1>8, <2>2, <2>4 DEF Turn
    <2>6. \A i \in 1..(j + 1) : t.out[i] = t.rs[r.first + i - 1].outcome
      <3>1. Len(s.out) = j
        BY <1>8 DEF Turn
      <3>2. \A i \in 1..j : s.out[i] = s.rs[r.first + i - 1].outcome
        BY <3>1 DEF Turn
      <3>3. t.rs = s.rs
        BY <2>4
      <3>4. r.first + (j + 1) - 1 = k
        BY <1>1
      <3> SUFFICES ASSUME NEW i \in 1..(j + 1)
                   PROVE  t.out[i] = s.rs[r.first + i - 1].outcome
        BY <3>3
      <3>5. CASE i \in 1..j
        BY <2>5, <3>2, <3>5
      <3>6. CASE i = j + 1
        BY <2>1, <2>5, <3>4, <3>6
      <3> QED
        BY <3>5, <3>6
    <2>7. r.first + Len(t.out) <= Len(t.rs) + 1
      BY <1>1, <1>2, <1>8, <2>4, <2>5
    <2>8. /\ \A i \in 1..Len(t.out) : i < Len(t.out) => t.out[i] = "accepted"
          /\ ~t.stop => \A i \in 1..Len(t.out) : t.out[i] = "accepted"
      BY <2>4, <2>5
    <2> QED
      BY <2>4, <2>5, <2>6, <2>7, <2>8 DEF Turn
  <1>9. CASE ~s.stop /\ ~(k <= Len(s.rs)) /\ v = "gap"
    <2>1. /\ t \in Transactions /\ t.a = s.a /\ t.r = s.r /\ t.rs = s.rs
          /\ t.out = s.out /\ t.stop
      BY <1>2, <1>3, <1>9 DEF Transactions
    <2> QED
      BY <1>2, <2>1 DEF Turn
  <1>10. CASE ~s.stop /\ ~(k <= Len(s.rs)) /\ v # "gap"
    <2>1. k = Len(s.rs) + 1 /\ Len(s.out) = j /\ Len(s.rs) < Len(commits[r.ent])
      <3>1. Len(s.out) = j /\ r.first + Len(s.out) <= Len(s.rs) + 1
        BY <1>10 DEF Turn
      <3> QED
        BY <1>1, <1>2, <1>10, <3>1
    <2>2. x \in Receipts /\ x.outcome = v /\ v \in Outcomes
      BY <1>4, <1>6, <1>10
    <2>3. /\ t.a = after /\ t.r = [s.r EXCEPT !.cursor = after.rev]
          /\ t.rs = Append(s.rs, x) /\ t.out = Append(s.out, v)
          /\ ~t.stop => v = "accepted"
      BY <1>2, <1>3, <1>10 DEF Transactions
    <2>4. t \in Transactions
      <3>1. [s.r EXCEPT !.cursor = after.rev] \in Entitlements
        BY <1>2, <1>5 DEF Entitlements, Attempts
      <3>2. Append(s.rs, x) \in Seq(Receipts) /\ Append(s.out, v) \in Seq(Outcomes)
        BY <1>2, <2>2
      <3> QED
        BY <1>2, <1>3, <1>5, <1>10, <3>1, <3>2 DEF Transactions
    <2>5. t.r = [ent[r.ent] EXCEPT !.cursor = t.r.cursor]
      BY <1>2, <2>3 DEF Turn, Entitlements
    <2>6. TakenIn(s.rs) \in Nat /\ TakenIn(receipts[r.ent]) \in Nat
      BY <1>1, <1>2 DEF Turn, InOrder, Ready, AcceptedInv
    <2>7. /\ InOrder(t.rs)
          /\ TakenIn(t.rs) = IF v = "accepted" THEN TakenIn(s.rs) + 1 ELSE TakenIn(s.rs)
      <3>1. x.outcome = "accepted" => TakenIn(s.rs) = Len(s.rs)
        BY <1>1, <1>2, <1>4, <2>1, <2>2, <2>6
      <3>2. InOrder(s.rs)
        BY DEF Turn
      <3> QED
        BY <1>2, <2>2, <2>3, <3>1, <3>2, OneMoreReceipt
    <2>8. /\ Len(t.rs) = k /\ t.rs[k] = x
          /\ \A i \in 1..Len(s.rs) : t.rs[i] = s.rs[i]
      BY <1>2, <2>1, <2>2, <2>3
    <2>9. /\ Len(t.out) = j + 1 /\ t.out[j + 1] = v
          /\ \A i \in 1..j : t.out[i] = s.out[i] /\ s.out[i] = "accepted"
      BY <1>2, <1>10, <2>1, <2>2, <2>3 DEF Turn
    <2>10. \A i \in 1..(j + 1) : t.out[i] = t.rs[r.first + i - 1].outcome
      <3>1. \A i \in 1..j : r.first + i - 1 \in 1..Len(s.rs)
        BY <1>1, <1>2, <2>1
      <3>2. \A i \in 1..j : s.out[i] = s.rs[r.first + i - 1].outcome
        BY <2>1 DEF Turn
      <3>3. r.first + (j + 1) - 1 = k
        BY <1>1
      <3> SUFFICES ASSUME NEW i \in 1..(j + 1)
                   PROVE  t.out[i] = t.rs[r.first + i - 1].outcome
        OBVIOUS
      <3>4. CASE i \in 1..j
        <4>1. t.rs[r.first + i - 1] = s.rs[r.first + i - 1]
          BY <2>8, <3>1, <3>4
        <4> QED
          BY <2>9, <3>2, <3>4, <4>1
      <3>5. CASE i = j + 1
        BY <2>2, <2>8, <2>9, <3>3, <3>5
      <3> QED
        BY <3>4, <3>5
    <2>11. IF att.ent = r.ent
           THEN [done |-> t.a.done, time |-> t.a.time] = ProgressAt(r.ent, TakenIn(t.rs))
           ELSE t.a = att /\ TakenIn(t.rs) = TakenIn(receipts[r.ent])
      <3>1. CASE v = "accepted"
        <4>1. TakenIn(t.rs) = k /\ att.ent = r.ent /\ k - 1 = TakenIn(s.rs)
          BY <1>1, <1>4, <2>6, <2>7, <3>1 DEF Turn
        <4>2. ProgressAt(r.ent, k) = [done |-> c.done, time |-> c.time]
          BY <1>1 DEF ProgressAt, c
        <4>3. s.a.done => c.done
          <5>1. s.a.done = ProgressAt(r.ent, k - 1).done
            BY <4>1 DEF Turn
          <5> QED
            BY <1>1, <5>1 DEF Ready, Follows, c
        <4>4. after.done = c.done
          BY <1>1, <1>2, <1>5, <3>1, <4>3 DEF Attempts, Entries
        <4> QED
          BY <1>5, <2>3, <3>1, <4>1, <4>2, <4>4
      <3>2. CASE v # "accepted"
        BY <1>5, <2>3, <2>7, <3>2 DEF Turn
      <3> QED
        BY <3>1, <3>2
    <2>12. /\ \A i \in 1..Len(receipts[r.ent]) : t.rs[i] = receipts[r.ent][i]
           /\ Len(t.rs) \in Len(receipts[r.ent])..Len(commits[r.ent])
      BY <1>1, <1>2, <2>1, <2>8 DEF Turn
    <2>13. /\ TakenIn(t.rs) >= TakenIn(receipts[r.ent])
           /\ r.first + Len(t.out) <= Len(t.rs) + 1
           /\ Len(t.out) <= j + 1
      <3>1. TakenIn(s.rs) >= TakenIn(receipts[r.ent])
        BY DEF Turn
      <3>2. TakenIn(t.rs) >= TakenIn(receipts[r.ent])
        BY <2>6, <2>7, <3>1
      <3> QED
        BY <1>1, <2>8, <2>9, <3>2
    <2>14. /\ \A i \in 1..Len(t.out) : i < Len(t.out) => t.out[i] = "accepted"
           /\ ~t.stop => \A i \in 1..Len(t.out) : t.out[i] = "accepted"
      BY <2>3, <2>9
    <2>15. /\ (att.done => t.a.done) /\ t.a.mode = att.mode
           /\ t.a.ent = att.ent /\ t.a.gen = att.gen
      BY <1>5, <2>3 DEF Turn
    <2> QED
      BY <2>4, <2>5, <2>7, <2>9, <2>10, <2>11, <2>12, <2>13, <2>14, <2>15 DEF Turn
  <1> QED
    BY <1>7, <1>8, <1>9, <1>10

\* What holds of no least number holds of none.
LEMMA LeastNumber ==
    ASSUME NEW B, B \subseteq Nat, B # {}
    PROVE  \E m \in B : \A k \in B : m <= k
  <1> DEFINE less == OpToRel(<, Nat)
  <1>1. IsWellFoundedOn(less, Nat)
    BY NatLessThanWellFounded
  <1>2. \A x, y \in Nat : x < y => <<x, y>> \in less
    BY DEF OpToRel
  <1> HIDE DEF less
  <1>3. PICK m \in B : \A k \in B : <<k, m>> \notin less
    BY <1>1, WFMin
  <1>4. ASSUME NEW k \in B PROVE m <= k
    <2>1. k \in Nat /\ m \in Nat
      OBVIOUS
    <2>2. ~(k < m)
      BY <1>2, <1>3, <2>1, Zenon
    <2> QED
      BY <2>1, <2>2
  <1> QED
    BY <1>4

LEMMA GreatestEntitlement ==
    ASSUME NEW S, S \subseteq Ents, S # {}
    PROVE  \E m \in S : \A k \in S : k <= m
  <1> DEFINE B == {m \in Nat : \A k \in S : k <= m}
  <1>1. MaxEnts \in B /\ B \subseteq Nat
    BY OfflineAssumption DEF Ents
  <1>2. PICK m \in B : \A n \in B : m <= n
    <2> HIDE DEF B
    <2> QED
      BY <1>1, LeastNumber
  <1>3. m \in Nat /\ \A k \in S : k <= m
    OBVIOUS
  <1>4. ASSUME m \notin S PROVE FALSE
    <2>1. \A k \in S : k \in Nat /\ 1 <= k /\ k <= m - 1
      BY <1>3, <1>4 DEF Ents
    <2>2. m - 1 \in B
      BY <1>3, <2>1
    <2> QED
      BY <1>2, <1>3, <2>2
  <1> QED
    BY <1>3, <1>4

\* The states after the first m turns; that there are such functions is shown by a
\* least m without one.
Runs(r, m, run) ==
    run = [j \in 0..m |-> IF j = 0 THEN BatchStart(r)
                          ELSE ReconcileOne(r.ent, run[j - 1], r.first + j - 1)]

LEMMA RunsExist ==
    ASSUME NEW r, NEW n \in Nat
    PROVE  \E run : Runs(r, n, run)
  <1> DEFINE B == {m \in Nat : ~\E run : Runs(r, m, run)}
  <1> SUFFICES ASSUME B # {} PROVE FALSE
    OBVIOUS
  <1>1. PICK m \in B : \A k \in B : m <= k
    <2>1. B \subseteq Nat
      OBVIOUS
    <2> HIDE DEF B
    <2> QED
      BY <2>1, LeastNumber
  <1>2. m \in Nat /\ ~\E run : Runs(r, m, run)
    OBVIOUS
  <1>3. m # 0
    <2>1. Runs(r, 0, [j \in 0..0 |-> BatchStart(r)])
      BY DEF Runs
    <2> QED
      BY <1>2, <2>1
  <1>4. m - 1 \in Nat /\ m - 1 \notin B
    BY <1>1, <1>2, <1>3
  <1>5. PICK g : Runs(r, m - 1, g)
    BY <1>4
  <1> DEFINE run == [j \in 0..m |-> IF j = m THEN ReconcileOne(r.ent, g[m - 1], r.first + m - 1)
                                    ELSE g[j]]
  <1>6. ASSUME NEW j \in 0..m
        PROVE  run[j] = IF j = 0 THEN BatchStart(r)
                        ELSE ReconcileOne(r.ent, run[j - 1], r.first + j - 1)
    <2>1. CASE j = m
      BY <1>2, <1>3, <2>1
    <2>2. CASE j # m
      <3>1. j \in 0..(m - 1) /\ (j # 0 => j - 1 \in 0..(m - 1) /\ j - 1 # m)
        BY <1>2, <2>2
      <3>2. g[j] = IF j = 0 THEN BatchStart(r)
                   ELSE ReconcileOne(r.ent, g[j - 1], r.first + j - 1)
        BY <1>5, <3>1 DEF Runs
      <3>3. run[j] = g[j] /\ (j # 0 => run[j - 1] = g[j - 1])
        BY <1>2, <2>2, <3>1
      <3> QED
        BY <3>2, <3>3
    <2> QED
      BY <2>1, <2>2
  <1>7. Runs(r, m, run)
    <2>1. run = [j \in 0..m |-> run[j]]
      OBVIOUS
    <2> HIDE DEF run
    <2> QED
      BY <1>6, <2>1 DEF Runs
  <1> QED
    BY <1>2, <1>7

\* What a batch leaves.
LEMMA BatchTurns ==
    ASSUME NEW r, Ready(r)
    PROVE  Turn(r, Batch(r), r.count)
  <1> DEFINE run == CHOOSE f : Runs(r, r.count, f)
  <1>1. r.count \in Nat /\ Runs(r, r.count, run)
    BY RunsExist DEF Ready
  <1>2. Batch(r) = run[r.count]
    BY DEF Batch, Runs
  <1> HIDE DEF run
  <1>3. /\ run[0] = BatchStart(r)
        /\ \A j \in 1..r.count : run[j] = ReconcileOne(r.ent, run[j - 1], r.first + j - 1)
    BY <1>1 DEF Runs
  <1> DEFINE B == {j \in 0..r.count : ~Turn(r, run[j], j)}
  <1>4. ASSUME B # {} PROVE FALSE
    <2>1. PICK m \in B : \A k \in B : m <= k
      <3>1. B \subseteq Nat
        OBVIOUS
      <3> HIDE DEF B
      <3> QED
        BY <1>4, <3>1, LeastNumber
    <2>2. m # 0
      BY <1>3, TurnStart
    <2>3. /\ m \in 1..r.count /\ m - 1 \in Nat /\ m - 1 < r.count /\ (m - 1) + 1 = m
          /\ r.first + m - 1 = r.first + (m - 1)
      BY <1>1, <2>1, <2>2 DEF Ready
    <2>4. Turn(r, run[m - 1], m - 1)
      BY <1>1, <2>1, <2>3
    <2>5. Turn(r, ReconcileOne(r.ent, run[m - 1], r.first + m - 1), (m - 1) + 1)
      BY <2>3, <2>4, TurnStep
    <2>6. Turn(r, run[m], m)
      BY <1>3, <2>3, <2>5
    <2> QED
      BY <2>1, <2>6
  <1> QED
    BY <1>1, <1>2, <1>4

-----------------------------------------------------------------------------
(***************************************************************************)
(* Types are kept.                                                         *)
(***************************************************************************)
LEMMA RequestKinds ==
    ASSUME NEW r \in Requests
    PROVE  /\ r.kind \in {"activate", "issue"} =>
                r \in [kind : {"activate", "issue"}, inst : Ents, live : BOOLEAN]
           /\ r.kind = "sync" =>
                r \in [kind : {"sync"}, ent : Ents, first : Nat \ {0},
                       count : Nat \ {0}, live : BOOLEAN]
           /\ r.kind = "resolve" =>
                r \in [kind : {"resolve"}, ent : Ents,
                       res : {"reconciled", "discarded"}, live : BOOLEAN]
           /\ r.kind = "cleanup" => r \in [kind : {"cleanup"}, ent : Ents, live : BOOLEAN]
           /\ [r EXCEPT !.live = FALSE] \in Requests
           /\ r.kind \in {"activate", "issue", "sync", "resolve", "cleanup"}
  BY DEF Requests

LEMMA AnswerKinds ==
    ASSUME NEW a \in Answers
    PROVE  /\ a.kind = "none" <=> a = Nothing
           /\ a.kind = "denied" => a \in [kind : {"denied"}, discard : BOOLEAN]
           /\ a.kind = "issued" => a \in [kind : {"issued"}, ent : Ents]
           /\ a.kind = "receipts" =>
                a \in [kind : {"receipts"}, first : Nat \ {0}, out : Seq(Outcomes),
                       gap : BOOLEAN]
           /\ a.kind \in {"none", "denied", "issued", "receipts", "cleanup", "refused",
                          "cleared"}
  BY DEF Answers, Nothing

LEMMA ForgottenTypes ==
    ASSUME NetTypes
    PROVE  Forgotten \subseteq Requests
  BY RequestKinds DEF Forgotten, NetTypes

LEMMA RefreshedTypes ==
    ASSUME Types, NEW i \in Cards, RefreshCourses(i)
    PROVE  idx' \in Cards /\ shown' \in Cards /\ known' \in Bootstraps
  <1>1. Recovered(i) \in Cards
    <2>1. CASE Retained(i) = {}
      BY <2>1 DEF Recovered
    <2>2. CASE Retained(i) # {}
      <3> DEFINE e == CHOOSE x \in Retained(i) : \A f \in Retained(i) : f <= x
      <3>1. e \in Ents
        <4>1. Retained(i) \subseteq Ents
          BY DEF Retained
        <4> QED
          BY <2>2, <4>1, GreatestEntitlement
      <3>2. Recovered(i) \in {i, [state |-> RecoveredState(e), ent |-> e]}
        BY <2>2 DEF Recovered
      <3>3. RecoveredState(e) \in {"blocked", "removing"}
        BY DEF RecoveredState
      <3> HIDE DEF e
      <3> QED
        BY <3>1, <3>2, <3>3 DEF Cards
    <2> QED
      BY <2>1, <2>2
  <1>2. CASE idx' = i /\ shown' = i /\ UNCHANGED known
    BY <1>2 DEF Types, PageTypes
  <1>3. CASE /\ idx' = Recovered(i) /\ shown' = idx'
             /\ known' = [e \in Ents |-> IF e \in Retained(i)
                                         THEN [res |-> ent[e].res, cleanup |-> ent[e].cleanup]
                                         ELSE Unknown[e]]
    <2>1. \A e \in Ents : ent[e] \in Entitlements
      BY DEF Types, ServerTypes
    <2> QED
      BY <1>1, <1>3, <2>1 DEF Unknown, Entitlements, Bootstraps
  <1> QED
    BY <1>2, <1>3 DEF RefreshCourses

LEMMA Asked ==
    /\ \A i \in Ents : [kind |-> "activate", inst |-> i, live |-> TRUE] \in Requests
    /\ \A e \in Ents, f, n \in Nat \ {0} :
          [kind |-> "sync", ent |-> e, first |-> f, live |-> TRUE, count |-> n] \in Requests
    /\ \A e \in Ents, a \in {"reconciled", "discarded"} :
          [kind |-> "resolve", ent |-> e, res |-> a, live |-> TRUE] \in Requests
    /\ \A e \in Ents : [kind |-> "cleanup", ent |-> e, live |-> TRUE] \in Requests
  BY DEF Requests

LEMMA Stepped ==
    ASSUME Types, NEW s \in StepNames, Step(s)
    PROVE  /\ op' \in Operations /\ op'.step = s /\ op'.kind = op.kind
           /\ op'.ent = op.ent /\ op'.res = op.res /\ op'.base = op.base
  BY DEF Step, Types, PageTypes, Operations

LEMMA Finished ==
    ASSUME Finish
    PROVE  /\ op' \in Operations /\ op'.step = "none" /\ op'.kind = "none"
           /\ op'.ent = 0
  BY OfflineAssumption DEF Finish, Idle, Operations, StepNames

LEMMA OnlineTypes ==
    ASSUME Types, Online \/ Tick
    PROVE  Types'
  <1>1. UNCHANGED <<ent, receipts, inst, net, device, page, launches>>
    BY DEF Online, CreateLaunch, ExchangeToken, RecordProgress, Tick, server
  <1>2. NetTypes' /\ DeviceTypes' /\ PageTypes'
    BY <1>1 DEF Types, NetTypes, DeviceTypes, PageTypes, net, device, page
  <1>3. ServerTypes'
    <2>1. att \in Attempts /\ att.gen \in Nat /\ att.rev \in Nat /\ att.rev + 1 \in Nat
      BY DEF Types, ServerTypes, Attempts
    <2>2. CASE CreateLaunch
      BY <2>1, <2>2 DEF CreateLaunch, Types, ServerTypes
    <2>3. CASE ExchangeToken
      <3>1. att' \in {att, [att EXCEPT !.started = TRUE, !.rev = att.rev + 1]}
        BY <2>3 DEF ExchangeToken
      <3>2. att' \in Attempts
        BY <2>1, <3>1 DEF Attempts
      <3>3. NoToken \in Nat
        BY OfflineAssumption DEF NoToken
      <3> QED
        BY <2>1, <2>3, <3>2, <3>3 DEF ExchangeToken, Types, ServerTypes
    <2>4. ASSUME NEW g \in Gens, NEW s \in Snapshots, RecordProgress(g, s)
          PROVE  ServerTypes'
      <3>1. PICK n \in {att.rev, att.rev + 1} :
               att' = [att EXCEPT !.started = TRUE, !.done = s.done, !.time = s.time,
                                  !.rev = n]
        BY <2>4 DEF RecordProgress
      <3>2. att' \in Attempts
        BY <2>1, <3>1 DEF Attempts, Snapshots
      <3> QED
        BY <2>4, <3>2 DEF RecordProgress, Types, ServerTypes
    <2>5. CASE Tick
      BY <2>5 DEF Tick, Types, ServerTypes, server
    <2> QED
      BY <2>2, <2>3, <2>4, <2>5 DEF Online
  <1> QED
    BY <1>2, <1>3 DEF Types

LEMMA RefreshTypes ==
    ASSUME Types, Refresh
    PROVE  Types'
  <1>1. idx \in Cards
    BY DEF Types, DeviceTypes
  <1>2. idx' \in Cards /\ shown' \in Cards /\ known' \in Bootstraps
    BY <1>1, RefreshedTypes DEF Refresh
  <1> QED
    BY <1>2 DEF Refresh, Types, ServerTypes, NetTypes, DeviceTypes, PageTypes, server, net

LEMMA InstallTypes ==
    ASSUME Types, Install
    PROVE  Types'
  <1>1. ServerTypes' /\ launches' \in Nat
    BY DEF Install, Types, ServerTypes, PageTypes, server
  <1>2. CASE BeginInstall
    <2>1. idx' \in Cards
      BY <1>2 DEF BeginInstall, Types, DeviceTypes, Cards
    <2>2. op' \in Operations /\ op'.kind = "install" /\ op'.step = "prepare"
      <3>1. op' = [kind |-> "install", step |-> "prepare", ent |-> 0, res |-> "none",
                   base |-> 0]
        BY <1>2 DEF BeginInstall, Idle
      <3> QED
        BY <3>1, OfflineAssumption DEF Operations, StepNames
    <2> QED
      BY <1>1, <1>2, <2>1, <2>2 DEF BeginInstall, Types, NetTypes, DeviceTypes, PageTypes,
         net, Steps, Installing, Existing
  <1>3. CASE PrepareInstallation
    <2>1. key' \in Ents
      <3> DEFINE unused == {i \in Ents : inst[i] = "none"
                                /\ \A r \in req : r.kind = "activate" => r.inst # i}
      <3>1. CASE key # 0
        BY <1>3, <3>1 DEF PrepareInstallation, Types, DeviceTypes, Ents
      <3>2. CASE key = 0
        <4>1. /\ unused # {} /\ unused \subseteq Nat /\ unused \subseteq Ents
              /\ key' = CHOOSE i \in unused : \A j \in unused : i <= j
          BY <1>3, <3>2 DEF PrepareInstallation, Ents
        <4> HIDE DEF unused
        <4> QED
          BY <4>1, LeastNumber
      <3> QED
        BY <3>1, <3>2
    <2>2. req' \subseteq Requests
      BY <1>3, <2>1, Asked DEF PrepareInstallation, Ask, Types, NetTypes
    <2>3. /\ op' \in Operations /\ op'.step = "wait" /\ op'.kind = op.kind
          /\ op'.ent = op.ent
      BY <1>3, Stepped DEF PrepareInstallation, StepNames
    <2> QED
      BY <1>1, <1>3, <2>1, <2>2, <2>3 DEF PrepareInstallation, Types, NetTypes, DeviceTypes,
         PageTypes, Ents, Steps, Installing
  <1>4. CASE TakeActivation
    <2>1. PICK e \in Ents : e = ans.ent
      BY <1>4, AnswerKinds DEF TakeActivation, Types, NetTypes
    <2>2. op' \in Operations /\ op'.ent = e /\ op'.step = "entitlement" /\ e # 0
      <3>1. op' = [op EXCEPT !.step = "entitlement", !.ent = e]
        BY <1>4, <2>1 DEF TakeActivation
      <3>2. e \in 0..MaxEnts /\ e # 0 /\ "entitlement" \in StepNames
        BY <2>1 DEF Ents, StepNames, Installing
      <3> QED
        BY <3>1, <3>2 DEF Types, PageTypes, Operations
    <2>3. idx' \in Cards
      BY <1>4, <2>1 DEF TakeActivation, Cards
    <2>4. ans' \in Answers
      BY <1>4 DEF TakeActivation, Answers
    <2> QED
      BY <1>1, <1>4, <2>2, <2>3, <2>4 DEF TakeActivation, Types, NetTypes, DeviceTypes,
         PageTypes, Steps
  <1>5. CASE AbandonActivation
    <2>1. idx' \in Cards /\ shown' \in Cards /\ known' \in Bootstraps
      <3>1. None \in Cards
        BY DEF None, Cards
      <3> QED
        BY <1>5, <3>1, RefreshedTypes DEF AbandonActivation
    <2>2. key' \in 0..MaxEnts /\ ans' \in Answers
      BY <1>5, OfflineAssumption DEF AbandonActivation, Types, DeviceTypes, Answers
    <2>3. op' \in Operations /\ op'.kind = "none" /\ op'.step = "none"
      BY <1>5, Finished DEF AbandonActivation
    <2> QED
      BY <1>1, <1>5, <2>1, <2>2, <2>3 DEF AbandonActivation, Types, NetTypes, DeviceTypes,
         PageTypes, Steps, Installing, Existing
  <1>6. CASE PutEntitlement
    <2>1. ent[op.ent].init \in Snapshots /\ op.ent \in Ents
      BY <1>6 DEF PutEntitlement, Types, ServerTypes, PageTypes, Operations, Entitlements,
         Ents, Installing
    <2>2. /\ loc' \in [ent : 0..MaxEnts, snap : Snapshots]
          /\ spool' \in [entries : Seq(Entries), launch : Nat, next : Nat, high : Nat]
      <3>1. /\ loc' \in {loc, [ent |-> op.ent, snap |-> ent[op.ent].init]}
            /\ spool' \in {spool, EmptySpool}
        BY <1>6 DEF PutEntitlement
      <3>2. EmptySpool \in [entries : Seq(Entries), launch : Nat, next : Nat, high : Nat]
        BY DEF EmptySpool
      <3>3. op.ent \in 0..MaxEnts
        BY <2>1 DEF Ents
      <3> QED
        BY <2>1, <3>1, <3>2, <3>3 DEF Types, DeviceTypes
    <2>3. /\ op' \in Operations /\ op'.step \in {"package", "none"}
          /\ op'.step = "package" => op'.kind = op.kind /\ op'.ent = op.ent
          /\ op'.step = "none" => op'.kind = "none"
      BY <1>6, Stepped, Finished DEF PutEntitlement, StepNames, Installing
    <2> QED
      BY <1>1, <1>6, <2>1, <2>2, <2>3 DEF PutEntitlement, Types, NetTypes, DeviceTypes,
         PageTypes, net, Steps, Installing, Existing, Ents
  <1>7. CASE PutPackage
    <2>1. /\ op' \in Operations /\ op'.step \in {"download", "none"}
          /\ op'.step = "download" => op'.kind = op.kind /\ op'.ent = op.ent
          /\ op'.step = "none" => op'.kind = "none"
      BY <1>7, Stepped, Finished DEF PutPackage, StepNames, Installing
    <2> QED
      BY <1>1, <1>7, <2>1 DEF PutPackage, Types, NetTypes, DeviceTypes, PageTypes, net, Steps,
         Installing, Existing
  <1>8. CASE PackageInstalled
    <2>1. /\ op' \in Operations /\ op'.step = "installed" /\ op'.kind = op.kind
          /\ op'.ent = op.ent
      BY <1>8, Stepped DEF PackageInstalled, StepNames, Installing
    <2> QED
      BY <1>1, <1>8, <2>1 DEF PackageInstalled, Types, NetTypes, DeviceTypes, PageTypes, net,
         Steps, Installing, Existing
  <1>9. CASE DownloadComplete
    <2>1. idx' \in Cards /\ shown' \in Cards /\ known' \in Bootstraps
      <3>1. [state |-> "ready", ent |-> op.ent] \in Cards
        BY <1>9 DEF DownloadComplete, Cards, Types, PageTypes, Operations, Installing, Ents
      <3> QED
        BY <1>9, <3>1, RefreshedTypes DEF DownloadComplete
    <2>2. op' \in Operations /\ op'.kind = "none" /\ op'.step = "none"
      BY <1>9, Finished DEF DownloadComplete
    <2> QED
      BY <1>1, <1>9, <2>1, <2>2 DEF DownloadComplete, Types, NetTypes, DeviceTypes, PageTypes,
         net, Steps, Installing, Existing
  <1> QED
    BY <1>2, <1>3, <1>4, <1>5, <1>6, <1>7, <1>8, <1>9 DEF Install

LEMMA OpenTypes ==
    ASSUME Types, LengthInv, Open
    PROVE  Types'
  <1>1. ServerTypes'
    BY DEF Open, Types, ServerTypes, server
  <1>2. ASSUME NEW kind \in Existing, BeginExisting(kind)
        PROVE  Types'
    <2>1. shown.ent \in Ents /\ shown.ent \in 0..MaxEnts /\ shown.ent # 0
      BY <1>2 DEF BeginExisting, Types, PageTypes, Cards, Ents
    <2>2. PICK s \in {"finalize", "load"} :
             op' = [kind |-> kind, step |-> s, ent |-> shown.ent, res |-> "none", base |-> 0]
      BY <1>2 DEF BeginExisting, Idle
    <2>3. op' \in Operations /\ op'.kind = kind /\ op'.ent # 0 /\ op'.step = s
      BY <2>1, <2>2 DEF Operations, StepNames, Steps
    <2> QED
      BY <1>1, <1>2, <2>2, <2>3 DEF BeginExisting, Types, NetTypes, DeviceTypes, PageTypes,
         net, device, Steps, Installing, Existing
  <1>3. CASE LoadContext
    <2>1. op \in Operations /\ op.kind \in Existing /\ op.ent # 0 /\ op.ent \in Ents
      BY <1>3 DEF LoadContext, Types, PageTypes, Operations, Steps, Ents
    <2>2. known[op.ent].res \in {"none", "reconciled", "discarded"}
      BY <2>1 DEF Types, PageTypes, Bootstraps
    <2>3. \/ \E a \in {"reconciled", "discarded"} :
                op' = [op EXCEPT !.step = "complete", !.res = a]
          \/ Step("drain") /\ loc.ent # 0
          \/ Finish
      BY <1>3, <2>2 DEF LoadContext
    <2>4. /\ op' \in Operations /\ op'.step \in {"complete", "drain", "none"}
          /\ op'.step # "none" => op'.kind = op.kind /\ op'.ent = op.ent
          /\ op'.step = "none" => op'.kind = "none"
          /\ op'.step = "complete" => op'.res # "none"
          /\ op'.step = "drain" => loc.ent # 0
      <3>1. ASSUME NEW a \in {"reconciled", "discarded"},
                   op' = [op EXCEPT !.step = "complete", !.res = a]
            PROVE  /\ op' \in Operations /\ op'.step = "complete" /\ op'.res # "none"
                   /\ op'.kind = op.kind /\ op'.ent = op.ent
        BY <2>1, <3>1 DEF Operations, StepNames, Steps
      <3>2. Step("drain") => /\ op' \in Operations /\ op'.step = "drain"
                             /\ op'.kind = op.kind /\ op'.ent = op.ent
        BY Stepped DEF StepNames, Steps
      <3> QED
        BY <2>3, <3>1, <3>2, Finished
    <2> QED
      BY <1>1, <1>3, <2>1, <2>4 DEF LoadContext, Types, NetTypes, DeviceTypes, PageTypes, net,
         device, Steps, Installing, Existing
  <1>4. CASE ReserveSpoolEntry
    <2>1. PICK x \in Entries : x = Head(spool.entries)
      <3>1. spool.entries \in Seq(Entries) /\ spool.entries # << >>
        BY <1>4 DEF ReserveSpoolEntry, Draining, Types, DeviceTypes
      <3> QED
        BY <3>1
    <2>2. loc.ent \in Ents
      BY <1>4 DEF ReserveSpoolEntry, Draining, Types, DeviceTypes, PageTypes, Ents
    <2>3. /\ commits' = [commits EXCEPT ![loc.ent] = Append(@, x)]
          /\ journal' = Append(journal, [status |-> "signing", outcome |-> "none"])
      BY <1>4, <2>1 DEF ReserveSpoolEntry
    <2>4. commits' \in [Ents -> Seq(Entries)]
      <3>1. commits \in [Ents -> Seq(Entries)]
        BY DEF Types, DeviceTypes
      <3>2. Append(commits[loc.ent], x) \in Seq(Entries)
        BY <2>2, <3>1
      <3> QED
        BY <2>3, <3>1, <3>2
    <2>5. journal' \in Seq(Records)
      <3>1. [status |-> "signing", outcome |-> "none"] \in Records
        BY DEF Records
      <3> QED
        BY <2>3, <3>1 DEF Types, DeviceTypes
    <2> QED
      BY <1>1, <1>4, <2>4, <2>5 DEF ReserveSpoolEntry, Types, NetTypes, DeviceTypes,
         PageTypes, net
  <1>5. CASE FinaliseJournalEntry
    <2>1. PICK k \in RecordOf(Head(spool.entries)) :
             /\ journal' = [journal EXCEPT ![k].status = "pending"]
             /\ loc' = [loc EXCEPT !.snap = SnapshotAfter(commits[loc.ent][k])]
      BY <1>5 DEF FinaliseJournalEntry
    <2>2. loc.ent \in Ents /\ k \in 1..Len(journal) /\ journal \in Seq(Records)
      BY <1>5, <2>1 DEF FinaliseJournalEntry, Draining, RecordOf, Types, DeviceTypes,
         PageTypes, Ents
    <2>3. SnapshotAfter(commits[loc.ent][k]) \in Snapshots
      <3>1. commits[loc.ent] \in Seq(Entries) /\ Len(journal) = Len(commits[loc.ent])
        BY <2>2 DEF Types, DeviceTypes, LengthInv, Ents
      <3>2. commits[loc.ent][k] \in Entries
        BY <2>2, <3>1
      <3> QED
        BY <3>2 DEF SnapshotAfter, Snapshots, Entries
    <2>4. loc' \in [ent : 0..MaxEnts, snap : Snapshots] /\ loc'.ent = loc.ent
      BY <2>1, <2>3 DEF Types, DeviceTypes
    <2>5. journal' \in Seq(Records)
      <3>1. [journal[k] EXCEPT !.status = "pending"] \in Records
        <4>1. journal[k] \in Records
          BY <2>2
        <4> QED
          BY <4>1 DEF Records
      <3> QED
        BY <2>1, <2>2, <3>1
    <2> QED
      BY <1>1, <1>5, <2>4, <2>5 DEF FinaliseJournalEntry, Types, NetTypes, DeviceTypes,
         PageTypes, net
  <1>6. CASE AcknowledgeSpoolEntry
    <2>1. spool' \in [entries : Seq(Entries), launch : Nat, next : Nat, high : Nat]
      <3>1. /\ spool \in [entries : Seq(Entries), launch : Nat, next : Nat, high : Nat]
            /\ spool.entries \in Seq(Entries) /\ spool.entries # << >>
        BY <1>6 DEF AcknowledgeSpoolEntry, Draining, Types, DeviceTypes
      <3>2. Tail(spool.entries) \in Seq(Entries)
        BY <3>1
      <3> QED
        BY <1>6, <3>1, <3>2 DEF AcknowledgeSpoolEntry
    <2> QED
      BY <1>1, <1>6, <2>1 DEF AcknowledgeSpoolEntry, Types, NetTypes, DeviceTypes, PageTypes,
         net
  <1>7. CASE RefuseSpoolEntry \/ ClosePlayer
    <2>1. op' \in Operations /\ op'.kind = "none" /\ op'.step = "none"
      BY <1>7, Finished DEF RefuseSpoolEntry, ClosePlayer
    <2>2. UNCHANGED <<device, net, shown, known, launches>>
      BY <1>7 DEF RefuseSpoolEntry, ClosePlayer
    <2>3. DeviceTypes' /\ NetTypes'
      BY <2>2 DEF Types, DeviceTypes, NetTypes, device, net
    <2>4. PageTypes'
      BY <2>1, <2>2 DEF Types, PageTypes, Steps, Installing, Existing
    <2> QED
      BY <1>1, <2>3, <2>4 DEF Types
  <1>8. CASE InitializePlayer
    <2>1. /\ launches' \in Nat
          /\ spool' \in [entries : Seq(Entries), launch : Nat, next : Nat, high : Nat]
      <3>1. /\ launches \in Nat
            /\ spool \in [entries : Seq(Entries), launch : Nat, next : Nat, high : Nat]
        BY DEF Types, DeviceTypes, PageTypes
      <3>2. PICK n \in Nat : n = launches + 1
        BY <3>1
      <3>3. EmptySpool \in [entries : Seq(Entries), launch : Nat, next : Nat, high : Nat]
        BY DEF EmptySpool
      <3>4. \/ launches' = n /\ spool' = [EmptySpool EXCEPT !.launch = n]
            \/ launches' = launches /\ spool' = spool
        BY <1>8, <3>2 DEF InitializePlayer
      <3> QED
        BY <3>1, <3>3, <3>4
    <2>2. /\ op' \in Operations /\ op'.step \in {"play", "none"}
          /\ op'.step = "play" => op'.kind = op.kind /\ op'.ent = op.ent
          /\ op'.step = "none" => op'.kind = "none"
      <3>1. loc.snap.time \in Nat
        BY DEF Types, DeviceTypes, Snapshots
      <3>2. \/ op' = [op EXCEPT !.step = "play", !.base = loc.snap.time]
            \/ Finish
        BY <1>8 DEF InitializePlayer
      <3>3. ASSUME op' = [op EXCEPT !.step = "play", !.base = loc.snap.time]
            PROVE  /\ op' \in Operations /\ op'.step = "play"
                   /\ op'.kind = op.kind /\ op'.ent = op.ent
        BY <3>1, <3>3 DEF Types, PageTypes, Operations, StepNames, Steps
      <3> QED
        BY <3>2, <3>3, Finished
    <2>3. op.step = "drain"
      BY <1>8 DEF InitializePlayer
    <2> QED
      BY <1>1, <1>8, <2>1, <2>2, <2>3 DEF InitializePlayer, Types, NetTypes, DeviceTypes,
         PageTypes, net, Steps, Installing, Existing
  <1>9. ASSUME NEW done \in BOOLEAN, NEW delta \in {0, 1}, Checkpoint(done, delta)
        PROVE  Types'
    <2>1. /\ spool \in [entries : Seq(Entries), launch : Nat, next : Nat, high : Nat]
          /\ op.base \in Nat
      BY DEF Types, DeviceTypes, PageTypes, Operations
    <2> DEFINE x == [launch |-> spool.launch, ordinal |-> spool.next,
                     elapsed |-> spool.high + delta, delta |-> delta,
                     done |-> done, time |-> op.base + spool.high + delta]
    <2>2. x \in Entries
      <3>1. op.base + spool.high + delta \in 0..MaxTime
        <4>1. op.base + spool.high + delta <= MaxTime
          BY <1>9, Zenon DEF Checkpoint
        <4> QED
          BY <2>1, <4>1, OfflineAssumption
      <3>2. /\ spool.launch \in Nat /\ spool.next \in Nat /\ spool.high + delta \in Nat
            /\ delta \in Nat
        BY <2>1
      <3>3. \A l, o, h, d \in Nat, b \in BOOLEAN, t \in 0..MaxTime :
               [launch |-> l, ordinal |-> o, elapsed |-> h, delta |-> d, done |-> b,
                time |-> t] \in Entries
        BY DEF Entries
      <3>4. PICK h \in Nat, t \in 0..MaxTime :
               h = spool.high + delta /\ t = op.base + spool.high + delta
        BY <3>1, <3>2
      <3>5. x = [launch |-> spool.launch, ordinal |-> spool.next, elapsed |-> h,
                 delta |-> delta, done |-> done, time |-> t]
        BY <3>4
      <3> HIDE DEF x
      <3> QED
        BY <3>2, <3>3, <3>5
    <2>3. spool' = [spool EXCEPT !.next = spool.next + 1, !.high = spool.high + delta,
                                 !.entries = Append(spool.entries, x)]
      BY <1>9, <2>1 DEF Checkpoint
    <2> HIDE DEF x
    <2>4. spool' \in [entries : Seq(Entries), launch : Nat, next : Nat, high : Nat]
      <3>1. /\ Append(spool.entries, x) \in Seq(Entries)
            /\ spool.next + 1 \in Nat /\ spool.high + delta \in Nat
        BY <2>1, <2>2
      <3> QED
        BY <2>1, <2>3, <3>1
    <2> QED
      BY <1>1, <1>9, <2>4 DEF Checkpoint, Types, NetTypes, DeviceTypes, PageTypes, net
  <1>10. UNCHANGED launches \/ InitializePlayer
    BY DEF Open, BeginExisting, LoadContext, ReserveSpoolEntry, FinaliseJournalEntry,
       AcknowledgeSpoolEntry, RefuseSpoolEntry, ClosePlayer, Checkpoint
  <1> QED
    BY <1>2, <1>3, <1>4, <1>5, <1>6, <1>7, <1>8, <1>9 DEF Open, Existing

\* The batch asks for records of the journal.
LEMMA PendingBatch ==
    ASSUME Types, Pending # {},
           NEW first, first = CHOOSE k \in Pending : \A j \in Pending : k <= j,
           NEW n, n = Cardinality(Pending)
    PROVE  /\ first \in Pending /\ \A k \in Pending : first <= k
           /\ first \in 1..Len(journal) /\ n \in Nat \ {0}
           /\ first + n <= Len(journal) + 1
           /\ \A last \in first..Len(journal) :
                 Pending \subseteq first..last => first + n <= last + 1
  <1>1. journal \in Seq(Records) /\ Len(journal) \in Nat
    BY DEF Types, DeviceTypes
  <1>2. Pending \subseteq 1..Len(journal) /\ Pending \subseteq Nat
    <2>1. \A k \in Pending : k \in 1..Len(journal)
      BY <1>1 DEF Pending
    <2> QED
      BY <1>1, <2>1
  <1>3. first \in Pending /\ \A k \in Pending : first <= k
    <2>1. \E m \in Pending : \A k \in Pending : m <= k
      BY <1>2, LeastNumber
    <2> QED
      BY <2>1
  <1>4. first \in 1..Len(journal)
    BY <1>2, <1>3
  <1>5. ASSUME NEW last \in first..Len(journal), Pending \subseteq first..last
        PROVE  n \in Nat /\ first + n <= last + 1
    <2>1. /\ IsFiniteSet(first..last) /\ Cardinality(first..last) = last - first + 1
          /\ first \in Int /\ last \in Int
      BY <1>1, <1>4, FS_Interval
    <2>2. n <= Cardinality(first..last) /\ n \in Nat
      BY <1>5, <2>1, FS_Subset, FS_CardinalityType
    <2> QED
      BY <1>1, <1>4, <2>1, <2>2
  <1>6. Pending \subseteq first..Len(journal)
    BY <1>1, <1>2, <1>3
  <1>7. n \in Nat /\ first + n <= Len(journal) + 1
    <2>1. Len(journal) \in first..Len(journal)
      BY <1>1, <1>4
    <2> QED
      BY <1>5, <1>6, <2>1
  <1>8. n # 0
    <2>1. IsFiniteSet(1..Len(journal))
      BY <1>1, FS_Interval
    <2>2. IsFiniteSet(Pending)
      BY <1>2, <2>1, FS_Subset
    <2> QED
      BY <2>2, FS_EmptySet
  <1> QED
    BY <1>3, <1>4, <1>5, <1>7, <1>8

\* A record is replaced, or the sequence stays as it is.
LEMMA Replaced ==
    ASSUME NEW S, NEW s \in Seq(S), NEW i, NEW x \in S
    PROVE  [s EXCEPT ![i] = x] \in Seq(S) /\ Len([s EXCEPT ![i] = x]) = Len(s)
  <1>1. Len(s) \in Nat /\ s \in [1..Len(s) -> S]
    OBVIOUS
  <1>2. [s EXCEPT ![i] = x] \in [1..Len(s) -> S]
    BY <1>1
  <1> QED
    BY <1>1, <1>2

LEMMA SyncTypes ==
    ASSUME Types, WaitInv, ReceivedInv, Sync
    PROVE  Types'
  <1>1. ServerTypes' /\ launches' \in Nat
    BY DEF Sync, Types, ServerTypes, PageTypes, server
  <1>2. Sending => op.kind \in Existing /\ op.ent # 0 /\ op.ent \in Ents /\ loc.ent \in Ents
    BY DEF Sending, Types, DeviceTypes, PageTypes, Operations, Steps, Ents
  <1>3. CASE SendBatch
    <2> DEFINE f == CHOOSE k \in Pending : \A j \in Pending : k <= j
               n == Cardinality(Pending)
               m == IF n < BatchLimit THEN n ELSE BatchLimit
    <2>1. req' = req \cup {[kind |-> "sync", ent |-> loc.ent, first |-> f, live |-> TRUE,
                            count |-> m]}
      BY <1>3 DEF SendBatch, Ask
    <2>2. f \in Nat \ {0} /\ n \in Nat \ {0}
      <3>1. Pending # {} /\ Len(journal) \in Nat
        BY <1>3 DEF SendBatch, Types, DeviceTypes
      <3>2. f \in 1..Len(journal) /\ n \in Nat \ {0}
        BY <3>1, PendingBatch
      <3> HIDE DEF f, n
      <3> QED
        BY <3>1, <3>2
    <2>3. m \in Nat \ {0}
      BY <2>2, OfflineAssumption
    <2>4. req' \subseteq Requests
      <3> HIDE DEF f, n, m
      <3> QED
        BY <1>2, <1>3, <2>1, <2>2, <2>3, Asked DEF SendBatch, Types, NetTypes
    <2>5. /\ op' \in Operations /\ op'.step = "wait" /\ op'.kind = op.kind
          /\ op'.ent = op.ent
      BY <1>3, Stepped DEF SendBatch, StepNames
    <2> QED
      BY <1>1, <1>2, <1>3, <2>4, <2>5 DEF SendBatch, Types, NetTypes, DeviceTypes, PageTypes,
         device, Steps, Installing
  <1>4. CASE AcceptReceipt
    <2>1. /\ ans \in [kind : {"receipts"}, first : Nat \ {0}, out : Seq(Outcomes),
                      gap : BOOLEAN]
          /\ op.kind \in Existing /\ loc.ent # 0
      BY <1>4, AnswerKinds DEF AcceptReceipt, Types, NetTypes, WaitInv, ServerAnswers,
         ReceivedInv, Awaited
    <2>2. CASE ans.out # << >>
      <3>1. /\ journal' = [journal EXCEPT ![ans.first] = Acknowledged(Head(ans.out))]
            /\ ans' = [ans EXCEPT !.first = @ + 1, !.out = Tail(@)] /\ UNCHANGED op
        BY <1>4, <2>2 DEF AcceptReceipt
      <3>2. ans.out \in Seq(Outcomes) /\ ans.first \in Nat \ {0}
        BY <2>1
      <3>3. Head(ans.out) \in Outcomes /\ Tail(ans.out) \in Seq(Outcomes)
            /\ ans.first + 1 \in Nat \ {0}
        BY <2>2, <3>2
      <3>4. Acknowledged(Head(ans.out)) \in Records
        BY <3>3 DEF Acknowledged, Records
      <3>5. journal' \in Seq(Records)
        <4>1. PICK x \in Records : journal' = [journal EXCEPT ![ans.first] = x]
          BY <3>1, <3>4
        <4> QED
          BY <4>1, Replaced DEF Types, DeviceTypes
      <3>6. ans' \in Answers
        BY <2>1, <3>1, <3>3 DEF Answers
      <3> QED
        BY <1>1, <1>4, <3>1, <3>5, <3>6 DEF AcceptReceipt, Types, NetTypes, DeviceTypes,
           PageTypes
    <2>3. CASE ans.out = << >>
      <3>1. /\ ans' = Nothing /\ UNCHANGED journal
            /\ IF ans.gap THEN Finish ELSE Step("send")
        BY <1>4, <2>3 DEF AcceptReceipt
      <3>2. /\ op' \in Operations /\ op'.step \in {"send", "none"}
            /\ op'.step = "send" => op'.kind = op.kind /\ op'.ent = op.ent
            /\ op'.step = "none" => op'.kind = "none"
        BY <3>1, Stepped, Finished DEF StepNames, Steps
      <3>3. ans' \in Answers
        BY <3>1 DEF Answers
      <3> QED
        BY <1>1, <1>4, <2>1, <3>1, <3>2, <3>3 DEF AcceptReceipt, Types, NetTypes, DeviceTypes,
           PageTypes, Steps, Installing, Existing
    <2> QED
      BY <2>2, <2>3
  <1>5. CASE SyncBlocked
    <2>1. /\ op' \in Operations /\ op'.step \in {"confirm", "none"}
          /\ op'.step = "confirm" => op'.kind = op.kind /\ op'.ent = op.ent
          /\ op'.step = "none" => op'.kind = "none"
      BY <1>5, Stepped, Finished DEF SyncBlocked, StepNames, Steps
    <2>2. idx' \in Cards
      BY <1>2, <1>5 DEF SyncBlocked, Cards
    <2> QED
      BY <1>1, <1>2, <1>5, <2>1, <2>2 DEF SyncBlocked, Types, NetTypes, DeviceTypes, PageTypes,
         net, Steps, Installing, Existing
  <1>6. CASE DeclineDiscard
    <2>1. op' \in Operations /\ op'.kind = "none" /\ op'.step = "none"
      BY <1>6, Finished DEF DeclineDiscard
    <2> QED
      BY <1>1, <1>6, <2>1 DEF DeclineDiscard, Types, NetTypes, DeviceTypes, PageTypes, net,
         device, Steps, Installing, Existing
  <1>7. CASE ConfirmDiscard
    <2>1. journal' \in Seq(Records)
      <3>1. journal \in Seq(Records) /\ Len(journal) \in Nat
        BY DEF Types, DeviceTypes
      <3>2. \A k \in 1..Len(journal) : journal'[k] \in Records
        <4>1. \A x \in Records : [x EXCEPT !.status = "discarded"] \in Records
          BY DEF Records
        <4> QED
          BY <1>7, <3>1, <4>1 DEF ConfirmDiscard
      <3>3. journal' = [k \in 1..Len(journal) |-> journal'[k]]
        BY <1>7, <3>1 DEF ConfirmDiscard
      <3> QED
        BY <3>1, <3>2, <3>3
    <2>2. /\ op' = [op EXCEPT !.step = "complete", !.res = "discarded"]
          /\ op.kind \in Existing /\ op.ent # 0 /\ op \in Operations
      BY <1>7 DEF ConfirmDiscard, Types, PageTypes, Steps
    <2>3. /\ op' \in Operations /\ op'.step = "complete" /\ op'.kind = op.kind
          /\ op'.ent = op.ent /\ op'.res = "discarded"
      BY <2>2 DEF Operations, StepNames, Steps
    <2> QED
      BY <1>1, <1>7, <2>1, <2>2, <2>3 DEF ConfirmDiscard, Types, NetTypes, DeviceTypes,
         PageTypes, net, Steps, Installing, Existing
  <1>8. CASE SyncComplete
    <2>1. /\ op.kind \in Existing /\ op.ent # 0 /\ op \in Operations
      BY <1>2, <1>8 DEF SyncComplete, Types, PageTypes
    <2>2. \/ op' = [op EXCEPT !.step = "complete", !.res = "reconciled"]
          \/ Finish
      BY <1>8 DEF SyncComplete
    <2>3. /\ op' \in Operations
          /\ \/ op'.step = "none" /\ op'.kind = "none"
             \/ /\ op'.step = "complete" /\ op'.kind = op.kind
                /\ op'.ent = op.ent /\ op'.res = "reconciled"
      <3>1. CASE op' = [op EXCEPT !.step = "complete", !.res = "reconciled"]
        BY <2>1, <3>1 DEF Operations, StepNames, Steps
      <3>2. CASE Finish
        BY <3>2, Finished
      <3> QED
        BY <2>2, <3>1, <3>2
    <2> QED
      BY <1>1, <1>8, <2>1, <2>3 DEF SyncComplete, Types, NetTypes, DeviceTypes, PageTypes,
         net, device, Steps, Installing, Existing
  <1> QED
    BY <1>3, <1>4, <1>5, <1>6, <1>7, <1>8 DEF Sync

\* The device keeps its attempt, or gives it up.
LEMMA Clears ==
    ASSUME ClearAttempt
    PROVE  \/ key' = key /\ loc' = loc /\ journal' = journal /\ pkg' = pkg
           \/ /\ loc.ent = op.ent /\ pkg = "cleared" /\ ReadyForCleanup
              /\ loc' = [ent |-> 0, snap |-> [done |-> FALSE, time |-> 0]]
              /\ journal' = << >> /\ pkg' = "none" /\ key' = 0 /\ Step("unindex")
  BY DEF ClearAttempt

LEMMA RemovalTypes ==
    ASSUME Types, WaitInv, Removal
    PROVE  Types'
  <1>1. ServerTypes' /\ launches' \in Nat
    BY DEF Removal, Types, ServerTypes, PageTypes, server
  <1>2. CASE AskResolution
    <2>1. /\ op.ent \in Ents /\ op.kind \in Existing /\ op.res \in {"reconciled", "discarded"}
      BY <1>2 DEF AskResolution, Types, PageTypes, Operations, Steps, Ents
    <2>2. req' \subseteq Requests
      BY <1>2, <2>1, Asked DEF AskResolution, Ask, Types, NetTypes
    <2>3. idx' \in Cards
      BY <1>2, <2>1 DEF AskResolution, Cards
    <2>4. /\ op' \in Operations /\ op'.step = "wait" /\ op'.kind = op.kind
          /\ op'.ent = op.ent
      BY <1>2, Stepped DEF AskResolution, StepNames
    <2> QED
      BY <1>1, <1>2, <2>1, <2>2, <2>3, <2>4 DEF AskResolution, Types, NetTypes, DeviceTypes,
         PageTypes, Steps, Installing, Existing, Ents
  <1>3. CASE BeginCleanup
    <2>1. op.kind \in Existing /\ op.ent # 0 /\ ans' \in Answers
      BY <1>3 DEF BeginCleanup, WaitInv, ServerAnswers, Types, PageTypes, Answers
    <2>2. pkg' \in {"none", "downloading", "ready", "cleanup_pending", "cleared"}
      BY <1>3 DEF BeginCleanup, Types, DeviceTypes
    <2>3. /\ op' \in Operations /\ op'.step \in {"wipe", "none"}
          /\ op'.step = "wipe" => op'.kind = op.kind /\ op'.ent = op.ent
          /\ op'.step = "none" => op'.kind = "none"
      BY <1>3, Stepped, Finished DEF BeginCleanup, StepNames, Steps
    <2> QED
      BY <1>1, <1>3, <2>1, <2>2, <2>3 DEF BeginCleanup, Types, NetTypes, DeviceTypes,
         PageTypes, Steps, Installing, Existing
  <1>4. CASE WipeSite
    <2>1. op.ent \in Ents /\ op.kind \in Existing
      BY <1>4 DEF WipeSite, Types, PageTypes, Operations, Steps, Ents
    <2>2. req' \subseteq Requests
      BY <1>4, <2>1, Asked DEF WipeSite, Ask, Types, NetTypes
    <2>3. /\ pkg' \in {"none", "downloading", "ready", "cleanup_pending", "cleared"}
          /\ spool' \in [entries : Seq(Entries), launch : Nat, next : Nat, high : Nat]
      <3>1. EmptySpool \in [entries : Seq(Entries), launch : Nat, next : Nat, high : Nat]
        BY DEF EmptySpool
      <3> QED
        BY <1>4, <3>1 DEF WipeSite, Types, DeviceTypes
    <2>4. /\ op' \in Operations /\ op'.step = "wait" /\ op'.kind = op.kind
          /\ op'.ent = op.ent
      BY <1>4, Stepped DEF WipeSite, StepNames
    <2> QED
      BY <1>1, <1>4, <2>1, <2>2, <2>3, <2>4 DEF WipeSite, Types, NetTypes, DeviceTypes,
         PageTypes, Steps, Installing, Existing, Ents
  <1>5. CASE ClearAttempt
    <2>1. op.kind \in Existing /\ op.ent # 0 /\ ans' \in Answers
      BY <1>5 DEF ClearAttempt, CleanupConfirmed, WaitInv, ServerAnswers, Types, NetTypes,
         PageTypes, Answers, Steps
    <2>2. /\ loc' \in [ent : 0..MaxEnts, snap : Snapshots] /\ key' \in 0..MaxEnts
          /\ journal' \in Seq(Records)
          /\ pkg' \in {"none", "downloading", "ready", "cleanup_pending", "cleared"}
      <3>1. /\ 0 \in 0..MaxEnts /\ 0 \in 0..MaxTime
        BY OfflineAssumption
      <3>2. [ent |-> 0, snap |-> [done |-> FALSE, time |-> 0]]
              \in [ent : 0..MaxEnts, snap : Snapshots]
        BY <3>1 DEF Snapshots
      <3>3. CASE key' = key /\ loc' = loc /\ journal' = journal /\ pkg' = pkg
        BY <3>3 DEF Types, DeviceTypes
      <3>4. CASE /\ loc' = [ent |-> 0, snap |-> [done |-> FALSE, time |-> 0]]
                 /\ journal' = << >> /\ pkg' = "none" /\ key' = 0
        BY <3>1, <3>2, <3>4
      <3> QED
        BY <1>5, <3>3, <3>4, Clears
    <2>3. /\ op' \in Operations /\ op'.step \in {"unindex", "none"}
          /\ op'.step = "unindex" => op'.kind = op.kind /\ op'.ent = op.ent
          /\ op'.step = "none" => op'.kind = "none"
      BY <1>5, Stepped, Finished DEF ClearAttempt, StepNames, Steps
    <2> QED
      BY <1>1, <1>5, <2>1, <2>2, <2>3 DEF ClearAttempt, Types, NetTypes, DeviceTypes,
         PageTypes, Steps, Installing, Existing
  <1>6. CASE DeleteIndexRecord
    <2>1. idx' \in Cards /\ shown' \in Cards /\ known' \in Bootstraps
      <3>1. None \in Cards
        BY DEF None, Cards
      <3> QED
        BY <1>6, <3>1, RefreshedTypes DEF DeleteIndexRecord
    <2>2. op' \in Operations /\ op'.kind = "none" /\ op'.step = "none"
      BY <1>6, Finished DEF DeleteIndexRecord
    <2> QED
      BY <1>1, <1>6, <2>1, <2>2 DEF DeleteIndexRecord, Types, NetTypes, DeviceTypes, PageTypes,
         net, Steps, Installing, Existing
  <1>7. CASE RefusedByServer
    <2>1. /\ op' \in Operations /\ op'.kind = "none" /\ op'.step = "none"
          /\ ans' \in Answers
      BY <1>7, Finished DEF RefusedByServer, Answers
    <2> QED
      BY <1>1, <1>7, <2>1 DEF RefusedByServer, Types, NetTypes, DeviceTypes, PageTypes,
         device, Steps, Installing, Existing
  <1> QED
    BY <1>2, <1>3, <1>4, <1>5, <1>6, <1>7 DEF Removal

LEMMA LostTypes ==
    ASSUME Types, LoseAnswer \/ Crash
    PROVE  Types'
  <1>1. ServerTypes' /\ DeviceTypes'
    BY DEF LoseAnswer, Crash, Types, ServerTypes, DeviceTypes, server, device
  <1>2. NetTypes'
    <2>1. Forgotten \subseteq Requests
      BY ForgottenTypes DEF Types
    <2> QED
      BY <2>1 DEF LoseAnswer, Crash, NetTypes, Answers
  <1>3. op' \in Operations /\ op'.kind = "none" /\ op'.step = "none"
    BY Finished DEF LoseAnswer, Crash
  <1>4. shown' \in Cards /\ known' \in Bootstraps /\ launches' \in Nat
    BY DEF LoseAnswer, Crash, Types, PageTypes, None, Cards, Unknown, Bootstraps
  <1> QED
    BY <1>1, <1>2, <1>3, <1>4 DEF Types, PageTypes, Steps, Installing, Existing

LEMMA AnswerTypes ==
    ASSUME NetTypes, NEW r \in req, NEW a \in Answers, Answer(r, a)
    PROVE  NetTypes'
  BY DEF NetTypes, Answer

LEMMA DenyTypes ==
    ASSUME ServerTypes, NetTypes, NEW r \in req, r.inst \in Ents, Deny(r)
    PROVE  inst' \in [Ents -> {"none", "active", "revoked"}] /\ NetTypes'
  <1>1. PICK used \in BOOLEAN : used = (\E e \in Ents : ent[e].inst = r.inst)
    OBVIOUS
  <1>2. [kind |-> "denied", discard |-> ~used] \in Answers
    BY DEF Answers
  <1>3. Answer(r, [kind |-> "denied", discard |-> ~used])
    BY <1>1 DEF Deny
  <1>4. NetTypes'
    BY <1>2, <1>3, AnswerTypes
  <1>5. inst' \in {inst, [inst EXCEPT ![r.inst] = "revoked"]}
    BY DEF Deny
  <1> QED
    BY <1>4, <1>5 DEF ServerTypes

LEMMA ReadyBatch ==
    ASSUME Inv, NEW r \in req, r.kind = "sync"
    PROVE  Ready(r) /\ Turn(r, Batch(r), r.count)
  <1>1. /\ r.ent \in Ents /\ r.first \in Nat \ {0} /\ r.count \in Nat
    BY RequestKinds DEF Inv, Types, NetTypes
  <1>2. Ready(r)
    BY <1>1 DEF Ready, Inv, Types, DeviceTypes, BatchInv, ChainInv
  <1> QED
    BY <1>2, BatchTurns

LEMMA ServeTypes ==
    ASSUME Inv, NEW r \in req, Serve(r)
    PROVE  Types'
  <1>1. DeviceTypes' /\ PageTypes'
    BY DEF Serve, Inv, Types, DeviceTypes, PageTypes, device, page
  <1>2. ServerTypes /\ NetTypes /\ r \in Requests /\ clock' = clock
    BY DEF Serve, Inv, Types, NetTypes
  <1>3. CASE ServeRegister(r)
    <2>1. r \in [kind : {"activate", "issue"}, inst : Ents, live : BOOLEAN]
      BY <1>2, <1>3, RequestKinds DEF ServeRegister
    <2>2. inst' \in [Ents -> {"none", "active", "revoked"}] /\ NetTypes'
      <3>1. CASE Deny(r)
        BY <1>2, <2>1, <3>1, DenyTypes
      <3>2. CASE /\ inst' = [inst EXCEPT ![r.inst] = "active"]
                 /\ req' = (req \ {r}) \cup {[r EXCEPT !.kind = "issue"]}
                 /\ UNCHANGED ans
        <4>1. [r EXCEPT !.kind = "issue"] \in Requests
          BY <2>1 DEF Requests
        <4> QED
          BY <1>2, <2>1, <3>2, <4>1 DEF NetTypes, ServerTypes
      <3> QED
        BY <1>3, <3>1, <3>2 DEF ServeRegister
    <2> QED
      BY <1>1, <1>2, <1>3, <2>2 DEF ServeRegister, Types, ServerTypes
  <1>4. CASE ServeIssue(r)
    <2>1. r.inst \in Ents
      BY <1>2, <1>4, RequestKinds DEF ServeIssue
    <2>2. UNCHANGED <<token, receipts>>
      BY <1>4 DEF ServeIssue
    <2>3. CASE /\ Recoverable(r.inst)
               /\ Answer(r, [kind |-> "issued", ent |-> att.ent])
               /\ UNCHANGED <<att, sess, ent, inst>>
      <3>1. att.ent \in Ents
        <4>1. att.mode # "online" /\ att.ent \in 0..MaxEnts
          BY <1>2, <2>3 DEF Recoverable, ServerTypes, Attempts
        <4> QED
          BY <4>1 DEF Inv, HolderInv, Ents
      <3>2. [kind |-> "issued", ent |-> att.ent] \in Answers
        BY <3>1 DEF Answers
      <3>3. NetTypes'
        BY <1>2, <2>3, <3>2, AnswerTypes
      <3> QED
        BY <1>1, <1>2, <2>2, <2>3, <3>3 DEF Types, ServerTypes
    <2>4. ASSUME NEW e \in Ents,
                 ent' = [ent EXCEPT ![e] =
                      [NoEnt EXCEPT !.status = "active", !.cleanup = "pending",
                          !.gen = att.gen + 1, !.inst = r.inst, !.base = att.rev,
                          !.cursor = att.rev,
                          !.init = [done |-> att.done, time |-> att.time]]],
                 att' = Delegated(att, e),
                 Answer(r, [kind |-> "issued", ent |-> e]),
                 sess' = {}, UNCHANGED inst
          PROVE  Types'
      <3>1. [kind |-> "issued", ent |-> e] \in Answers
        BY DEF Answers
      <3>2. NetTypes'
        BY <1>2, <2>4, <3>1, AnswerTypes
      <3>3. att \in Attempts /\ att.gen + 1 \in Nat /\ att.rev \in Nat
        BY <1>2 DEF ServerTypes, Attempts
      <3>4. att' = [att EXCEPT !.mode = "offline", !.ent = e, !.gen = att.gen + 1]
        BY <2>4 DEF Delegated
      <3>5. att' \in Attempts
        <4>1. e \in 0..MaxEnts
          BY DEF Ents
        <4> QED
          BY <3>3, <3>4, <4>1 DEF Attempts
      <3>6. [NoEnt EXCEPT !.status = "active", !.cleanup = "pending",
                 !.gen = att.gen + 1, !.inst = r.inst, !.base = att.rev,
                 !.cursor = att.rev,
                 !.init = [done |-> att.done, time |-> att.time]] \in Entitlements
        <4>1. r.inst \in 0..MaxEnts
          BY <2>1 DEF Ents
        <4>2. [done |-> att.done, time |-> att.time] \in Snapshots
          BY <3>3 DEF Attempts, Snapshots
        <4> QED
          BY <3>3, <4>1, <4>2 DEF NoEnt, Entitlements
      <3>7. ent' \in [Ents -> Entitlements]
        BY <1>2, <2>4, <3>6 DEF ServerTypes
      <3> QED
        BY <1>1, <1>2, <2>2, <2>4, <3>2, <3>5, <3>7 DEF Types, ServerTypes
    <2>5. CASE Deny(r) /\ UNCHANGED <<att, sess, ent>>
      <3>1. inst' \in [Ents -> {"none", "active", "revoked"}] /\ NetTypes'
        BY <1>2, <2>1, <2>5, DenyTypes
      <3> QED
        BY <1>1, <1>2, <2>2, <2>5, <3>1 DEF Types, ServerTypes
    <2> QED
      BY <1>4, <2>3, <2>4, <2>5 DEF ServeIssue
  <1>5. CASE ServeSync(r)
    <2>1. PICK s : s = Batch(r)
      OBVIOUS
    <2>2. s \in Transactions /\ r.ent \in Ents /\ r.first \in Nat \ {0}
      BY <1>5, <2>1, ReadyBatch DEF ServeSync, Turn, Ready
    <2>3. /\ att' = s.a /\ ent' = [ent EXCEPT ![r.ent] = s.r]
          /\ receipts' = [receipts EXCEPT ![r.ent] = s.rs]
          /\ Answer(r, [kind |-> "receipts", first |-> r.first, out |-> s.out,
                        gap |-> s.gap])
          /\ UNCHANGED <<token, sess, inst>>
      BY <1>5, <2>1 DEF ServeSync
    <2>4. [kind |-> "receipts", first |-> r.first, out |-> s.out, gap |-> s.gap] \in Answers
      BY <2>2 DEF Answers, Transactions
    <2>5. NetTypes'
      BY <1>2, <2>3, <2>4, AnswerTypes
    <2> QED
      BY <1>1, <1>2, <2>2, <2>3, <2>5 DEF Types, ServerTypes, Transactions
  <1>6. CASE ServeResolve(r)
    <2>1. r.ent \in Ents /\ r.res \in {"reconciled", "discarded"}
      BY <1>2, <1>6, RequestKinds DEF ServeResolve
    <2>2. NetTypes'
      <3>1. [kind |-> "cleanup"] \in Answers /\ [kind |-> "refused"] \in Answers
        BY DEF Answers
      <3>2. Answer(r, [kind |-> "cleanup"]) \/ Answer(r, [kind |-> "refused"])
        BY <1>6 DEF ServeResolve
      <3> QED
        BY <1>2, <3>1, <3>2, AnswerTypes
    <2>3. /\ att' \in {att, [att EXCEPT !.mode = "online", !.ent = 0, !.gen = @ + 1]}
          /\ ent' \in {ent, [ent EXCEPT ![r.ent].status = "resolved", ![r.ent].res = r.res,
                                        ![r.ent].cleanup = "clearing"]}
      BY <1>6 DEF ServeResolve
    <2>4. att' \in Attempts
      <3>1. att \in Attempts /\ att.gen + 1 \in Nat /\ 0 \in 0..MaxEnts
        BY <1>2, OfflineAssumption DEF ServerTypes, Attempts
      <3>2. [att EXCEPT !.mode = "online", !.ent = 0, !.gen = att.gen + 1] \in Attempts
        BY <3>1 DEF Attempts
      <3> QED
        BY <2>3, <3>1, <3>2
    <2>5. ent' \in [Ents -> Entitlements]
      <3>1. [ent[r.ent] EXCEPT !.status = "resolved", !.res = r.res, !.cleanup = "clearing"]
              \in Entitlements
        <4>1. ent[r.ent] \in Entitlements
          BY <1>2, <2>1 DEF ServerTypes
        <4> QED
          BY <2>1, <4>1 DEF Entitlements
      <3> QED
        BY <1>2, <2>1, <2>3, <3>1 DEF ServerTypes
    <2> QED
      BY <1>1, <1>2, <1>6, <2>2, <2>4, <2>5 DEF ServeResolve, Types, ServerTypes
  <1>7. CASE ServeCleanup(r)
    <2>1. r.ent \in Ents
      BY <1>2, <1>7, RequestKinds DEF ServeCleanup
    <2>2. NetTypes'
      <3>1. [kind |-> "cleared"] \in Answers /\ [kind |-> "refused"] \in Answers
        BY DEF Answers
      <3>2. Answer(r, [kind |-> "cleared"]) \/ Answer(r, [kind |-> "refused"])
        BY <1>7 DEF ServeCleanup
      <3> QED
        BY <1>2, <3>1, <3>2, AnswerTypes
    <2>3. /\ inst' \in {inst, [inst EXCEPT ![ent[r.ent].inst] = "revoked"]}
          /\ ent' \in {ent, [ent EXCEPT ![r.ent].cleanup = "cleared"]}
      BY <1>7 DEF ServeCleanup
    <2>4. inst' \in [Ents -> {"none", "active", "revoked"}]
      BY <1>2, <2>3 DEF ServerTypes
    <2>5. ent' \in [Ents -> Entitlements]
      <3>1. [ent[r.ent] EXCEPT !.cleanup = "cleared"] \in Entitlements
        <4>1. ent[r.ent] \in Entitlements
          BY <1>2, <2>1 DEF ServerTypes
        <4> QED
          BY <4>1 DEF Entitlements
      <3> QED
        BY <1>2, <2>1, <2>3, <3>1 DEF ServerTypes
    <2> QED
      BY <1>1, <1>2, <1>7, <2>2, <2>4, <2>5 DEF ServeCleanup, Types, ServerTypes
  <1> QED
    BY <1>3, <1>4, <1>5, <1>6, <1>7 DEF Serve

LEMMA TypesKept ==
    ASSUME Inv, [Next]_vars
    PROVE  Types'
  <1>1. Types /\ WaitInv /\ ReceivedInv /\ LengthInv
    BY DEF Inv
  <1>2. CASE UNCHANGED vars
    BY <1>1, <1>2 DEF vars, Types, ServerTypes, NetTypes, DeviceTypes, PageTypes
  <1> QED
    BY <1>1, <1>2, OnlineTypes, ServeTypes, RefreshTypes, InstallTypes, OpenTypes, SyncTypes,
       RemovalTypes, LostTypes DEF Next

-----------------------------------------------------------------------------
(***************************************************************************)
(* What the steps of the server do to the attempt and its entitlements.    *)
(***************************************************************************)
\* The online player: whoever plays holds the attempt.
Played ==
    /\ att'.mode = att.mode /\ att'.ent = att.ent /\ att'.gen = att.gen
    /\ att.done => att'.done
    /\ att.mode = "offline" => att' = att
    /\ token' \in {token, att.gen, NoToken} /\ sess' \subseteq sess \cup {att.gen}
    /\ ent' = ent /\ receipts' = receipts

HandsOver(e) ==
    /\ att.mode = "online" /\ ent[e].status = "none"
    /\ \A f \in 1..(e - 1) : ent[f].status # "none"
    /\ att'.mode = "offline" /\ att'.ent = e /\ att'.gen = att.gen + 1
    /\ att'.done = att.done /\ att'.time = att.time
    /\ \A f \in Ents \ {e} : ent'[f] = ent[f]
    /\ ent'[e].status = "active" /\ ent'[e].cleanup = "pending"
    /\ ent'[e].gen = att.gen + 1 /\ ent'[e].init = [done |-> att.done, time |-> att.time]
    /\ token' = token /\ sess' = {} /\ receipts' = receipts

GivesBack(e) ==
    /\ ent[e].status = "active" /\ att.ent = e
    /\ att'.mode = "online" /\ att'.ent = 0 /\ att'.gen = att.gen + 1
    /\ att'.done = att.done /\ att'.time = att.time
    /\ \A f \in Ents \ {e} : ent'[f] = ent[f]
    /\ ent'[e].status = "resolved" /\ ent'[e].cleanup = "clearing"
    /\ ent'[e].init = ent[e].init /\ ent'[e].gen = ent[e].gen
    /\ token' = token /\ sess' = sess /\ receipts' = receipts

\* The cleanup of an entitlement after its end.
Clearing(e) ==
    /\ ent[e].status = "resolved" /\ ent'[e].status = "resolved"
    /\ ent'[e].cleanup \in {"clearing", "cleared"}
    /\ ent[e].cleanup = "cleared" => ent'[e].cleanup = "cleared"
    /\ ent'[e].init = ent[e].init /\ ent'[e].gen = ent[e].gen
    /\ \A f \in Ents \ {e} : ent'[f] = ent[f]
    /\ att' = att /\ token' = token /\ sess' = sess /\ receipts' = receipts

\* A batch, which ends in state s.
TakesIn(r, s) ==
    /\ Ready(r) /\ Turn(r, s, r.count)
    /\ att' = s.a /\ ent' = [ent EXCEPT ![r.ent] = s.r]
    /\ receipts' = [receipts EXCEPT ![r.ent] = s.rs]
    /\ token' = token /\ sess' = sess

LEMMA OnlineEffect ==
    ASSUME Types, Online
    PROVE  Played
  <1>1. att \in Attempts
    BY DEF Types, ServerTypes
  <1>2. CASE CreateLaunch
    BY <1>2 DEF CreateLaunch, Played
  <1>3. CASE ExchangeToken
    <2>1. \/ att' = att
          \/ att.mode = "online" /\ att' = [att EXCEPT !.started = TRUE, !.rev = @ + 1]
      BY <1>3 DEF ExchangeToken
    <2>2. ASSUME att' = [att EXCEPT !.started = TRUE, !.rev = @ + 1]
          PROVE  /\ att'.mode = att.mode /\ att'.ent = att.ent /\ att'.gen = att.gen
                 /\ att'.done = att.done
      BY <1>1, <2>2 DEF Attempts
    <2>3. /\ att'.mode = att.mode /\ att'.ent = att.ent /\ att'.gen = att.gen
          /\ att'.done = att.done /\ (att.mode = "offline" => att' = att)
      BY <2>1, <2>2
    <2> QED
      BY <1>3, <2>3 DEF ExchangeToken, Played
  <1>4. ASSUME NEW g \in Gens, NEW s \in Snapshots, RecordProgress(g, s)
        PROVE  Played
    <2>1. PICK n : att' = [att EXCEPT !.started = TRUE, !.done = s.done, !.time = s.time,
                                      !.rev = n]
      BY <1>4 DEF RecordProgress
    <2>2. /\ att'.mode = att.mode /\ att'.ent = att.ent /\ att'.gen = att.gen
          /\ att'.done = s.done
      BY <1>1, <2>1 DEF Attempts
    <2>3. att.mode = "online" /\ (att.done => s.done)
      BY <1>4 DEF RecordProgress, Regresses
    <2>4. att.done => att'.done
      BY <2>2, <2>3
    <2> QED
      BY <1>4, <2>2, <2>3, <2>4 DEF RecordProgress, Played
  <1> QED
    BY <1>2, <1>3, <1>4 DEF Online

LEMMA IssueEffect ==
    ASSUME Inv, NEW r \in req, ServeIssue(r)
    PROVE  /\ r.inst \in Ents
           /\ \/ UNCHANGED <<att, token, sess, ent, receipts>> /\ Deny(r)
              \/ /\ UNCHANGED <<att, token, sess, ent, receipts>>
                 /\ att.ent \in Ents /\ ent[att.ent].status = "active"
                 /\ Answer(r, [kind |-> "issued", ent |-> att.ent])
              \/ \E e \in Ents : /\ HandsOver(e)
                                 /\ Answer(r, [kind |-> "issued", ent |-> e])
  <1>1. r.inst \in Ents
    BY RequestKinds DEF ServeIssue, Inv, Types, NetTypes
  <1>2. ServerTypes /\ HolderInv
    BY DEF Inv, Types
  <1>3. CASE /\ Recoverable(r.inst)
             /\ Answer(r, [kind |-> "issued", ent |-> att.ent])
             /\ UNCHANGED <<att, sess, ent, inst>>
    <2>1. att.ent \in Ents
      <3>1. att.mode # "online" /\ att.ent \in 0..MaxEnts
        BY <1>2, <1>3 DEF Recoverable, ServerTypes, Attempts
      <3> QED
        BY <1>2, <3>1 DEF HolderInv, Ents
    <2>2. ent[att.ent].status = "active"
      BY <1>2, <2>1 DEF HolderInv
    <2> QED
      BY <1>1, <1>3, <2>1, <2>2 DEF ServeIssue
  <1>4. ASSUME NEW e \in Ents, att.mode = "online",
               ent[e].status = "none" /\ \A f \in 1..(e - 1) : ent[f].status # "none",
               ent' = [ent EXCEPT ![e] =
                      [NoEnt EXCEPT !.status = "active", !.cleanup = "pending",
                          !.gen = att.gen + 1, !.inst = r.inst, !.base = att.rev,
                          !.cursor = att.rev,
                          !.init = [done |-> att.done, time |-> att.time]]],
               att' = Delegated(att, e),
               Answer(r, [kind |-> "issued", ent |-> e]),
               sess' = {}
        PROVE  HandsOver(e)
    <2>1. att \in Attempts /\ ent \in [Ents -> Entitlements]
      BY <1>2 DEF ServerTypes
    <2>2. att' = [att EXCEPT !.mode = "offline", !.ent = e, !.gen = att.gen + 1]
      BY <1>4 DEF Delegated
    <2>3. /\ att'.mode = "offline" /\ att'.ent = e /\ att'.gen = att.gen + 1
          /\ att'.done = att.done /\ att'.time = att.time
      BY <2>1, <2>2 DEF Attempts
    <2>4. PICK x : x = [NoEnt EXCEPT !.status = "active", !.cleanup = "pending",
                          !.gen = att.gen + 1, !.inst = r.inst, !.base = att.rev,
                          !.cursor = att.rev,
                          !.init = [done |-> att.done, time |-> att.time]]
      OBVIOUS
    <2>5. /\ x.status = "active" /\ x.cleanup = "pending" /\ x.gen = att.gen + 1
          /\ x.init = [done |-> att.done, time |-> att.time]
      BY <2>4 DEF NoEnt
    <2>6. ent'[e] = x /\ \A f \in Ents \ {e} : ent'[f] = ent[f]
      BY <1>4, <2>1, <2>4
    <2> QED
      BY <1>4, <2>3, <2>5, <2>6 DEF HandsOver, ServeIssue
  <1>5. CASE Deny(r) /\ UNCHANGED <<att, sess, ent>>
    BY <1>1, <1>5 DEF ServeIssue
  <1> QED
    BY <1>1, <1>3, <1>4, <1>5 DEF ServeIssue

LEMMA ResolveEffect ==
    ASSUME Inv, NEW r \in req, ServeResolve(r)
    PROVE  /\ r.ent \in Ents
           /\ \/ (GivesBack(r.ent) \/ Clearing(r.ent)) /\ Answer(r, [kind |-> "cleanup"])
              \/ /\ UNCHANGED <<att, token, sess, ent, receipts>>
                 /\ Answer(r, [kind |-> "refused"])
  <1>1. r.ent \in Ents /\ r.res \in {"reconciled", "discarded"}
    BY RequestKinds DEF ServeResolve, Inv, Types, NetTypes
  <1>2. PICK e \in Ents : e = r.ent
    BY <1>1
  <1>3. /\ att \in Attempts /\ ent \in [Ents -> Entitlements] /\ ent[e] \in Entitlements
        /\ HolderInv
    BY DEF Inv, Types, ServerTypes
  <1>4. UNCHANGED <<token, sess, receipts>>
    BY DEF ServeResolve
  <1>5. CASE /\ ent[e].cleanup # "cleared"
             /\ IF ent[e].status = "active" THEN att.ent = e /\ att.gen = ent[e].gen
                ELSE ent[e].res = r.res
             /\ att' = IF ent[e].status = "active"
                       THEN [att EXCEPT !.mode = "online", !.ent = 0, !.gen = @ + 1]
                       ELSE att
             /\ ent' = [ent EXCEPT ![e].status = "resolved", ![e].res = r.res,
                                   ![e].cleanup = "clearing"]
             /\ Answer(r, [kind |-> "cleanup"])
    <2>1. /\ ent'[e] = [ent[e] EXCEPT !.status = "resolved", !.res = r.res,
                                      !.cleanup = "clearing"]
          /\ \A f \in Ents \ {e} : ent'[f] = ent[f]
      BY <1>3, <1>5
    <2>2. /\ ent'[e].status = "resolved" /\ ent'[e].cleanup = "clearing"
          /\ ent'[e].init = ent[e].init /\ ent'[e].gen = ent[e].gen
      BY <1>3, <2>1 DEF Entitlements
    <2>3. CASE ent[e].status = "active"
      <3>1. att' = [att EXCEPT !.mode = "online", !.ent = 0, !.gen = att.gen + 1]
        BY <1>5, <2>3
      <3>2. /\ att'.mode = "online" /\ att'.ent = 0 /\ att'.gen = att.gen + 1
            /\ att'.done = att.done /\ att'.time = att.time
        BY <1>3, <3>1 DEF Attempts
      <3>3. GivesBack(e)
        BY <1>4, <1>5, <2>1, <2>2, <2>3, <3>2 DEF GivesBack
      <3> QED
        BY <1>1, <1>2, <1>5, <3>3
    <2>4. CASE ent[e].status # "active"
      <3>1. ent[e].status = "resolved"
        BY <1>1, <1>3, <1>5, <2>4 DEF HolderInv, Entitlements
      <3>2. Clearing(e)
        BY <1>4, <1>5, <2>1, <2>2, <2>4, <3>1 DEF Clearing
      <3> QED
        BY <1>1, <1>2, <1>5, <3>2
    <2> QED
      BY <2>3, <2>4
  <1>6. CASE Answer(r, [kind |-> "refused"]) /\ UNCHANGED <<att, ent>>
    BY <1>1, <1>4, <1>6
  <1> QED
    BY <1>2, <1>5, <1>6 DEF ServeResolve

LEMMA CleanupEffect ==
    ASSUME Inv, NEW r \in req, ServeCleanup(r)
    PROVE  /\ r.ent \in Ents
           /\ \/ /\ Clearing(r.ent) /\ ent'[r.ent].cleanup = "cleared"
                 /\ Answer(r, [kind |-> "cleared"])
              \/ /\ UNCHANGED <<att, token, sess, ent, receipts>>
                 /\ Answer(r, [kind |-> "refused"])
  <1>1. r.ent \in Ents
    BY RequestKinds DEF ServeCleanup, Inv, Types, NetTypes
  <1>2. PICK e \in Ents : e = r.ent
    BY <1>1
  <1>3. /\ ent \in [Ents -> Entitlements] /\ ent[e] \in Entitlements /\ HolderInv
    BY DEF Inv, Types, ServerTypes
  <1>4. UNCHANGED <<att, token, sess, receipts>>
    BY DEF ServeCleanup
  <1>5. CASE /\ ent[e].cleanup \in {"clearing", "cleared"}
             /\ ent' = [ent EXCEPT ![e].cleanup = "cleared"]
             /\ Answer(r, [kind |-> "cleared"])
    <2>1. ent[e].status = "resolved"
      BY <1>3, <1>5 DEF HolderInv, Entitlements
    <2>2. /\ ent'[e] = [ent[e] EXCEPT !.cleanup = "cleared"]
          /\ \A f \in Ents \ {e} : ent'[f] = ent[f]
      BY <1>3, <1>5
    <2>3. /\ ent'[e].status = "resolved" /\ ent'[e].cleanup = "cleared"
          /\ ent'[e].init = ent[e].init /\ ent'[e].gen = ent[e].gen
      BY <1>3, <2>1, <2>2 DEF Entitlements
    <2>4. Clearing(e)
      BY <1>4, <2>1, <2>2, <2>3 DEF Clearing
    <2> QED
      BY <1>1, <1>2, <1>5, <2>3, <2>4
  <1>6. CASE Answer(r, [kind |-> "refused"]) /\ UNCHANGED <<ent, inst>>
    BY <1>1, <1>4, <1>6
  <1> QED
    BY <1>2, <1>5, <1>6 DEF ServeCleanup

LEMMA SyncEffect ==
    ASSUME Inv, NEW r \in req, ServeSync(r)
    PROVE  \E s \in Transactions :
              /\ TakesIn(r, s)
              /\ Answer(r, [kind |-> "receipts", first |-> r.first, out |-> s.out,
                            gap |-> s.gap])
  <1>1. PICK s : s = Batch(r)
    OBVIOUS
  <1>2. Ready(r) /\ Turn(r, s, r.count) /\ s \in Transactions
    BY <1>1, ReadyBatch DEF ServeSync, Turn
  <1>3. /\ TakesIn(r, s)
        /\ Answer(r, [kind |-> "receipts", first |-> r.first, out |-> s.out,
                      gap |-> s.gap])
    BY <1>1, <1>2 DEF ServeSync, TakesIn
  <1> QED
    BY <1>2, <1>3

\* The steps of the server, and the steps of the device.
LEMMA ServerSteps ==
    ASSUME Inv, [Next]_vars
    PROVE  \/ Played
           \/ \E e \in Ents : HandsOver(e) \/ GivesBack(e) \/ Clearing(e)
           \/ \E r \in req : r.kind = "sync" /\ \E s \in Transactions : TakesIn(r, s)
  <1>1. Types
    BY DEF Inv
  <1>2. UNCHANGED <<att, token, sess, ent, receipts>> => Played
    BY DEF Played
  <1>3. CASE Online
    BY <1>1, <1>3, OnlineEffect
  <1>4. ASSUME NEW r \in req, Serve(r)
        PROVE  \/ Played
               \/ \E e \in Ents : HandsOver(e) \/ GivesBack(e) \/ Clearing(e)
               \/ r.kind = "sync" /\ \E s \in Transactions : TakesIn(r, s)
    <2>1. CASE ServeRegister(r)
      BY <1>2, <2>1 DEF ServeRegister
    <2>2. CASE ServeIssue(r)
      BY <1>2, <2>2, IssueEffect
    <2>3. CASE ServeSync(r)
      BY <2>3, SyncEffect DEF ServeSync
    <2>4. CASE ServeResolve(r)
      BY <1>2, <2>4, ResolveEffect
    <2>5. CASE ServeCleanup(r)
      BY <1>2, <2>5, CleanupEffect
    <2> QED
      BY <1>4, <2>1, <2>2, <2>3, <2>4, <2>5 DEF Serve
  <1>5. CASE Tick \/ Refresh \/ Install \/ Open \/ Sync \/ Removal \/ LoseAnswer \/ Crash
    <2>1. UNCHANGED server
      BY <1>5 DEF Tick, Refresh, Install, Open, Sync, Removal, LoseAnswer, Crash
    <2> QED
      BY <1>2, <2>1 DEF server
  <1>6. CASE UNCHANGED vars
    BY <1>2, <1>6 DEF vars
  <1> QED
    BY <1>3, <1>4, <1>5, <1>6 DEF Next

\* A batch leaves the entitlements as they are, apart from their cursors.
LEMMA BatchFrame ==
    ASSUME NEW r, NEW s \in Transactions, TakesIn(r, s)
    PROVE  /\ r.ent \in Ents
           /\ att'.mode = att.mode /\ att'.ent = att.ent /\ att'.gen = att.gen
           /\ att.done => att'.done
           /\ \A e \in Ents :
                 /\ ent'[e].status = ent[e].status /\ ent'[e].cleanup = ent[e].cleanup
                 /\ ent'[e].gen = ent[e].gen /\ ent'[e].init = ent[e].init
                 /\ ent'[e].res = ent[e].res
           /\ \A e \in Ents \ {r.ent} : receipts'[e] = receipts[e]
           /\ receipts'[r.ent] = s.rs
  <1>1. r.ent \in Ents /\ ent \in [Ents -> Entitlements] /\ receipts \in [Ents -> Seq(Receipts)]
    BY DEF TakesIn, Ready, ServerTypes
  <1>2. PICK c : c = s.r.cursor
    OBVIOUS
  <1>3. s.r = [ent[r.ent] EXCEPT !.cursor = c]
    BY <1>2 DEF TakesIn, Turn
  <1>4. /\ s.r.status = ent[r.ent].status /\ s.r.cleanup = ent[r.ent].cleanup
        /\ s.r.gen = ent[r.ent].gen /\ s.r.init = ent[r.ent].init
        /\ s.r.res = ent[r.ent].res
    <2>1. ent[r.ent] \in Entitlements
      BY <1>1
    <2> QED
      BY <1>3, <2>1 DEF Entitlements
  <1>5. /\ ent'[r.ent] = s.r /\ receipts'[r.ent] = s.rs
        /\ \A e \in Ents \ {r.ent} : ent'[e] = ent[e] /\ receipts'[e] = receipts[e]
    BY <1>1 DEF TakesIn
  <1>6. /\ att'.mode = att.mode /\ att'.ent = att.ent /\ att'.gen = att.gen
        /\ att.done => att'.done
    BY DEF TakesIn, Turn
  <1> QED
    BY <1>1, <1>4, <1>5, <1>6

\* The steps on the stores of the device that hold the attempt.
StoreStep == \/ ReserveSpoolEntry \/ FinaliseJournalEntry \/ AcceptReceipt
             \/ ConfirmDiscard \/ PutEntitlement \/ ClearAttempt

LEMMA StoreSteps ==
    ASSUME [Next]_vars
    PROVE  \/ loc' = loc /\ commits' = commits /\ journal' = journal
           \/ /\ StoreStep
              /\ att' = att /\ ent' = ent /\ receipts' = receipts
              /\ token' = token /\ sess' = sess
  <1>1. CASE Online \/ Tick \/ Refresh \/ (\E r \in req : Serve(r)) \/ LoseAnswer \/ Crash
    BY <1>1 DEF Online, CreateLaunch, ExchangeToken, RecordProgress, Tick, Refresh, Serve,
       LoseAnswer, Crash, device
  <1>2. CASE Install
    BY <1>2 DEF Install, BeginInstall, PrepareInstallation, TakeActivation,
       AbandonActivation, PutPackage, PackageInstalled, DownloadComplete, StoreStep, server
  <1>3. CASE Open
    BY <1>3 DEF Open, BeginExisting, LoadContext, AcknowledgeSpoolEntry, RefuseSpoolEntry,
       InitializePlayer, ClosePlayer, Checkpoint, StoreStep, server, device
  <1>4. CASE Sync
    BY <1>4 DEF Sync, SendBatch, SyncBlocked, DeclineDiscard, SyncComplete, StoreStep,
       server, device
  <1>5. CASE Removal
    BY <1>5 DEF Removal, AskResolution, BeginCleanup, WipeSite, DeleteIndexRecord,
       RefusedByServer, StoreStep, server, device
  <1>6. CASE UNCHANGED vars
    BY <1>6 DEF vars
  <1> QED
    BY <1>1, <1>2, <1>3, <1>4, <1>5, <1>6 DEF Next

\* What is recorded, received, handed over or cleared stays so.
Grows(s, t) == /\ Len(s) <= Len(t)
               /\ \A k \in 1..Len(s) : t[k] = s[k]

LEMMA Growth ==
    ASSUME Inv, [Next]_vars, NEW e \in Ents
    PROVE  /\ Grows(receipts[e], receipts'[e])
           /\ Grows(commits[e], commits'[e])
           /\ ent[e].status # "none" =>
                 ent'[e].status # "none" /\ ent'[e].init = ent[e].init
           /\ ent[e].cleanup = "cleared" => ent'[e].cleanup = "cleared"
  <1>1. /\ receipts[e] \in Seq(Receipts) /\ commits[e] \in Seq(Entries)
        /\ ent \in [Ents -> Entitlements] /\ Len(receipts[e]) \in Nat
        /\ Len(commits[e]) \in Nat /\ HolderInv /\ commits \in [Ents -> Seq(Entries)]
    BY DEF Inv, Types, ServerTypes, DeviceTypes
  <1>2. Grows(receipts[e], receipts[e]) /\ Grows(commits[e], commits[e])
    BY <1>1 DEF Grows
  <1>3. /\ Grows(receipts[e], receipts'[e])
        /\ ent[e].status # "none" => ent'[e].status # "none" /\ ent'[e].init = ent[e].init
        /\ ent[e].cleanup = "cleared" => ent'[e].cleanup = "cleared"
    <2>1. CASE Played
      BY <1>2, <2>1 DEF Played
    <2>2. ASSUME NEW f \in Ents, HandsOver(f)
          PROVE  <1>3!1 /\ <1>3!2 /\ <1>3!3
      <3>1. ent[f].status = "none" /\ receipts' = receipts
        BY <2>2 DEF HandsOver
      <3>2. ent[e].status # "none" \/ ent[e].cleanup = "cleared" => e # f
        BY <1>1, <3>1 DEF HolderInv
      <3>3. e # f => ent'[e] = ent[e]
        BY <2>2 DEF HandsOver
      <3> QED
        BY <1>2, <3>1, <3>2, <3>3
    <2>3. ASSUME NEW f \in Ents, GivesBack(f)
          PROVE  <1>3!1 /\ <1>3!2 /\ <1>3!3
      <3>1. ent[f].status = "active" /\ receipts' = receipts
        BY <2>3 DEF GivesBack
      <3>2. ent[f].cleanup = "pending"
        BY <1>1, <3>1 DEF HolderInv
      <3>3. e # f => ent'[e] = ent[e]
        BY <2>3 DEF GivesBack
      <3>4. ent'[f].status # "none" /\ ent'[f].init = ent[f].init
        BY <2>3 DEF GivesBack
      <3> QED
        BY <1>2, <3>1, <3>2, <3>3, <3>4
    <2>4. ASSUME NEW f \in Ents, Clearing(f)
          PROVE  <1>3!1 /\ <1>3!2 /\ <1>3!3
      BY <1>1, <1>2, <2>4 DEF Clearing
    <2>5. ASSUME NEW r \in req, NEW s \in Transactions, TakesIn(r, s)
          PROVE  <1>3!1 /\ <1>3!2 /\ <1>3!3
      <3>1. CASE e # r.ent
        BY <1>2, <2>5, <3>1, BatchFrame
      <3>2. CASE e = r.ent
        <4>1. Len(s.rs) >= Len(receipts[e]) /\ \A k \in 1..Len(receipts[e]) : s.rs[k] = receipts[e][k]
          BY <1>1, <2>5, <3>2 DEF TakesIn, Turn
        <4>2. Len(s.rs) \in Nat
          BY DEF Transactions
        <4> QED
          BY <1>1, <2>5, <3>2, <4>1, <4>2, BatchFrame DEF Grows
      <3> QED
        BY <3>1, <3>2
    <2> QED
      BY <2>1, <2>2, <2>3, <2>4, <2>5, ServerSteps
  <1>4. Grows(commits[e], commits'[e])
    <2>1. CASE commits' = commits
      BY <1>2, <2>1
    <2>2. CASE ReserveSpoolEntry
      <3>1. PICK x : commits' = [commits EXCEPT ![loc.ent] = Append(@, x)]
        BY <2>2 DEF ReserveSpoolEntry
      <3>2. CASE e = loc.ent
        BY <1>1, <3>1, <3>2 DEF Grows
      <3>3. CASE e # loc.ent
        BY <1>1, <1>2, <3>1, <3>3
      <3> QED
        BY <3>2, <3>3
    <2> QED
      BY <2>1, <2>2, StoreSteps DEF StoreStep, FinaliseJournalEntry, AcceptReceipt,
         ConfirmDiscard, PutEntitlement, ClearAttempt
  <1> QED
    BY <1>3, <1>4

-----------------------------------------------------------------------------
(***************************************************************************)
(* What the steps of the device do to its attempt and journal.             *)
(***************************************************************************)
Reserves(x) ==
    /\ loc.ent \in Ents /\ ~Has("discarded") /\ ~Has("signing")
    /\ x.time = loc.snap.time + x.delta /\ (loc.snap.done => x.done)
    /\ loc' = loc /\ commits' = [commits EXCEPT ![loc.ent] = Append(@, x)]
    /\ journal' = Append(journal, [status |-> "signing", outcome |-> "none"])

Signs(k) ==
    /\ loc.ent \in Ents /\ journal[k].status = "signing"
    /\ loc' = [loc EXCEPT !.snap = [done |-> commits[loc.ent][k].done,
                                    time |-> commits[loc.ent][k].time]]
    /\ commits' = commits /\ journal' = [journal EXCEPT ![k].status = "pending"]

Acknowledges(k, x) ==
    /\ loc.ent \in Ents /\ journal[k].status = "pending"
    /\ \A j \in 1..(k - 1) : journal[j] = Acknowledged("accepted")
    /\ k <= Len(receipts[loc.ent]) /\ x = receipts[loc.ent][k].outcome
    /\ loc' = loc /\ commits' = commits
    /\ journal' = [journal EXCEPT ![k] = Acknowledged(x)]

Discards ==
    /\ loc' = loc /\ commits' = commits
    /\ journal' = [k \in DOMAIN journal |->
          IF \E t \in Terminal : t <= k THEN [journal[k] EXCEPT !.status = "discarded"]
          ELSE journal[k]]

TakesUp(e) ==
    /\ loc.ent = 0 /\ ent[e].status # "none" /\ commits[e] = << >>
    /\ loc' = [ent |-> e, snap |-> ent[e].init]
    /\ commits' = commits /\ journal' = journal

GivesUp(e) ==
    /\ loc.ent = e /\ ent[e].cleanup = "cleared"
    /\ loc'.ent = 0 /\ commits' = commits /\ journal' = << >>

\* Nothing is on its way to a page that does not wait.
LEMMA Quiet ==
    ASSUME Inv, op.step # "wait" \/ ans.kind # "none"
    PROVE  /\ \A r \in req : ~r.live
           /\ op.step # "wait" => ans.kind = "none"
  BY DEF Inv, WaitInv

LEMMA ReserveEffect ==
    ASSUME Inv, ReserveSpoolEntry
    PROVE  \E x \in Entries : Reserves(x)
  <1>1. PICK x \in Entries : x = Head(spool.entries)
    <2>1. spool.entries \in Seq(Entries) /\ spool.entries # << >>
      BY DEF ReserveSpoolEntry, Draining, Inv, Types, DeviceTypes
    <2> QED
      BY <2>1
  <1>2. Importable(x) /\ commits' = [commits EXCEPT ![loc.ent] = Append(@, x)]
        /\ journal' = Append(journal, [status |-> "signing", outcome |-> "none"])
        /\ loc' = loc
    BY <1>1 DEF ReserveSpoolEntry
  <1>3. loc.ent \in Ents
    BY DEF ReserveSpoolEntry, Draining, Inv, Types, DeviceTypes, PageTypes, Ents
  <1>4. /\ ~Has("discarded") /\ ~Has("signing")
        /\ x.time = loc.snap.time + x.delta /\ (loc.snap.done => x.done)
    BY <1>2, Zenon DEF Importable
  <1> QED
    BY <1>2, <1>3, <1>4 DEF Reserves

LEMMA FinaliseEffect ==
    ASSUME Inv, FinaliseJournalEntry
    PROVE  \E k \in 1..Len(journal) : Signs(k)
  <1>1. PICK k \in RecordOf(Head(spool.entries)) :
           /\ journal[k].status = "signing"
           /\ journal' = [journal EXCEPT ![k].status = "pending"]
           /\ loc' = [loc EXCEPT !.snap = SnapshotAfter(commits[loc.ent][k])]
    BY DEF FinaliseJournalEntry
  <1>2. loc.ent \in Ents /\ k \in 1..Len(journal)
    BY <1>1 DEF FinaliseJournalEntry, Draining, RecordOf, Inv, Types, DeviceTypes,
       PageTypes, Ents
  <1> QED
    BY <1>1, <1>2 DEF FinaliseJournalEntry, SnapshotAfter, Signs

LEMMA AcceptEffect ==
    ASSUME Inv, AcceptReceipt
    PROVE  \/ loc' = loc /\ commits' = commits /\ journal' = journal
           \/ /\ ans.out # << >> /\ Acknowledges(ans.first, Head(ans.out))
              /\ ans.first \in 1..Len(journal) /\ Head(ans.out) \in Outcomes
  <1>1. CASE ans.out = << >>
    BY <1>1 DEF AcceptReceipt
  <1>2. CASE ans.out # << >>
    <2>1. PICK f, o : f = ans.first /\ o = ans.out
      OBVIOUS
    <2>2. f \in Nat \ {0} /\ o \in Seq(Outcomes) /\ o # << >>
      BY <1>2, <2>1, AnswerKinds DEF AcceptReceipt, Inv, Types, NetTypes
    <2>3. Len(o) \in Nat \ {0} /\ Head(o) = o[1] /\ Head(o) \in Outcomes
      BY <2>2
    <2>4. /\ loc.ent # 0 /\ f + Len(o) <= Len(journal) + 1
          /\ \A k \in f..(f + Len(o) - 1) : journal[k].status = "pending"
          /\ Len(o) > 0 => \A k \in 1..(f - 1) : journal[k] = Acknowledged("accepted")
          /\ f + Len(o) <= Len(receipts[loc.ent]) + 1
          /\ \A i \in 1..Len(o) : o[i] = receipts[loc.ent][f + i - 1].outcome
      BY <2>1 DEF AcceptReceipt, Inv, ReceivedInv, Awaited
    <2>5. loc.ent \in Ents /\ Len(journal) \in Nat /\ Len(receipts[loc.ent]) \in Nat
      BY <2>4 DEF Inv, Types, DeviceTypes, ServerTypes, Ents
    <2>6. /\ f \in 1..Len(journal) /\ f <= Len(receipts[loc.ent])
          /\ f \in f..(f + Len(o) - 1) /\ f + 1 - 1 = f /\ 1 \in 1..Len(o) /\ Len(o) > 0
      BY <2>2, <2>3, <2>4, <2>5
    <2>7. Head(o) = receipts[loc.ent][f].outcome /\ journal[f].status = "pending"
      BY <2>3, <2>4, <2>6
    <2>8. /\ journal' = [journal EXCEPT ![f] = Acknowledged(Head(o))]
          /\ loc' = loc /\ commits' = commits
      BY <1>2, <2>1 DEF AcceptReceipt
    <2> QED
      BY <1>2, <2>1, <2>3, <2>4, <2>5, <2>6, <2>7, <2>8 DEF Acknowledges
  <1> QED
    BY <1>1, <1>2

LEMMA PutEffect ==
    ASSUME Inv, PutEntitlement
    PROVE  /\ op.ent \in Ents /\ commits' = commits /\ journal' = journal
           /\ loc' = loc \/ TakesUp(op.ent)
  <1>1. op.ent \in Ents /\ Fresh(op.ent)
    BY DEF PutEntitlement, Inv, Types, PageTypes, ClearedInv, Operations, Installing, Ents
  <1>2. op.ent # 0
    BY <1>1 DEF Ents
  <1> QED
    BY <1>1, <1>2 DEF PutEntitlement, Fresh, TakesUp

LEMMA ClearEffect ==
    ASSUME Inv, ClearAttempt
    PROVE  /\ op.ent \in Ents
           /\ \/ loc' = loc /\ commits' = commits /\ journal' = journal
              \/ GivesUp(op.ent)
  <1>1. op.ent \in Ents
    BY DEF ClearAttempt, CleanupConfirmed, Inv, WaitInv, ServerAnswers, Types, PageTypes,
       Operations, Steps, Ents
  <1>2. ent[op.ent].cleanup = "cleared"
    BY DEF ClearAttempt, CleanupConfirmed, Inv, ClearedInv
  <1>3. commits' = commits
    BY DEF ClearAttempt
  <1> QED
    BY <1>1, <1>2, <1>3, Clears DEF GivesUp

LEMMA DeviceSteps ==
    ASSUME Inv, [Next]_vars
    PROVE  \/ loc' = loc /\ commits' = commits /\ journal' = journal
           \/ /\ att' = att /\ ent' = ent /\ receipts' = receipts
              /\ token' = token /\ sess' = sess
              /\ \/ \E x \in Entries : Reserves(x)
                 \/ \E k \in 1..Len(journal) : Signs(k)
                 \/ \E k \in 1..Len(journal), x \in Outcomes : Acknowledges(k, x)
                 \/ Discards
                 \/ \E e \in Ents : TakesUp(e) \/ GivesUp(e)
  <1>1. CASE loc' = loc /\ commits' = commits /\ journal' = journal
    BY <1>1
  <1>2. CASE /\ StoreStep
             /\ att' = att /\ ent' = ent /\ receipts' = receipts
             /\ token' = token /\ sess' = sess
    <2>1. CASE ConfirmDiscard
      BY <1>2, <2>1 DEF ConfirmDiscard, Discards
    <2>2. CASE AcceptReceipt
      BY <1>2, <2>2, AcceptEffect
    <2>3. CASE PutEntitlement
      BY <1>2, <2>3, PutEffect
    <2>4. CASE ClearAttempt
      BY <1>2, <2>4, ClearEffect
    <2> QED
      BY <1>2, <2>1, <2>2, <2>3, <2>4, ReserveEffect, FinaliseEffect DEF StoreStep
  <1> QED
    BY <1>1, <1>2, StoreSteps

-----------------------------------------------------------------------------
(***************************************************************************)
(* The parts of the invariant about the attempt and its entitlements.      *)
(***************************************************************************)
LEMMA HolderKept ==
    ASSUME Inv, [Next]_vars
    PROVE  HolderInv'
  <1>1. HolderInv /\ Types /\ Types' /\ att.ent \in 0..MaxEnts /\ 0 \notin Ents
    BY TypesKept DEF Inv, Types, ServerTypes, Attempts, Ents
  <1>2. /\ att'.mode = "online" <=> att'.ent = 0
        /\ \A e \in Ents :
              /\ ent'[e].status = "active" <=> att'.ent = e
              /\ ent'[e].status = "active" => ent'[e].gen = att'.gen
              /\ ent'[e].status = "none" <=> ent'[e].cleanup = "none"
              /\ ent'[e].status = "none" => ent'[e].res = "none"
              /\ ent'[e].status = "active" <=> ent'[e].cleanup = "pending"
    <2>1. CASE Played
      BY <1>1, <2>1 DEF Played, HolderInv
    <2>2. ASSUME NEW f \in Ents, HandsOver(f)
          PROVE  <1>2
      <3>1. att.ent = 0 /\ att'.ent = f /\ f # 0
        BY <1>1, <2>2 DEF HandsOver, HolderInv
      <3>2. \A e \in Ents \ {f} : ent[e].status # "active"
        BY <1>1, <3>1 DEF HolderInv
      <3> QED
        BY <1>1, <2>2, <3>1, <3>2 DEF HandsOver, HolderInv
    <2>3. ASSUME NEW f \in Ents, GivesBack(f)
          PROVE  <1>2
      <3>1. \A e \in Ents \ {f} : ent[e].status # "active"
        BY <1>1, <2>3 DEF HolderInv, GivesBack
      <3> QED
        BY <1>1, <2>3, <3>1 DEF GivesBack, HolderInv
    <2>4. ASSUME NEW f \in Ents, Clearing(f)
          PROVE  <1>2
      BY <1>1, <2>4 DEF Clearing, HolderInv
    <2>5. ASSUME NEW r \in req, NEW s \in Transactions, TakesIn(r, s)
          PROVE  <1>2
      BY <1>1, <2>5, BatchFrame DEF HolderInv
    <2> QED
      BY <2>1, <2>2, <2>3, <2>4, <2>5, ServerSteps
  <1>3. ASSUME NEW e \in Ents, ent'[e].status = "none"
        PROVE  receipts'[e] = << >> /\ commits'[e] = << >> /\ loc'.ent # e
    <2>1. ent[e].status = "none"
      BY <1>3, Growth
    <2>2. receipts[e] = << >> /\ commits[e] = << >> /\ loc.ent # e
      BY <1>1, <2>1 DEF HolderInv
    <2>3. receipts'[e] = << >>
      <3>1. ASSUME NEW r \in req, NEW s \in Transactions, TakesIn(r, s)
            PROVE  receipts'[e] = << >>
        <4>1. CASE r.ent # e
          BY <2>2, <3>1, <4>1, BatchFrame
        <4>2. CASE r.ent = e
          <5>1. s.rs \in Seq(Receipts) /\ Len(s.rs) \in Len(receipts[e])..Len(commits[e])
            BY <3>1, <4>2 DEF TakesIn, Turn, Transactions
          <5>2. Len(s.rs) = 0
            BY <2>2, <5>1
          <5>3. s.rs = << >>
            BY <5>1, <5>2
          <5> QED
            BY <3>1, <4>2, <5>3, BatchFrame
        <4> QED
          BY <4>1, <4>2
      <3> QED
        BY <2>2, <3>1, ServerSteps DEF Played, HandsOver, GivesBack, Clearing
    <2>4. commits'[e] = << >> /\ loc'.ent # e
      <3>1. ASSUME NEW x \in Entries, Reserves(x)
            PROVE  <2>4
        BY <2>2, <3>1 DEF Reserves, Inv, Types, DeviceTypes
      <3>2. ASSUME NEW k \in 1..Len(journal), Signs(k)
            PROVE  <2>4
        BY <2>2, <3>2 DEF Signs, Inv, Types, DeviceTypes
      <3>3. ASSUME NEW f \in Ents, TakesUp(f) \/ GivesUp(f)
            PROVE  <2>4
        BY <1>1, <2>1, <2>2, <3>3 DEF TakesUp, GivesUp
      <3> QED
        BY <2>2, <3>1, <3>2, <3>3, DeviceSteps DEF Acknowledges, Discards
    <2> QED
      BY <2>3, <2>4
  <1> QED
    BY <1>2, <1>3 DEF HolderInv

LEMMA EpochKept ==
    ASSUME Inv, [Next]_vars
    PROVE  EpochInv'
  <1>1. /\ HolderInv /\ EpochInv /\ att.gen \in Nat /\ token \in Nat /\ sess \subseteq Nat
        /\ att.ent \in 0..MaxEnts /\ \A e \in Ents : ent[e].gen \in Nat
    BY DEF Inv, Types, ServerTypes, Attempts, Entitlements
  <1>2. CASE Played
    <2>1. /\ token' # NoToken => token' <= att.gen
          /\ \A g \in sess' : g <= att.gen
      BY <1>1, <1>2 DEF Played, EpochInv
    <2> QED
      BY <1>1, <1>2, <2>1 DEF Played, EpochInv
  <1>3. ASSUME NEW e \in Ents, HandsOver(e)
        PROVE  EpochInv'
    <2>1. PICK m \in 0..MaxEnts : att.gen = 2 * m
      BY <1>1, <1>3 DEF HandsOver, HolderInv, EpochInv
    <2>2. /\ \A f \in Ents : ent[f].status = "none" <=> m < f
          /\ m \in Nat /\ Ents \subseteq Nat /\ e \in Nat /\ e \in 1..MaxEnts
      <3>1. /\ \A f \in Ents : ent[f].status = "none" <=> 2 * m < 2 * f - 1
            /\ m \in Nat /\ Ents \subseteq Nat /\ e \in Nat /\ e \in 1..MaxEnts
        BY <1>1, <2>1, OfflineAssumption DEF EpochInv, Ents
      <3>2. \A a, b \in Nat : 2 * a < 2 * b - 1 <=> a < b
        OBVIOUS
      <3> QED
        BY <3>1, <3>2
    <2>3. e = m + 1
      <3>1. m < e
        BY <1>3, <2>2 DEF HandsOver
      <3>2. CASE m + 1 < e
        <4>1. m + 1 \in 1..(e - 1) /\ m + 1 \in Ents /\ m < m + 1
          BY <2>2, <3>2, OfflineAssumption DEF Ents
        <4> QED
          BY <1>3, <2>2, <4>1 DEF HandsOver
      <3> QED
        BY <2>2, <3>1, <3>2
    <2>4. /\ att'.gen = 2 * m + 1 /\ att'.gen = 2 * e - 1 /\ att'.ent = e /\ e # 0
      BY <1>3, <2>1, <2>2, <2>3 DEF HandsOver
    <2>5. ASSUME NEW f \in Ents
          PROVE  ent'[f].status = "none" <=> att'.gen < 2 * f - 1
      <3>1. ent'[f].status = "none" <=> e < f
        <4>1. CASE f = e
          BY <1>3, <2>2, <4>1 DEF HandsOver
        <4>2. CASE f # e
          <5>1. ent'[f] = ent[f] /\ (ent[f].status = "none" <=> m < f)
            BY <1>3, <2>2, <4>2 DEF HandsOver
          <5>2. f \in Nat /\ (m < f <=> e < f)
            BY <2>2, <2>3, <4>2
          <5> QED
            BY <5>1, <5>2
        <4> QED
          BY <4>1, <4>2
      <3>2. f \in Nat /\ (e < f <=> att'.gen < 2 * f - 1)
        <4>1. \A a, b \in Nat : a < b <=> 2 * a - 1 < 2 * b - 1
          OBVIOUS
        <4>2. f \in Nat /\ e \in Nat /\ att'.gen = 2 * e - 1
          BY <2>2, <2>4
        <4>3. PICK g : g = att'.gen
          OBVIOUS
        <4>4. f \in Nat /\ (e < f <=> g < 2 * f - 1)
          BY <4>1, <4>2, <4>3
        <4> QED
          BY <4>3, <4>4
      <3> QED
        BY <3>1, <3>2
    <2>6. token' # NoToken => token' <= att'.gen
      BY <1>1, <1>3, <2>1, <2>2, <2>4 DEF HandsOver, EpochInv
    <2>7. sess' = {}
      BY <1>3 DEF HandsOver
    <2>8. ASSUME NEW f \in Ents
          PROVE  ent'[f].gen <= att'.gen
      <3>1. ent[f].gen <= 2 * m /\ ent[f].gen \in Nat
        BY <1>1, <2>1 DEF EpochInv
      <3>2. ent'[f].gen \in {ent[f].gen, 2 * m + 1}
        BY <1>3, <2>1 DEF HandsOver
      <3> QED
        BY <2>2, <2>4, <3>1, <3>2
    <2> QED
      BY <2>4, <2>5, <2>6, <2>7, <2>8 DEF EpochInv
  <1>4. ASSUME NEW e \in Ents, GivesBack(e)
        PROVE  EpochInv'
    <2>1. e \in Nat /\ e \in 1..MaxEnts /\ Ents \subseteq Nat /\ e \in 0..MaxEnts /\ e # 0
      BY OfflineAssumption DEF Ents
    <2>2. /\ att.ent = e /\ att.gen = 2 * e - 1
          /\ att'.ent = 0 /\ att'.gen = 2 * e
      BY <1>1, <1>4, <2>1 DEF GivesBack, EpochInv
    <2>3. ASSUME NEW f \in Ents
          PROVE  ent'[f].status = "none" <=> att'.gen < 2 * f - 1
      <3>1. ent[f].status = "none" <=> 2 * e - 1 < 2 * f - 1
        BY <1>1, <2>2 DEF EpochInv
      <3>2. ent'[f].status = "none" <=> ent[f].status = "none"
        BY <1>4 DEF GivesBack
      <3>3. 2 * e - 1 < 2 * f - 1 <=> 2 * e < 2 * f - 1
        BY <2>1
      <3> QED
        BY <2>2, <3>1, <3>2, <3>3
    <2>4. /\ token' # NoToken => token' <= att'.gen
          /\ \A g \in sess' : g <= att'.gen
      <3>1. \A g \in Nat : g <= 2 * e - 1 => g <= 2 * e
        BY <2>1
      <3>2. token' = token /\ sess' = sess
        BY <1>4 DEF GivesBack
      <3> QED
        BY <1>1, <2>2, <3>1, <3>2 DEF EpochInv
    <2>5. ASSUME NEW f \in Ents
          PROVE  ent'[f].gen <= att'.gen
      <3>1. ent[f].gen <= 2 * e - 1 /\ ent[f].gen \in Nat
        BY <1>1, <2>2 DEF EpochInv
      <3>2. ent'[f].gen = ent[f].gen
        BY <1>4 DEF GivesBack
      <3> QED
        BY <2>1, <2>2, <3>1, <3>2
    <2> QED
      BY <2>1, <2>2, <2>3, <2>4, <2>5 DEF EpochInv
  <1>5. ASSUME NEW e \in Ents, Clearing(e)
        PROVE  EpochInv'
    <2>1. \A f \in Ents : /\ ent'[f].status = "none" <=> ent[f].status = "none"
                          /\ ent'[f].gen = ent[f].gen
      BY <1>5 DEF Clearing
    <2> QED
      BY <1>1, <1>5, <2>1 DEF Clearing, EpochInv
  <1>6. ASSUME NEW r \in req, NEW s \in Transactions, TakesIn(r, s)
        PROVE  EpochInv'
    <2>1. /\ \A f \in Ents : ent'[f].status = ent[f].status /\ ent'[f].gen = ent[f].gen
          /\ att'.ent = att.ent /\ att'.gen = att.gen /\ token' = token /\ sess' = sess
      BY <1>6, BatchFrame DEF TakesIn
    <2> QED
      BY <1>1, <2>1 DEF EpochInv
  <1> QED
    BY <1>2, <1>3, <1>4, <1>5, <1>6, ServerSteps

LEMMA ProgressKept ==
    ASSUME Inv, [Next]_vars, NEW e \in Ents, ent[e].status # "none",
           NEW k \in 0..Len(commits[e])
    PROVE  /\ ProgressAt(e, k)' = ProgressAt(e, k)
           /\ k # 0 => commits'[e][k] = commits[e][k]
  <1>1. Len(commits[e]) \in Nat /\ Grows(commits[e], commits'[e]) /\ ent'[e].init = ent[e].init
    BY Growth DEF Inv, Types, DeviceTypes
  <1>2. CASE k = 0
    BY <1>1, <1>2 DEF ProgressAt
  <1>3. CASE k # 0
    <2>1. k \in 1..Len(commits[e])
      BY <1>1, <1>3
    <2>2. commits'[e][k] = commits[e][k]
      BY <1>1, <2>1 DEF Grows
    <2> QED
      BY <1>3, <2>2 DEF ProgressAt
  <1> QED
    BY <1>2, <1>3

LEMMA AcceptedKept ==
    ASSUME Inv, [Next]_vars
    PROVE  AcceptedInv'
  <1>1. /\ AcceptedInv /\ HolderInv /\ Types /\ Types' /\ HolderInv'
        /\ 0 \notin Ents /\ att.ent \in 0..MaxEnts /\ att'.ent \in 0..MaxEnts
    BY TypesKept, HolderKept DEF Inv, Types, ServerTypes, Attempts, Ents
  <1>2. \A e \in Ents : /\ Len(receipts[e]) \in Nat /\ Len(commits[e]) \in Nat
                        /\ Len(commits'[e]) \in Nat /\ Len(receipts'[e]) \in Nat
    <2>1. /\ receipts \in [Ents -> Seq(Receipts)] /\ receipts' \in [Ents -> Seq(Receipts)]
          /\ commits \in [Ents -> Seq(Entries)] /\ commits' \in [Ents -> Seq(Entries)]
      BY <1>1 DEF Types, ServerTypes, DeviceTypes
    <2> QED
      BY <2>1
  <1>3. ASSUME NEW e \in Ents
        PROVE  InOrder(receipts'[e]) /\ Len(receipts'[e]) <= Len(commits'[e])
    <2>1. Len(commits[e]) <= Len(commits'[e])
      BY Growth DEF Grows
    <2>2. InOrder(receipts'[e]) /\ Len(receipts'[e]) <= Len(commits[e])
      <3>1. CASE receipts'[e] = receipts[e]
        BY <1>1, <3>1 DEF AcceptedInv
      <3>2. ASSUME NEW r \in req, NEW s \in Transactions, TakesIn(r, s)
            PROVE  <2>2
        <4>1. CASE r.ent # e
          BY <3>1, <3>2, <4>1, BatchFrame
        <4>2. CASE r.ent = e
          <5>1. receipts'[e] = s.rs
            BY <3>2, <4>2, BatchFrame
          <5>2. InOrder(s.rs) /\ Len(s.rs) \in Len(receipts[e])..Len(commits[e])
            BY <3>2, <4>2 DEF TakesIn, Turn
          <5> QED
            BY <1>2, <5>1, <5>2
        <4> QED
          BY <4>1, <4>2
      <3> QED
        BY <3>1, <3>2, ServerSteps DEF Played, HandsOver, GivesBack, Clearing
    <2> QED
      BY <1>2, <2>1, <2>2
  <1>4. ASSUME NEW e \in Ents, ent[e].status # "none", NEW rs, InOrder(rs),
               Len(rs) <= Len(commits[e]), Len(rs) \in Nat
        PROVE  ProgressAt(e, TakenIn(rs))' = ProgressAt(e, TakenIn(rs))
    <2>1. PICK n : n = TakenIn(rs)
      OBVIOUS
    <2>2. n \in 0..Len(commits[e])
      BY <1>2, <1>4, <2>1 DEF InOrder
    <2> QED
      BY <1>4, <2>1, <2>2, ProgressKept
  <1>5. ASSUME NEW e \in Ents, att'.ent = e, NEW n, n = TakenIn(receipts'[e])
        PROVE  [done |-> att'.done, time |-> att'.time] = ProgressAt(e, n)'
    <2>1. ASSUME att.ent = e, receipts'[e] = receipts[e],
                 att'.done = att.done /\ att'.time = att.time
          PROVE  [done |-> att'.done, time |-> att'.time] = ProgressAt(e, n)'
      <3>1. ent[e].status # "none" /\ InOrder(receipts[e])
            /\ Len(receipts[e]) <= Len(commits[e])
        BY <1>1, <2>1 DEF HolderInv, AcceptedInv
      <3>2. ProgressAt(e, n)' = ProgressAt(e, n)
        BY <1>2, <1>4, <1>5, <2>1, <3>1
      <3>3. [done |-> att.done, time |-> att.time] = ProgressAt(e, n)
        BY <1>1, <1>5, <2>1 DEF AcceptedInv
      <3> QED
        BY <2>1, <3>2, <3>3
    <2>2. CASE Played
      <3>1. att.ent = e /\ receipts'[e] = receipts[e] /\ att.mode # "online"
        BY <1>1, <1>5, <2>2 DEF Played, HolderInv
      <3>2. att.mode = "offline"
        BY <1>1, <3>1 DEF Types, ServerTypes, Attempts
      <3> QED
        BY <2>1, <2>2, <3>1, <3>2 DEF Played
    <2>3. ASSUME NEW f \in Ents, HandsOver(f)
          PROVE  [done |-> att'.done, time |-> att'.time] = ProgressAt(e, n)'
      <3>1. f = e /\ ent[e].status = "none" /\ receipts'[e] = << >>
        BY <1>1, <1>5, <2>3 DEF HandsOver, HolderInv
      <3>2. n = 0
        BY <1>5, <3>1, NoneTaken
      <3> QED
        BY <2>3, <3>1, <3>2 DEF HandsOver, ProgressAt
    <2>4. ASSUME NEW f \in Ents, GivesBack(f)
          PROVE  [done |-> att'.done, time |-> att'.time] = ProgressAt(e, n)'
      BY <1>1, <1>5, <2>4 DEF GivesBack
    <2>5. ASSUME NEW f \in Ents, Clearing(f)
          PROVE  [done |-> att'.done, time |-> att'.time] = ProgressAt(e, n)'
      BY <1>5, <2>1, <2>5 DEF Clearing
    <2>6. ASSUME NEW r \in req, NEW s \in Transactions, TakesIn(r, s)
          PROVE  [done |-> att'.done, time |-> att'.time] = ProgressAt(e, n)'
      <3>1. att.ent = e
        BY <1>5, <2>6, BatchFrame
      <3>2. CASE r.ent # e
        <4>1. receipts'[e] = receipts[e]
          BY <2>6, <3>2, BatchFrame
        <4>2. att' = att
          BY <2>6, <3>1, <3>2 DEF TakesIn, Turn
        <4> QED
          BY <2>1, <3>1, <4>1, <4>2
      <3>3. CASE r.ent = e
        <4>1. /\ receipts'[e] = s.rs /\ InOrder(s.rs) /\ Len(s.rs) <= Len(commits[e])
              /\ Len(s.rs) \in Nat
          <5>1. InOrder(s.rs) /\ Len(s.rs) \in Len(receipts[e])..Len(commits[e])
            BY <2>6, <3>3 DEF TakesIn, Turn
          <5>2. receipts'[e] = s.rs /\ s.rs \in Seq(Receipts)
            BY <2>6, <3>3, BatchFrame DEF Transactions
          <5> QED
            BY <1>2, <5>1, <5>2
        <4>2. [done |-> att'.done, time |-> att'.time] = ProgressAt(e, n)
          BY <1>5, <2>6, <3>1, <3>3, <4>1 DEF TakesIn, Turn
        <4>3. ent[e].status # "none"
          BY <1>1, <3>1 DEF HolderInv
        <4>4. ProgressAt(e, n)' = ProgressAt(e, n)
          BY <1>4, <1>5, <4>1, <4>3
        <4> QED
          BY <4>2, <4>4
      <3> QED
        BY <3>2, <3>3
    <2> QED
      BY <2>2, <2>3, <2>4, <2>5, <2>6, ServerSteps
  <1>6. att'.ent # 0 => [done |-> att'.done, time |-> att'.time]
                          = ProgressAt(att.ent, TakenIn(receipts[att.ent]))'
    <2>1. ASSUME att'.ent # 0
          PROVE  [done |-> att'.done, time |-> att'.time]
                   = ProgressAt(att.ent, TakenIn(receipts[att.ent]))'
      <3>1. PICK e \in Ents : e = att'.ent
        BY <1>1, <2>1 DEF Ents
      <3>2. PICK n : n = TakenIn(receipts'[e])
        OBVIOUS
      <3>3. [done |-> att'.done, time |-> att'.time] = ProgressAt(e, n)'
        BY <1>5, <3>1, <3>2
      <3> QED
        BY <3>1, <3>2, <3>3 DEF ProgressAt
    <2> QED
      BY <2>1
  <1> QED
    BY <1>3, <1>6 DEF AcceptedInv

-----------------------------------------------------------------------------
(***************************************************************************)
(* The parts of the invariant about the journal.                           *)
(***************************************************************************)
LEMMA LengthKept ==
    ASSUME Inv, [Next]_vars
    PROVE  LengthInv'
  <1>1. /\ LengthInv /\ journal \in Seq(Records) /\ commits \in [Ents -> Seq(Entries)]
        /\ 0 \notin Ents /\ Len(journal) \in Nat
        /\ loc \in [ent : 0..MaxEnts, snap : Snapshots]
    BY DEF Inv, Types, DeviceTypes, Ents
  <1>2. CASE loc' = loc /\ commits' = commits /\ journal' = journal
    BY <1>1, <1>2 DEF LengthInv
  <1>3. ASSUME NEW x \in Entries, Reserves(x)
        PROVE  LengthInv'
    <2>1. /\ loc' = loc /\ commits'[loc.ent] = Append(commits[loc.ent], x)
          /\ loc.ent \in Ents /\ loc.ent # 0 /\ commits[loc.ent] \in Seq(Entries)
      BY <1>1, <1>3 DEF Reserves
    <2>2. /\ Len(journal') = Len(journal) + 1
          /\ Len(commits'[loc.ent]) = Len(commits[loc.ent]) + 1
      BY <1>1, <1>3, <2>1 DEF Reserves
    <2> QED
      BY <1>1, <2>1, <2>2 DEF LengthInv
  <1>4. ASSUME NEW k \in 1..Len(journal), Signs(k)
        PROVE  LengthInv'
    <2>1. /\ loc'.ent = loc.ent /\ loc.ent # 0 /\ commits' = commits
          /\ Len(journal') = Len(journal)
      BY <1>1, <1>4 DEF Signs
    <2> QED
      BY <1>1, <2>1 DEF LengthInv
  <1>5. ASSUME NEW k \in 1..Len(journal), NEW x \in Outcomes, Acknowledges(k, x)
        PROVE  LengthInv'
    <2>1. /\ loc' = loc /\ loc.ent # 0 /\ commits' = commits
          /\ Len(journal') = Len(journal)
      BY <1>1, <1>5 DEF Acknowledges
    <2> QED
      BY <1>1, <2>1 DEF LengthInv
  <1>6. CASE Discards
    <2>1. loc' = loc /\ commits' = commits
      BY <1>6 DEF Discards
    <2>2. Len(journal') = Len(journal) /\ (journal = << >> => journal' = << >>)
      <3>1. DOMAIN journal' = 1..Len(journal) /\ journal' \in Seq(Records)
        BY <1>1, <1>6, TypesKept DEF Discards, Types, DeviceTypes
      <3> QED
        BY <1>1, <3>1
    <2> QED
      BY <1>1, <2>1, <2>2 DEF LengthInv
  <1>7. ASSUME NEW e \in Ents, TakesUp(e)
        PROVE  LengthInv'
    <2>1. loc'.ent = e /\ e # 0 /\ commits'[e] = << >> /\ journal' = << >>
      BY <1>1, <1>7 DEF TakesUp, LengthInv
    <2> QED
      BY <2>1 DEF LengthInv
  <1>8. ASSUME NEW e \in Ents, GivesUp(e)
        PROVE  LengthInv'
    BY <1>8 DEF GivesUp, LengthInv
  <1> QED
    BY <1>2, <1>3, <1>4, <1>5, <1>6, <1>7, <1>8, DeviceSteps

\* The record that is replaced, and the others.
LEMMA ReplacedAt ==
    ASSUME NEW S, NEW s \in Seq(S), NEW i \in 1..Len(s), NEW x
    PROVE  /\ Len([s EXCEPT ![i] = x]) = Len(s) /\ [s EXCEPT ![i] = x][i] = x
           /\ \A k \in 1..Len(s) : k # i => [s EXCEPT ![i] = x][k] = s[k]
           /\ DOMAIN [s EXCEPT ![i] = x] = 1..Len(s)
  OBVIOUS

\* What comes later does not concern a record.
LEMMA ConsistentBefore ==
    ASSUME NEW jn, NEW k \in Nat, Consistent(jn, k), NEW jm,
           \A j \in 1..k : jm[j] = jn[j], k > 0,
           jn[k].status = "signing" => k = Len(jm)
    PROVE  Consistent(jm, k)
  <1>1. k \in 1..k /\ (\A j \in 1..(k - 1) : j \in 1..k)
    OBVIOUS
  <1>2. jm[k] = jn[k] /\ \A j \in 1..(k - 1) : jm[j] = jn[j]
    BY <1>1
  <1>3. jm[k].outcome # "none" => \A j \in 1..(k - 1) : jm[j] = Acknowledged("accepted")
    BY <1>2 DEF Consistent
  <1>4. jm[k].status = "discarded" =>
           \E t \in 1..k : jm[t].outcome \in {"rejected", "conflict"}
    BY <1>2 DEF Consistent
  <1> QED
    BY <1>2, <1>3, <1>4 DEF Consistent

LEMMA JournalKept ==
    ASSUME Inv, [Next]_vars
    PROVE  JournalInv'
  <1>1. /\ JournalInv /\ journal \in Seq(Records) /\ Len(journal) \in Nat
        /\ \A k \in 1..Len(journal) : journal[k] \in Records
    BY DEF Inv, Types, DeviceTypes
  <1>2. CASE journal' = journal
    BY <1>1, <1>2 DEF JournalInv
  <1>3. ASSUME NEW x \in Entries, Reserves(x)
        PROVE  JournalInv'
    <2>1. /\ Len(journal') = Len(journal) + 1
          /\ \A k \in 1..Len(journal) : journal'[k] = journal[k]
          /\ journal'[Len(journal) + 1] = [status |-> "signing", outcome |-> "none"]
      BY <1>1, <1>3 DEF Reserves
    <2>2. \A k \in 1..Len(journal) : journal[k].status # "signing"
      BY <1>1, <1>3 DEF Reserves, Has
    <2>3. ASSUME NEW k \in 1..(Len(journal) + 1)
          PROVE  Consistent(journal', k)
      <3>1. CASE k = Len(journal) + 1
        BY <2>1, <3>1 DEF Consistent
      <3>2. CASE k # Len(journal) + 1
        <4>1. k \in 1..Len(journal) /\ k \in Nat /\ k > 0
          BY <1>1, <3>2
        <4>2. \A j \in 1..k : journal'[j] = journal[j]
          BY <1>1, <2>1, <4>1
        <4>3. Consistent(journal, k) /\ journal[k].status # "signing"
          BY <1>1, <2>2, <4>1 DEF JournalInv
        <4> QED
          BY <4>1, <4>2, <4>3, ConsistentBefore
      <3> QED
        BY <3>1, <3>2
    <2> QED
      BY <2>1, <2>3 DEF JournalInv
  <1>4. ASSUME NEW i \in 1..Len(journal), Signs(i)
        PROVE  JournalInv'
    <2>1. journal[i].status = "signing" /\ i = Len(journal) /\ journal[i].outcome = "none"
      BY <1>1, <1>4 DEF Signs, JournalInv, Consistent
    <2>2. PICK x : x = [journal[i] EXCEPT !.status = "pending"]
      OBVIOUS
    <2>3. x.status = "pending" /\ x.outcome = "none"
      <3>1. journal[i] \in Records
        BY <1>1
      <3> QED
        BY <2>1, <2>2, <3>1 DEF Records
    <2>4. journal' = [journal EXCEPT ![i] = x]
      BY <1>4, <2>2 DEF Signs
    <2>5. /\ Len(journal') = Len(journal) /\ journal'[i] = x
          /\ \A k \in 1..Len(journal) : k # i => journal'[k] = journal[k]
      BY <1>1, <2>4, ReplacedAt
    <2>6. ASSUME NEW k \in 1..Len(journal)
          PROVE  Consistent(journal', k)
      <3>1. CASE k = i
        BY <2>1, <2>3, <2>5, <3>1 DEF Consistent
      <3>2. CASE k # i
        <4>1. k \in Nat /\ k > 0 /\ \A j \in 1..k : journal'[j] = journal[j]
          BY <1>1, <2>1, <2>5, <3>2
        <4>2. Consistent(journal, k) /\ (journal[k].status = "signing" => k = Len(journal))
          BY <1>1 DEF JournalInv, Consistent
        <4> QED
          BY <2>5, <4>1, <4>2, ConsistentBefore
      <3> QED
        BY <3>1, <3>2
    <2> QED
      BY <2>5, <2>6 DEF JournalInv
  <1>5. ASSUME NEW i \in 1..Len(journal), NEW o \in Outcomes, Acknowledges(i, o)
        PROVE  JournalInv'
    <2>1. /\ journal[i].status = "pending" /\ journal[i].outcome = "none"
          /\ \A j \in 1..(i - 1) : journal[j] = Acknowledged("accepted")
      BY <1>1, <1>5 DEF Acknowledges, JournalInv, Consistent
    <2>2. PICK x : x = Acknowledged(o)
      OBVIOUS
    <2>7. x.status = "acknowledged" /\ x.outcome # "none"
      BY <2>2 DEF Acknowledged, Outcomes
    <2>3. journal' = [journal EXCEPT ![i] = x]
      BY <1>5, <2>2 DEF Acknowledges
    <2>4. /\ Len(journal') = Len(journal) /\ journal'[i] = x
          /\ \A k \in 1..Len(journal) : k # i => journal'[k] = journal[k]
      BY <1>1, <2>3, ReplacedAt
    <2>5. \A k \in 1..Len(journal) : k > i => journal[k].outcome = "none"
      <3>1. journal[i] # Acknowledged("accepted")
        BY <2>1 DEF Acknowledged
      <3>2. \A k \in 1..Len(journal) : k > i => i \in 1..(k - 1)
        BY <1>1
      <3> QED
        BY <1>1, <3>1, <3>2 DEF JournalInv, Consistent
    <2>6. ASSUME NEW k \in 1..Len(journal)
          PROVE  Consistent(journal', k)
      <3>1. CASE k = i
        <4>1. \A j \in 1..(k - 1) : journal'[j] = journal[j]
          BY <1>1, <2>4, <3>1
        <4> QED
          BY <1>1, <2>1, <2>4, <2>7, <3>1, <4>1 DEF Consistent
      <3>2. CASE k < i
        <4>1. k \in Nat /\ k > 0 /\ \A j \in 1..k : journal'[j] = journal[j]
          BY <1>1, <2>4, <3>2
        <4>2. Consistent(journal, k) /\ (journal[k].status = "signing" => k = Len(journal))
          BY <1>1 DEF JournalInv, Consistent
        <4> QED
          BY <2>4, <4>1, <4>2, ConsistentBefore
      <3>3. CASE k > i
        <4>1. journal'[k] = journal[k] /\ journal[k].outcome = "none"
          BY <1>1, <2>4, <2>5, <3>3
        <4>2. journal[k].status = "discarded" =>
                 \E t \in 1..k : journal'[t].outcome \in {"rejected", "conflict"}
          <5>1. ASSUME NEW t \in 1..k, journal[t].outcome \in {"rejected", "conflict"}
                PROVE  journal'[t].outcome \in {"rejected", "conflict"}
            <6>1. t # i /\ t \in 1..Len(journal)
              BY <1>1, <2>1, <5>1
            <6> QED
              BY <2>4, <5>1, <6>1
          <5> QED
            BY <1>1, <5>1 DEF JournalInv, Consistent
        <4>3. Consistent(journal, k)
          BY <1>1 DEF JournalInv
        <4> QED
          BY <2>4, <4>1, <4>2, <4>3 DEF Consistent
      <3> QED
        BY <1>1, <3>1, <3>2, <3>3
    <2> QED
      BY <2>4, <2>6 DEF JournalInv
  <1>6. CASE Discards
    <2>1. DOMAIN journal = 1..Len(journal)
      BY <1>1
    <2>2. Len(journal') = Len(journal)
      <3>1. DOMAIN journal' = 1..Len(journal) /\ journal' \in Seq(Records)
        BY <1>1, <1>6, TypesKept DEF Discards, Types, DeviceTypes
      <3> QED
        BY <1>1, <3>1
    <2>3. ASSUME NEW k \in 1..Len(journal)
          PROVE  /\ journal'[k].outcome = journal[k].outcome
                 /\ journal'[k] = journal[k]
                    \/ /\ journal'[k].status = "discarded"
                       /\ \E t \in Terminal : t <= k
      <3>1. journal'[k] = IF \E t \in Terminal : t <= k
                          THEN [journal[k] EXCEPT !.status = "discarded"] ELSE journal[k]
        BY <1>6, <2>1 DEF Discards
      <3>2. /\ [journal[k] EXCEPT !.status = "discarded"].outcome = journal[k].outcome
            /\ [journal[k] EXCEPT !.status = "discarded"].status = "discarded"
        <4>1. journal[k] \in Records
          BY <1>1
        <4> QED
          BY <4>1 DEF Records
      <3> QED
        BY <3>1, <3>2
    <2>4. \A t \in Terminal : t \in 1..Len(journal)
                              /\ journal[t].outcome \in {"rejected", "conflict"}
      BY <2>1 DEF Terminal
    <2>5. ASSUME NEW k \in 1..Len(journal)
          PROVE  Consistent(journal', k)
      <3>1. \A t \in 1..k : journal'[t].outcome = journal[t].outcome
        BY <1>1, <2>3
      <3>2. journal'[k].status = "discarded" =>
               \E t \in 1..k : journal'[t].outcome \in {"rejected", "conflict"}
        <4>1. CASE journal'[k] = journal[k]
          BY <1>1, <3>1, <4>1 DEF JournalInv, Consistent
        <4>2. CASE \E t \in Terminal : t <= k
          <5>1. PICK t \in Terminal : t <= k
            BY <4>2
          <5>2. t \in 1..k /\ journal[t].outcome \in {"rejected", "conflict"}
            BY <2>4, <5>1
          <5> QED
            BY <3>1, <5>2
        <4> QED
          BY <2>3, <4>1, <4>2
      <3>3. ASSUME journal'[k].outcome # "none", NEW j \in 1..(k - 1)
            PROVE  journal'[j] = Acknowledged("accepted")
        <4>1. j \in 1..Len(journal) /\ j < k /\ journal[k].outcome # "none"
          BY <1>1, <2>3, <3>3
        <4>2. \A t \in 1..j : journal[t] = Acknowledged("accepted")
          BY <1>1, <4>1 DEF JournalInv, Consistent
        <4>3. \A t \in Terminal : ~(t <= j)
          BY <2>4, <4>1, <4>2 DEF Acknowledged
        <4> QED
          BY <2>3, <4>1, <4>2, <4>3
      <3>4. /\ journal'[k].status = "signing" => k = Len(journal)
            /\ journal'[k].status \in {"signing", "pending"} => journal'[k].outcome = "none"
            /\ journal'[k].status = "acknowledged" => journal'[k].outcome # "none"
        BY <1>1, <2>3 DEF JournalInv, Consistent
      <3> QED
        BY <2>2, <3>2, <3>3, <3>4 DEF Consistent
    <2> QED
      BY <2>2, <2>5 DEF JournalInv
  <1>7. ASSUME NEW e \in Ents, GivesUp(e)
        PROVE  JournalInv'
    BY <1>7 DEF GivesUp, JournalInv
  <1> QED
    BY <1>2, <1>3, <1>4, <1>5, <1>6, <1>7, DeviceSteps DEF TakesUp

LEMMA ChainKept ==
    ASSUME Inv, [Next]_vars
    PROVE  ChainInv'
  <1>1. /\ ChainInv /\ HolderInv /\ LengthInv /\ JournalInv
        /\ journal \in Seq(Records) /\ Len(journal) \in Nat /\ DOMAIN journal = 1..Len(journal)
        /\ loc \in [ent : 0..MaxEnts, snap : Snapshots]
        /\ commits \in [Ents -> Seq(Entries)] /\ 0 \notin Ents
        /\ \A e \in Ents : Len(commits[e]) \in Nat
    <2>1. /\ ChainInv /\ HolderInv /\ LengthInv /\ JournalInv
          /\ journal \in Seq(Records)
          /\ loc \in [ent : 0..MaxEnts, snap : Snapshots]
          /\ commits \in [Ents -> Seq(Entries)] /\ 0 \notin Ents
      BY DEF Inv, Types, DeviceTypes, Ents
    <2> QED
      BY <2>1
  <1>2. ASSUME NEW e \in Ents, NEW k \in 1..Len(commits[e])
        PROVE  Follows(e, k)'
    <2>1. ent[e].status # "none"
      <3>1. Len(commits[e]) # 0
        BY <1>1
      <3> QED
        BY <1>1, <3>1 DEF HolderInv
    <2>2. /\ k \in 0..Len(commits[e]) /\ k # 0 /\ k - 1 \in 0..Len(commits[e])
      BY <1>1
    <2>3. PICK j : j = k - 1
      OBVIOUS
    <2>4. /\ commits'[e][k] = commits[e][k]
          /\ ProgressAt(e, j)' = ProgressAt(e, j)
      BY <2>1, <2>2, <2>3, ProgressKept
    <2>5. Follows(e, k)
      BY <1>1 DEF ChainInv
    <2>6. ProgressAt(e, k - 1)' = ProgressAt(e, k - 1)
      BY <2>3, <2>4
    <2> QED
      BY <2>4, <2>5, <2>6 DEF Follows
  <1>3. ASSUME NEW e \in Ents
        PROVE  ProgressAt(e, Len(commits[e]))' = ProgressAt(e, Len(commits[e]))
               \/ commits' # commits \/ ent[e].status = "none"
    <2>1. Len(commits[e]) \in 0..Len(commits[e])
      BY <1>1
    <2>2. PICK n : n = Len(commits[e])
      OBVIOUS
    <2>3. ent[e].status # "none" => ProgressAt(e, n)' = ProgressAt(e, n)
      BY <2>1, <2>2, ProgressKept
    <2>4. commits' = commits =>
            ProgressAt(e, Len(commits[e]))' = ProgressAt(e, n)'
      BY <2>2 DEF ProgressAt
    <2> QED
      BY <2>2, <2>3, <2>4
  <1>4. CASE loc' = loc /\ commits' = commits /\ journal' = journal
    <2>1. \A e \in Ents : \A k \in 1..Len(commits'[e]) : Follows(e, k)'
      BY <1>2, <1>4
    <2>2. loc.ent # 0 => loc.ent \in Ents /\ ent[loc.ent].status # "none"
      BY <1>1 DEF HolderInv, Ents
    <2>3. /\ Has("discarded")' = Has("discarded") /\ Has("signing")' = Has("signing")
      BY <1>4 DEF Has
    <2>4. ASSUME loc'.ent # 0, ~Has("discarded")', ~Has("signing")'
          PROVE  loc'.snap = ProgressAt(loc.ent, Len(commits[loc.ent]))'
      <3>1. PICK e \in Ents : e = loc.ent /\ ent[e].status # "none"
        BY <1>4, <2>2, <2>4
      <3>2. loc.snap = ProgressAt(e, Len(commits[e]))
        BY <1>1, <1>4, <2>3, <2>4, <3>1 DEF ChainInv
      <3>3. ProgressAt(e, Len(commits[e]))' = ProgressAt(e, Len(commits[e]))
        BY <1>3, <1>4, <3>1
      <3>4. ProgressAt(loc.ent, Len(commits[loc.ent]))' = ProgressAt(e, Len(commits[e]))'
        BY <1>4, <3>1 DEF ProgressAt
      <3> QED
        BY <1>4, <3>2, <3>3, <3>4
    <2> QED
      BY <2>1, <2>4 DEF ChainInv
  <1>5. ASSUME NEW x \in Entries, Reserves(x)
        PROVE  ChainInv'
    <2>1. PICK d \in Ents : d = loc.ent
      BY <1>5 DEF Reserves
    <2>2. /\ commits' = [commits EXCEPT ![d] = Append(commits[d], x)] /\ loc' = loc
          /\ commits[d] \in Seq(Entries) /\ Len(commits[d]) \in Nat
      BY <1>1, <1>5, <2>1 DEF Reserves
    <2>3. /\ Len(commits'[d]) = Len(commits[d]) + 1
          /\ commits'[d][Len(commits[d]) + 1] = x
          /\ \A e \in Ents \ {d} : commits'[e] = commits[e]
      BY <1>1, <2>2
    <2>4. PICK n : n = Len(commits[d])
      OBVIOUS
    <2>5. ent[d].status # "none" /\ d # 0
      BY <1>1, <2>1 DEF HolderInv
    <2>6. ProgressAt(d, n)' = ProgressAt(d, n)
      BY <2>2, <2>4, <2>5, ProgressKept
    <2>7. loc.snap = ProgressAt(d, n)
      BY <1>1, <1>5, <2>1, <2>4, <2>5 DEF ChainInv, Reserves
    <2>8. x.time = loc.snap.time + x.delta /\ (loc.snap.done => x.done)
      BY <1>5 DEF Reserves
    <2>9. Follows(d, n + 1)'
      <3>1. (n + 1) - 1 = n /\ commits'[d][n + 1] = x
        BY <2>2, <2>3, <2>4
      <3>2. ProgressAt(d, (n + 1) - 1)' = loc.snap
        BY <2>6, <2>7, <3>1
      <3> QED
        BY <2>8, <3>1, <3>2 DEF Follows
    <2>10. ASSUME NEW e \in Ents, NEW k \in 1..Len(commits'[e])
           PROVE  Follows(e, k)'
      <3>1. CASE e = d
        <4>1. k \in 1..Len(commits[d]) \/ k = n + 1
          BY <2>2, <2>3, <2>4, <3>1
        <4> QED
          BY <1>2, <2>9, <3>1, <4>1
      <3>2. CASE e # d
        BY <1>2, <2>3, <3>2
      <3> QED
        BY <3>1, <3>2
    <2>11. Has("signing")'
      <3>1. /\ Len(journal) + 1 \in DOMAIN journal'
            /\ journal'[Len(journal) + 1] = [status |-> "signing", outcome |-> "none"]
        BY <1>1, <1>5 DEF Reserves
      <3> QED
        BY <3>1 DEF Has
    <2> QED
      BY <2>10, <2>11 DEF ChainInv
  <1>6. ASSUME NEW i \in 1..Len(journal), Signs(i)
        PROVE  ChainInv'
    <2>1. PICK d \in Ents : d = loc.ent
      BY <1>6 DEF Signs
    <2>2. i = Len(journal) /\ i = Len(commits[d]) /\ i # 0
      BY <1>1, <1>6, <2>1 DEF Signs, JournalInv, Consistent, LengthInv
    <2>3. /\ commits' = commits /\ loc'.ent = d
          /\ loc'.snap = [done |-> commits[d][i].done, time |-> commits[d][i].time]
      BY <1>1, <1>6, <2>1 DEF Signs
    <2>4. loc'.snap = ProgressAt(loc.ent, Len(commits[loc.ent]))'
      BY <2>1, <2>2, <2>3 DEF ProgressAt
    <2> QED
      BY <1>2, <2>3, <2>4 DEF ChainInv
  <1>7. ASSUME NEW i \in 1..Len(journal), NEW o \in Outcomes, Acknowledges(i, o)
        PROVE  ChainInv'
    <2>1. PICK d \in Ents : d = loc.ent
      BY <1>7 DEF Acknowledges
    <2>2. commits' = commits /\ loc' = loc
      BY <1>7 DEF Acknowledges
    <2>3. /\ DOMAIN journal' = DOMAIN journal
          /\ \A k \in DOMAIN journal : k # i => journal'[k] = journal[k]
      BY <1>1, <1>7 DEF Acknowledges
    <2>4. (Has("discarded") => Has("discarded")') /\ (Has("signing") => Has("signing")')
      <3>1. journal[i].status = "pending"
        BY <1>7 DEF Acknowledges
      <3> QED
        BY <2>3, <3>1 DEF Has
    <2>5. ent[d].status # "none" /\ d # 0
      BY <1>1, <2>1 DEF HolderInv
    <2>6. ProgressAt(d, Len(commits[d]))' = ProgressAt(d, Len(commits[d]))
      BY <1>3, <2>2, <2>5
    <2>7. ProgressAt(loc.ent, Len(commits[loc.ent]))' = ProgressAt(d, Len(commits[d]))'
      BY <2>1, <2>2 DEF ProgressAt
    <2>8. ~Has("discarded") /\ ~Has("signing") => loc.snap = ProgressAt(d, Len(commits[d]))
      BY <1>1, <2>1, <2>5 DEF ChainInv
    <2> QED
      BY <1>2, <2>2, <2>4, <2>6, <2>7, <2>8 DEF ChainInv
  <1>8. CASE Discards
    <2>1. commits' = commits /\ loc' = loc
      BY <1>8 DEF Discards
    <2>2. CASE Terminal = {}
      <3>1. journal' = journal
        <4>1. journal' = [k \in DOMAIN journal |-> journal[k]]
          BY <1>8, <2>2 DEF Discards
        <4> QED
          BY <1>1, <4>1
      <3> QED
        BY <1>4, <2>1, <3>1
    <2>3. CASE Terminal # {}
      <3>1. PICK t \in Terminal : t \in DOMAIN journal /\ journal[t] \in Records
        BY <1>1, <2>3 DEF Terminal
      <3>2. t <= t
        BY <1>1, <3>1
      <3>3. journal'[t] = [journal[t] EXCEPT !.status = "discarded"] /\ t \in DOMAIN journal'
        BY <1>8, <3>1, <3>2 DEF Discards
      <3>4. journal'[t].status = "discarded"
        BY <3>1, <3>3 DEF Records
      <3>5. Has("discarded")'
        BY <3>3, <3>4 DEF Has
      <3> QED
        BY <1>2, <2>1, <3>5 DEF ChainInv
    <2> QED
      BY <2>2, <2>3
  <1>9. ASSUME NEW e \in Ents, TakesUp(e), ent' = ent
        PROVE  ChainInv'
    <2>1. /\ commits' = commits /\ loc'.ent = e /\ loc'.snap = ent[e].init
          /\ commits[e] = << >>
      BY <1>9 DEF TakesUp
    <2>2. Len(commits'[e]) = 0
      BY <2>1
    <2>3. loc'.snap = ProgressAt(loc.ent, Len(commits[loc.ent]))'
      BY <1>9, <2>1, <2>2 DEF ProgressAt
    <2> QED
      BY <1>2, <2>1, <2>3 DEF ChainInv
  <1>10. ASSUME NEW e \in Ents, GivesUp(e)
         PROVE  ChainInv'
    BY <1>2, <1>10 DEF GivesUp, ChainInv
  <1> QED
    BY <1>4, <1>5, <1>6, <1>7, <1>8, <1>9, <1>10, DeviceSteps

LEMMA AgreementKept ==
    ASSUME Inv, [Next]_vars
    PROVE  ReceiptsAgree'
  <1>1. /\ ReceiptsAgree /\ LengthInv /\ JournalInv /\ 0 \notin Ents
        /\ journal \in Seq(Records) /\ Len(journal) \in Nat /\ DOMAIN journal = 1..Len(journal)
        /\ loc \in [ent : 0..MaxEnts, snap : Snapshots]
    <2>1. /\ ReceiptsAgree /\ LengthInv /\ JournalInv /\ journal \in Seq(Records)
          /\ loc \in [ent : 0..MaxEnts, snap : Snapshots] /\ 0 \notin Ents
      BY DEF Inv, Types, DeviceTypes, Ents
    <2> QED
      BY <2>1
  <1>2. \A e \in Ents : /\ DOMAIN receipts[e] = 1..Len(receipts[e])
                        /\ Len(receipts[e]) \in Nat
    BY DEF Inv, Types, ServerTypes
  <1>3. journal # << >> => loc.ent \in Ents
    BY <1>1 DEF LengthInv, Ents
  <1>4. CASE loc' = loc /\ commits' = commits /\ journal' = journal
    <2>1. ASSUME NEW k \in DOMAIN journal, journal[k].outcome # "none"
          PROVE  /\ k \in DOMAIN receipts'[loc.ent]
                 /\ journal[k].outcome = receipts'[loc.ent][k].outcome
      <3>1. PICK e \in Ents : e = loc.ent
        BY <1>1, <1>3
      <3>2. k \in 1..Len(receipts[e]) /\ journal[k].outcome = receipts[e][k].outcome
        BY <1>1, <1>2, <2>1, <3>1 DEF ReceiptsAgree
      <3>3. Grows(receipts[e], receipts'[e])
        BY Growth
      <3>4. DOMAIN receipts'[e] = 1..Len(receipts'[e]) /\ Len(receipts'[e]) \in Nat
        BY TypesKept DEF Types, ServerTypes
      <3> QED
        BY <1>2, <3>1, <3>2, <3>3, <3>4 DEF Grows
    <2> QED
      BY <1>4, <2>1 DEF ReceiptsAgree
  <1>5. ASSUME receipts' = receipts, loc'.ent = loc.ent,
               \A k \in DOMAIN journal' : journal'[k].outcome # "none" =>
                  /\ k \in DOMAIN receipts[loc.ent]
                  /\ journal'[k].outcome = receipts[loc.ent][k].outcome
        PROVE  ReceiptsAgree'
    BY <1>5 DEF ReceiptsAgree
  <1>6. ASSUME NEW x \in Entries, Reserves(x), receipts' = receipts
        PROVE  ReceiptsAgree'
    <2>1. /\ DOMAIN journal' = 1..(Len(journal) + 1) /\ loc' = loc
          /\ \A k \in 1..Len(journal) : journal'[k] = journal[k]
          /\ journal'[Len(journal) + 1].outcome = "none"
      BY <1>1, <1>6 DEF Reserves
    <2>2. \A k \in 1..(Len(journal) + 1) : journal'[k].outcome # "none" => k \in 1..Len(journal)
      BY <1>1, <2>1
    <2> QED
      BY <1>1, <1>5, <1>6, <2>1, <2>2 DEF ReceiptsAgree
  <1>7. ASSUME NEW i \in 1..Len(journal), Signs(i), receipts' = receipts
        PROVE  ReceiptsAgree'
    <2>1. /\ DOMAIN journal' = DOMAIN journal /\ loc'.ent = loc.ent
          /\ \A k \in DOMAIN journal : journal'[k].outcome = journal[k].outcome
      <3>1. \A k \in DOMAIN journal : journal[k] \in Records
        BY <1>1
      <3>2. /\ DOMAIN journal' = DOMAIN journal /\ loc'.ent = loc.ent
            /\ \A k \in DOMAIN journal : k # i => journal'[k] = journal[k]
            /\ journal'[i] = [journal[i] EXCEPT !.status = "pending"]
        BY <1>1, <1>7 DEF Signs
      <3>3. journal'[i].outcome = journal[i].outcome
        BY <1>1, <3>1, <3>2 DEF Records
      <3> QED
        BY <3>2, <3>3
    <2> QED
      BY <1>1, <1>5, <1>7, <2>1 DEF ReceiptsAgree
  <1>8. ASSUME NEW i \in 1..Len(journal), NEW o \in Outcomes, Acknowledges(i, o),
               receipts' = receipts
        PROVE  ReceiptsAgree'
    <2>1. /\ loc.ent \in Ents /\ loc' = loc
          /\ i <= Len(receipts[loc.ent]) /\ o = receipts[loc.ent][i].outcome
      BY <1>8 DEF Acknowledges
    <2>2. /\ DOMAIN journal' = DOMAIN journal
          /\ \A k \in DOMAIN journal : k # i => journal'[k] = journal[k]
          /\ journal'[i].outcome = o
      BY <1>1, <1>8 DEF Acknowledges, Acknowledged
    <2>3. i \in DOMAIN receipts[loc.ent]
      BY <1>1, <1>2, <2>1
    <2> QED
      BY <1>1, <1>5, <1>8, <2>1, <2>2, <2>3 DEF ReceiptsAgree
  <1>9. ASSUME Discards, receipts' = receipts
        PROVE  ReceiptsAgree'
    <2>1. DOMAIN journal' = DOMAIN journal /\ loc' = loc
      BY <1>9 DEF Discards
    <2>2. ASSUME NEW k \in DOMAIN journal
          PROVE  journal'[k].outcome = journal[k].outcome
      <3>1. journal[k] \in Records
        BY <1>1
      <3>2. [journal[k] EXCEPT !.status = "discarded"].outcome = journal[k].outcome
        BY <3>1 DEF Records
      <3> QED
        BY <1>9, <3>2 DEF Discards
    <2> QED
      BY <1>1, <1>5, <1>9, <2>1, <2>2 DEF ReceiptsAgree
  <1>10. ASSUME NEW e \in Ents, TakesUp(e) \/ GivesUp(e)
         PROVE  ReceiptsAgree'
    <2>1. journal' = << >>
      BY <1>1, <1>10 DEF TakesUp, GivesUp, LengthInv
    <2> QED
      BY <2>1 DEF ReceiptsAgree
  <1> QED
    BY <1>4, <1>6, <1>7, <1>8, <1>9, <1>10, DeviceSteps

-----------------------------------------------------------------------------
(***************************************************************************)
(* What the steps do to the page and its request.                          *)
(***************************************************************************)
Stays ==
    /\ req' = req /\ ans' = ans /\ op' = op /\ loc'.ent = loc.ent
    /\ (loc' = loc /\ journal' = journal) \/ op.step # "wait"

\* The page waits for nothing; an earlier request may still be on its way.
Rests ==
    /\ \A r \in req' : ~r.live /\ \E q \in req : r = [q EXCEPT !.live = FALSE]
    /\ ans'.kind = "none" /\ op'.step # "wait"
    /\ op'.step = "finalize" => op'.ent \in Ents /\ known[op'.ent].cleanup = "cleared"
    /\ op'.step = "entitlement" => ans.kind = "issued" /\ op'.ent = ans.ent

Asks(q) ==
    /\ op.step # "wait" /\ q.live /\ req' = req \cup {q} /\ ans' = ans
    /\ op'.step = "wait" /\ op'.kind = op.kind /\ op'.ent = op.ent
    /\ loc' = loc /\ journal' = journal /\ commits' = commits /\ receipts' = receipts
    /\ ent' = ent
    /\ \/ q.kind = "activate"
       \/ q.kind \in {"resolve", "cleanup"} /\ q.ent = op.ent /\ op.kind \in Existing
       \/ /\ q.kind = "sync" /\ q.ent = loc.ent /\ op.kind \in Existing /\ loc.ent # 0
          /\ Terminal = {} /\ Pending # {}
          /\ q.first = CHOOSE k \in Pending : \A j \in Pending : k <= j
          /\ q.count <= Cardinality(Pending)

LEMMA RestingPage ==
    ASSUME Inv, op.step # "wait" \/ ans.kind # "none", req' = req,
           (ans' = ans /\ op.step # "wait") \/ ans' = Nothing,
           op'.step # "wait",
           op'.step = "finalize" => op'.ent \in Ents /\ known[op'.ent].cleanup = "cleared",
           op'.step = "entitlement" => ans.kind = "issued" /\ op'.ent = ans.ent
    PROVE  Rests
  <1>1. \A r \in req : ~r.live /\ r \in Requests
    BY Quiet DEF Inv, Types, NetTypes
  <1>2. \A r \in req : ~r.live => r = [r EXCEPT !.live = FALSE]
    <2>1. \A r \in Requests : r.live \in BOOLEAN
      BY DEF Requests
    <2>2. \A r \in Requests : r = [r EXCEPT !.live = r.live]
      BY DEF Requests
    <2>3. ASSUME NEW r \in req, ~r.live
          PROVE  r = [r EXCEPT !.live = FALSE]
      <3>1. r.live = FALSE
        BY <1>1, <2>1, <2>3
      <3> QED
        BY <1>1, <2>2, <3>1
    <2> QED
      BY <2>3
  <1>3. ans'.kind = "none"
    BY Quiet DEF Nothing
  <1> QED
    BY <1>1, <1>2, <1>3 DEF Rests

LEMMA InstallPage ==
    ASSUME Inv, Install
    PROVE  Rests \/ \E q \in Requests : Asks(q)
  <1>1. Types
    BY DEF Inv
  <1>2. CASE BeginInstall
    <2>1. op.step # "wait" /\ op'.step = "prepare"
      BY <1>2 DEF BeginInstall, Idle
    <2> QED
      BY <1>2, <2>1, RestingPage DEF BeginInstall, net
  <1>3. CASE PrepareInstallation
    <2>1. PICK q : q = [kind |-> "activate", inst |-> key', live |-> TRUE]
      OBVIOUS
    <2>2. req' = req \cup {q}
      BY <1>3, <2>1 DEF PrepareInstallation, Ask
    <2>3. q \in Requests
      <3>1. req' \subseteq Requests
        BY <1>1, InstallTypes DEF Types, NetTypes
      <3> QED
        BY <2>1, <2>2, <3>1
    <2>4. Step("wait") /\ op.step = "prepare"
      BY <1>3 DEF PrepareInstallation
    <2>5. /\ op'.step = "wait" /\ op'.kind = op.kind /\ op'.ent = op.ent
      BY <1>1, <2>4, Stepped DEF StepNames
    <2>6. Asks(q)
      BY <1>3, <2>1, <2>2, <2>4, <2>5 DEF PrepareInstallation, Asks, Install, server
    <2> QED
      BY <2>3, <2>6
  <1>4. CASE TakeActivation
    <2>1. op'.step = "entitlement" /\ op'.ent = ans.ent /\ ans.kind = "issued"
      BY <1>1, <1>4 DEF TakeActivation, Types, PageTypes, Operations
    <2> QED
      BY <1>4, <2>1, RestingPage DEF TakeActivation
  <1>5. CASE AbandonActivation
    <2>1. op'.step = "none" /\ ans.kind = "denied"
      BY <1>5, Finished DEF AbandonActivation
    <2> QED
      BY <1>5, <2>1, RestingPage DEF AbandonActivation
  <1>6. CASE PutEntitlement
    <2>1. op'.step \in {"package", "none"} /\ op.step = "entitlement"
      BY <1>1, <1>6, Stepped, Finished DEF PutEntitlement, StepNames, Installing
    <2> QED
      BY <1>6, <2>1, RestingPage DEF PutEntitlement, net
  <1>7. CASE PutPackage
    <2>1. op'.step \in {"download", "none"} /\ op.step = "package"
      BY <1>1, <1>7, Stepped, Finished DEF PutPackage, StepNames, Installing
    <2> QED
      BY <1>7, <2>1, RestingPage DEF PutPackage, net
  <1>8. CASE PackageInstalled
    <2>1. op'.step = "installed" /\ op.step = "download"
      BY <1>1, <1>8, Stepped DEF PackageInstalled, StepNames, Installing
    <2> QED
      BY <1>8, <2>1, RestingPage DEF PackageInstalled, net
  <1>9. CASE DownloadComplete
    <2>1. op'.step = "none" /\ op.step = "installed"
      BY <1>9, Finished DEF DownloadComplete
    <2> QED
      BY <1>9, <2>1, RestingPage DEF DownloadComplete, net
  <1> QED
    BY <1>2, <1>3, <1>4, <1>5, <1>6, <1>7, <1>8, <1>9 DEF Install

LEMMA OpenPage ==
    ASSUME Inv, Open
    PROVE  Rests \/ Stays
  <1>1. Types
    BY DEF Inv
  <1>2. ASSUME NEW kind \in Existing, BeginExisting(kind)
        PROVE  Rests
    <2>1. /\ op' = [kind |-> kind, ent |-> shown.ent, res |-> "none", base |-> 0,
                    step |-> IF kind = "remove" /\ known[shown.ent].cleanup = "cleared"
                             THEN "finalize" ELSE "load"]
          /\ op.step # "wait"
      BY <1>2 DEF BeginExisting, Idle
    <2>2. shown.ent \in Ents
      BY <1>1, <1>2 DEF BeginExisting, Types, PageTypes, Cards
    <2>3. /\ op'.step \in {"finalize", "load"}
          /\ op'.step = "finalize" => op'.ent \in Ents /\ known[op'.ent].cleanup = "cleared"
      BY <2>1, <2>2
    <2> QED
      BY <1>2, <2>1, <2>3, RestingPage DEF BeginExisting, net
  <1>3. CASE LoadContext
    <2>1. op.step = "load" /\ op \in Operations
      BY <1>1, <1>3 DEF LoadContext, Types, PageTypes
    <2>2. op'.step \in {"complete", "drain", "none"}
      <3>1. \/ \E a : op' = [op EXCEPT !.step = "complete", !.res = a]
            \/ Step("drain") \/ Finish
        BY <1>3 DEF LoadContext
      <3>2. ASSUME NEW a, op' = [op EXCEPT !.step = "complete", !.res = a]
            PROVE  op'.step = "complete"
        BY <2>1, <3>2 DEF Operations
      <3>3. Step("drain") => op'.step = "drain"
        BY <1>1, Stepped DEF StepNames, Steps
      <3> QED
        BY <3>1, <3>2, <3>3, Finished
    <2> QED
      BY <1>3, <2>1, <2>2, RestingPage DEF LoadContext, net
  <1>4. CASE ReserveSpoolEntry \/ AcknowledgeSpoolEntry
    BY <1>4 DEF ReserveSpoolEntry, AcknowledgeSpoolEntry, Draining, Stays, net
  <1>5. CASE FinaliseJournalEntry
    <2>1. loc'.ent = loc.ent
      BY <1>1, <1>5 DEF FinaliseJournalEntry, Types, DeviceTypes
    <2> QED
      BY <1>5, <2>1 DEF FinaliseJournalEntry, Draining, Stays, net
  <1>6. CASE RefuseSpoolEntry \/ ClosePlayer
    <2>1. op'.step = "none" /\ op.step # "wait"
      BY <1>6, Finished DEF RefuseSpoolEntry, ClosePlayer, Draining
    <2> QED
      BY <1>6, <2>1, RestingPage DEF RefuseSpoolEntry, ClosePlayer, net
  <1>7. CASE InitializePlayer
    <2>1. op.step = "drain" /\ op \in Operations
      BY <1>1, <1>7 DEF InitializePlayer, Types, PageTypes
    <2>2. op'.step \in {"play", "none"}
      <3>1. \/ op' = [op EXCEPT !.step = "play", !.base = loc.snap.time]
            \/ Finish
        BY <1>7 DEF InitializePlayer
      <3>2. ASSUME op' = [op EXCEPT !.step = "play", !.base = loc.snap.time]
            PROVE  op'.step = "play"
        BY <2>1, <3>2 DEF Operations
      <3> QED
        BY <3>1, <3>2, Finished
    <2> QED
      BY <1>7, <2>1, <2>2, RestingPage DEF InitializePlayer, net
  <1>8. ASSUME NEW done \in BOOLEAN, NEW delta \in {0, 1}, Checkpoint(done, delta)
        PROVE  Stays
    <2>1. req' = req /\ ans' = ans /\ op' = op /\ loc' = loc /\ journal' = journal
      BY <1>8, Zenon DEF Checkpoint, net
    <2> QED
      BY <2>1 DEF Stays
  <1> QED
    BY <1>2, <1>3, <1>4, <1>5, <1>6, <1>7, <1>8 DEF Open, Existing

\* A receipt is read, and the next one stays.
Reads ==
    /\ ans.kind = "receipts" /\ ans.out # << >> /\ req' = req /\ op' = op
    /\ ans' = [ans EXCEPT !.first = @ + 1, !.out = Tail(@)]
    /\ journal' = [journal EXCEPT ![ans.first] = Acknowledged(Head(ans.out))]
    /\ loc' = loc /\ commits' = commits /\ receipts' = receipts /\ ent' = ent

LEMMA SyncPage ==
    ASSUME Inv, Sync
    PROVE  Rests \/ Reads \/ \E q \in Requests : Asks(q)
  <1>1. Types /\ UNCHANGED server
    BY DEF Inv, Sync
  <1>2. CASE SendBatch
    <2> DEFINE n == Cardinality(Pending)
               m == IF n < BatchLimit THEN n ELSE BatchLimit
               f == CHOOSE k \in Pending : \A j \in Pending : k <= j
    <2>1. PICK q : q = [kind |-> "sync", ent |-> loc.ent, first |-> f, live |-> TRUE,
                        count |-> m]
      OBVIOUS
    <2>2. req' = req \cup {q}
      BY <1>2, <2>1 DEF SendBatch, Ask
    <2>3. q \in Requests
      <3>1. req' \subseteq Requests
        BY <1>1, SyncTypes DEF Inv, Types, NetTypes
      <3> QED
        BY <2>2, <3>1
    <2>4. Terminal = {} /\ Pending # {} /\ Step("wait") /\ Sending
      BY <1>2 DEF SendBatch
    <2>5. /\ op.kind \in Existing /\ loc.ent # 0 /\ op.step # "wait"
      BY <1>1, <2>4 DEF Sending, Types, PageTypes, Steps
    <2>6. m <= n
      <3>1. n \in Nat
        <4> HIDE DEF n
        <4>1. n = Cardinality(Pending) => n \in Nat
          BY <1>1, <2>4, PendingBatch
        <4> QED
          BY <4>1 DEF n
      <3> HIDE DEF n
      <3> QED
        BY <3>1, OfflineAssumption
    <2>7. /\ q.kind = "sync" /\ q.ent = loc.ent /\ q.live /\ q.first = f /\ q.count = m
      BY <2>1
    <2>8. /\ op'.step = "wait" /\ op'.kind = op.kind /\ op'.ent = op.ent
      BY <1>1, <2>4, Stepped DEF StepNames
    <2>9. UNCHANGED <<device, ans>>
      BY <1>2 DEF SendBatch
    <2>10. Asks(q)
      <3> HIDE DEF n, m
      <3> QED
        BY <1>1, <2>2, <2>4, <2>5, <2>6, <2>7, <2>8, <2>9 DEF Asks, server, device, n
    <2> QED
      BY <2>3, <2>10
  <1>3. CASE AcceptReceipt
    <2>1. CASE ans.out # << >>
      BY <1>1, <1>3, <2>1 DEF AcceptReceipt, Reads, server
    <2>2. CASE ans.out = << >>
      <3>1. ans' = Nothing /\ req' = req /\ ans.kind # "none" /\ (Finish \/ Step("send"))
        BY <1>3, <2>2 DEF AcceptReceipt
      <3>2. op'.step \in {"send", "none"}
        BY <1>1, <3>1, Stepped, Finished DEF StepNames, Steps
      <3> QED
        BY <3>1, <3>2, RestingPage
    <2> QED
      BY <2>1, <2>2
  <1>4. CASE SyncBlocked
    <2>1. op.step # "wait" /\ req' = req /\ ans' = ans /\ (Finish \/ Step("confirm"))
      BY <1>4 DEF SyncBlocked, Sending, net
    <2>2. op'.step \in {"confirm", "none"}
      BY <1>1, <2>1, Stepped, Finished DEF StepNames, Steps
    <2> QED
      BY <2>1, <2>2, RestingPage
  <1>5. CASE DeclineDiscard
    <2>1. op.step # "wait" /\ req' = req /\ ans' = ans /\ op'.step = "none"
      BY <1>5, Finished DEF DeclineDiscard, net
    <2> QED
      BY <2>1, RestingPage
  <1>6. CASE ConfirmDiscard \/ SyncComplete
    <2>1. op.step # "wait" /\ req' = req /\ ans' = ans
      BY <1>6 DEF ConfirmDiscard, SyncComplete, Sending, net
    <2>2. op'.step \in {"complete", "none"}
      <3>1. Finish \/ \E a : op' = [op EXCEPT !.step = "complete", !.res = a]
        BY <1>6 DEF ConfirmDiscard, SyncComplete
      <3>2. ASSUME NEW a, op' = [op EXCEPT !.step = "complete", !.res = a]
            PROVE  op'.step = "complete"
        BY <1>1, <3>2 DEF Types, PageTypes, Operations
      <3> QED
        BY <3>1, <3>2, Finished
    <2> QED
      BY <2>1, <2>2, RestingPage
  <1> QED
    BY <1>2, <1>3, <1>4, <1>5, <1>6 DEF Sync

LEMMA RemovalPage ==
    ASSUME Inv, Removal
    PROVE  Rests \/ \E q \in Requests : Asks(q)
  <1>1. Types /\ UNCHANGED server /\ Types'
    BY RemovalTypes DEF Inv, Removal
  <1>2. CASE AskResolution
    <2>1. PICK q : q = [kind |-> "resolve", ent |-> op.ent, res |-> op.res, live |-> TRUE]
      OBVIOUS
    <2>2. req' = req \cup {q} /\ Step("wait") /\ op.step = "complete"
      BY <1>2, <2>1 DEF AskResolution, Ask
    <2>3. q \in Requests
      BY <1>1, <2>2 DEF Types, NetTypes
    <2>4. /\ op'.step = "wait" /\ op'.kind = op.kind /\ op'.ent = op.ent
      BY <1>1, <2>2, Stepped DEF StepNames
    <2>5. op.kind \in Existing
      BY <1>1, <2>2 DEF Types, PageTypes, Steps
    <2>6. Asks(q)
      BY <1>1, <1>2, <2>1, <2>2, <2>4, <2>5 DEF AskResolution, Asks, server
    <2> QED
      BY <2>3, <2>6
  <1>3. CASE WipeSite
    <2>1. PICK q : q = [kind |-> "cleanup", ent |-> op.ent, live |-> TRUE]
      OBVIOUS
    <2>2. req' = req \cup {q} /\ Step("wait") /\ op.step = "wipe"
      BY <1>3, <2>1 DEF WipeSite, Ask
    <2>3. q \in Requests
      BY <1>1, <2>2 DEF Types, NetTypes
    <2>4. /\ op'.step = "wait" /\ op'.kind = op.kind /\ op'.ent = op.ent
      BY <1>1, <2>2, Stepped DEF StepNames
    <2>5. op.kind \in Existing
      BY <1>1, <2>2 DEF Types, PageTypes, Steps
    <2>6. Asks(q)
      BY <1>1, <1>3, <2>1, <2>2, <2>4, <2>5 DEF WipeSite, Asks, server
    <2> QED
      BY <2>3, <2>6
  <1>4. CASE BeginCleanup
    <2>1. ans.kind # "none" /\ ans' = Nothing /\ req' = req /\ (Step("wipe") \/ Finish)
      BY <1>4 DEF BeginCleanup
    <2>2. op'.step \in {"wipe", "none"}
      BY <1>1, <2>1, Stepped, Finished DEF StepNames, Steps
    <2> QED
      BY <2>1, <2>2, RestingPage
  <1>5. CASE ClearAttempt
    <2>1. /\ req' = req /\ (Step("unindex") \/ Finish)
          /\ \/ ans.kind # "none" /\ ans' = Nothing
             \/ op.step # "wait" /\ ans' = ans
      BY <1>5 DEF ClearAttempt, CleanupConfirmed
    <2>2. op'.step \in {"unindex", "none"}
      BY <1>1, <2>1, Stepped, Finished DEF StepNames, Steps
    <2> QED
      BY <2>1, <2>2, RestingPage
  <1>6. CASE DeleteIndexRecord
    <2>1. op.step # "wait" /\ req' = req /\ ans' = ans /\ op'.step = "none"
      BY <1>6, Finished DEF DeleteIndexRecord, net
    <2> QED
      BY <2>1, RestingPage
  <1>7. CASE RefusedByServer
    <2>1. ans.kind # "none" /\ ans' = Nothing /\ req' = req /\ op'.step = "none"
      BY <1>7, Finished DEF RefusedByServer
    <2> QED
      BY <2>1, RestingPage
  <1> QED
    BY <1>2, <1>3, <1>4, <1>5, <1>6, <1>7 DEF Removal

LEMMA PageSteps ==
    ASSUME Inv, [Next]_vars
    PROVE  \/ Stays \/ Rests \/ Reads
           \/ \E q \in Requests : Asks(q)
           \/ \E r \in req : Serve(r)
  <1>1. CASE Online \/ Tick \/ Refresh
    BY <1>1 DEF Online, CreateLaunch, ExchangeToken, RecordProgress, Tick, Refresh, Stays,
       net, device, page
  <1>2. CASE LoseAnswer \/ Crash
    <2>1. req' = Forgotten /\ ans' = Nothing /\ op'.step = "none"
      BY <1>2, Finished DEF LoseAnswer, Crash
    <2>2. \A r \in req : r \in Requests /\ [r EXCEPT !.live = FALSE].live = FALSE
      <3>1. \A r \in Requests : [r EXCEPT !.live = FALSE].live = FALSE
        BY DEF Requests
      <3> QED
        BY <3>1 DEF Inv, Types, NetTypes
    <2> QED
      BY <2>1, <2>2 DEF Forgotten, Rests, Nothing
  <1>3. CASE UNCHANGED vars
    BY <1>3 DEF vars, Stays
  <1> QED
    BY <1>1, <1>2, <1>3, InstallPage, OpenPage, SyncPage, RemovalPage DEF Next

\* What the server answers to request r.
Reply(r, a) ==
    \/ a.kind = "denied" /\ r.kind \in {"activate", "issue"}
    \/ a.kind = "issued" /\ r.kind = "issue" /\ a.ent \in Ents
       /\ ent'[a.ent].status = "active"
    \/ /\ a.kind = "receipts" /\ r.kind = "sync"
       /\ \E s \in Transactions :
             /\ TakesIn(r, s) /\ a.first = r.first /\ a.out = s.out
    \/ a.kind \in {"cleanup", "refused"} /\ r.kind \in {"resolve", "cleanup"}
    \/ a.kind = "cleared" /\ r.kind = "cleanup" /\ ent'[r.ent].cleanup = "cleared"

LEMMA ServePage ==
    ASSUME Inv, NEW r \in req, Serve(r)
    PROVE  /\ op' = op /\ loc' = loc /\ journal' = journal /\ commits' = commits
           /\ known' = known
           /\ \/ /\ r.kind = "activate" /\ ans' = ans
                 /\ req' = (req \ {r}) \cup {[r EXCEPT !.kind = "issue"]}
              \/ \E a : Answer(r, a) /\ Reply(r, a)
  <1>1. /\ op' = op /\ loc' = loc /\ journal' = journal /\ commits' = commits
        /\ known' = known
    BY DEF Serve, device, page
  <1>2. ASSUME Deny(r), r.kind \in {"activate", "issue"}
        PROVE  \E a : Answer(r, a) /\ Reply(r, a)
    <2>1. PICK a : Answer(r, a) /\ a.kind = "denied"
      BY <1>2 DEF Deny
    <2> QED
      BY <1>2, <2>1 DEF Reply
  <1>3. CASE ServeRegister(r)
    BY <1>1, <1>2, <1>3 DEF ServeRegister
  <1>4. CASE ServeIssue(r)
    <2>1. r.kind = "issue"
      BY <1>4 DEF ServeIssue
    <2>2. Deny(r) \/ \E e \in Ents : /\ ent'[e].status = "active"
                                     /\ Answer(r, [kind |-> "issued", ent |-> e])
      BY <1>4, IssueEffect DEF HandsOver
    <2>3. ASSUME NEW e \in Ents, ent'[e].status = "active",
                 Answer(r, [kind |-> "issued", ent |-> e])
          PROVE  \E a : Answer(r, a) /\ Reply(r, a)
      <3>1. PICK a : a = [kind |-> "issued", ent |-> e]
        OBVIOUS
      <3>2. a.kind = "issued" /\ a.ent = e
        BY <3>1
      <3>3. Answer(r, a) /\ Reply(r, a)
        BY <2>1, <2>3, <3>1, <3>2 DEF Reply
      <3> QED
        BY <3>3
    <2> QED
      BY <1>1, <1>2, <2>1, <2>2, <2>3
  <1>5. CASE ServeSync(r)
    <2>1. r.kind = "sync"
      BY <1>5 DEF ServeSync
    <2>2. PICK s \in Transactions :
             /\ TakesIn(r, s)
             /\ Answer(r, [kind |-> "receipts", first |-> r.first, out |-> s.out,
                           gap |-> s.gap])
      BY <1>5, SyncEffect
    <2>3. PICK a : a = [kind |-> "receipts", first |-> r.first, out |-> s.out, gap |-> s.gap]
      OBVIOUS
    <2>4. a.kind = "receipts" /\ a.first = r.first /\ a.out = s.out
      BY <2>3
    <2>5. Answer(r, a) /\ Reply(r, a)
      BY <2>1, <2>2, <2>3, <2>4 DEF Reply
    <2> QED
      BY <1>1, <2>5
  <1>6. CASE ServeResolve(r)
    <2>1. r.kind = "resolve"
      BY <1>6 DEF ServeResolve
    <2>2. PICK a : Answer(r, a) /\ a.kind \in {"cleanup", "refused"}
      BY <1>6, ResolveEffect
    <2> QED
      BY <1>1, <2>1, <2>2 DEF Reply
  <1>7. CASE ServeCleanup(r)
    <2>1. r.kind = "cleanup"
      BY <1>7 DEF ServeCleanup
    <2>2. PICK a : /\ Answer(r, a)
                   /\ \/ a.kind = "refused"
                      \/ a.kind = "cleared" /\ ent'[r.ent].cleanup = "cleared"
      BY <1>7, CleanupEffect
    <2> QED
      BY <1>1, <2>1, <2>2 DEF Reply
  <1> QED
    BY <1>3, <1>4, <1>5, <1>6, <1>7 DEF Serve

LEMMA WaitKept ==
    ASSUME Inv, [Next]_vars
    PROVE  WaitInv'
  <1>1. WaitInv /\ NetTypes
    BY DEF Inv, Types
  <1>2. CASE Stays
    BY <1>1, <1>2 DEF Stays, WaitInv
  <1>3. CASE Rests
    BY <1>3 DEF Rests, WaitInv, ServerAnswers
  <1>4. CASE Reads
    <2>1. ans'.kind = "receipts"
      <3>1. ans \in [kind : {"receipts"}, first : Nat \ {0}, out : Seq(Outcomes),
                     gap : BOOLEAN]
        BY <1>1, <1>4, AnswerKinds DEF Reads, NetTypes
      <3> QED
        BY <1>4, <3>1 DEF Reads
    <2>2. \A r \in req : ~r.live
      BY <1>4, Quiet DEF Reads
    <2> QED
      BY <1>1, <1>4, <2>1, <2>2 DEF Reads, WaitInv, ServerAnswers
  <1>5. ASSUME NEW q \in Requests, Asks(q)
        PROVE  WaitInv'
    <2>1. (\A r \in req : ~r.live) /\ ans.kind = "none"
      BY <1>5, Quiet DEF Asks
    <2>2. \A r \in req' : r.live => r = q
      BY <1>5, <2>1 DEF Asks
    <2>3. /\ q.kind \in {"sync", "resolve", "cleanup"} => op'.kind \in Existing
          /\ q.kind \in {"resolve", "cleanup"} => q.ent = op'.ent
          /\ q.kind = "sync" => q.ent = loc'.ent
          /\ op'.step = "wait" /\ ans'.kind = "none"
      BY <1>5, <2>1 DEF Asks
    <2> QED
      BY <2>2, <2>3 DEF WaitInv, ServerAnswers
  <1>6. ASSUME NEW r \in req, Serve(r)
        PROVE  WaitInv'
    <2>1. /\ op' = op /\ loc' = loc
          /\ \/ /\ r.kind = "activate" /\ ans' = ans
                /\ req' = (req \ {r}) \cup {[r EXCEPT !.kind = "issue"]}
             \/ \E a : Answer(r, a) /\ Reply(r, a)
      BY <1>6, ServePage
    <2>2. ASSUME NEW a, Answer(r, a), Reply(r, a)
          PROVE  WaitInv'
      <3>1. CASE r.live
        <4>1. req' = req \ {r} /\ ans' = a
          BY <2>2, <3>1 DEF Answer
        <4>2. \A q \in req' : ~q.live
          BY <1>1, <3>1, <4>1 DEF WaitInv
        <4>3. op.step = "wait" /\ (r.kind \in {"sync", "resolve", "cleanup"} => op.kind \in Existing)
          BY <1>1, <3>1 DEF WaitInv
        <4>4. a.kind \in ServerAnswers => r.kind \in {"sync", "resolve", "cleanup"}
          BY <2>2 DEF Reply, ServerAnswers
        <4> QED
          BY <2>1, <4>1, <4>2, <4>3, <4>4 DEF WaitInv
      <3>2. CASE ~r.live
        <4>1. req' \subseteq req /\ ans' = ans
          BY <2>2, <3>2 DEF Answer
        <4> QED
          BY <1>1, <2>1, <4>1 DEF WaitInv
      <3> QED
        BY <3>1, <3>2
    <2>3. ASSUME r.kind = "activate", ans' = ans,
                 req' = (req \ {r}) \cup {[r EXCEPT !.kind = "issue"]}
          PROVE  WaitInv'
      <3>1. r \in [kind : {"activate", "issue"}, inst : Ents, live : BOOLEAN]
        BY <1>1, <2>3, RequestKinds DEF NetTypes
      <3>2. PICK x : x = [r EXCEPT !.kind = "issue"]
        OBVIOUS
      <3>3. x.kind = "issue" /\ x.live = r.live
        BY <3>1, <3>2
      <3>4. \A q \in req' : q.live =>
               /\ ans.kind = "none" /\ op.step = "wait"
               /\ \A p \in req' : p.live => p = q
               /\ q.kind \in {"sync", "resolve", "cleanup"} => op.kind \in Existing
               /\ q.kind \in {"resolve", "cleanup"} => q.ent = op.ent
               /\ q.kind = "sync" => q.ent = loc.ent
        <4>1. CASE r.live
          <5>1. \A q \in req \ {r} : ~q.live
            BY <1>1, <4>1 DEF WaitInv
          <5>2. \A q \in req' : q.live => q = x
            BY <2>3, <3>2, <5>1
          <5> QED
            BY <1>1, <3>3, <4>1, <5>2 DEF WaitInv
        <4>2. CASE ~r.live
          <5>1. \A q \in req' : q.live => q \in req
            BY <2>3, <3>2, <3>3, <4>2
          <5> QED
            BY <1>1, <5>1 DEF WaitInv
        <4> QED
          BY <4>1, <4>2
      <3> QED
        BY <1>1, <2>1, <2>3, <3>4 DEF WaitInv
    <2> QED
      BY <2>1, <2>2, <2>3
  <1> QED
    BY <1>2, <1>3, <1>4, <1>5, <1>6, PageSteps

LEMMA RestOfBatch ==
    ASSUME Inv, Terminal = {}, Pending # {}, loc.ent \in Ents,
           NEW first, first = CHOOSE k \in Pending : \A j \in Pending : k <= j,
           NEW n \in Nat \ {0}, n <= Cardinality(Pending)
    PROVE  Awaited(first, n) /\ first <= Len(receipts[loc.ent]) + 1
  <1>1. /\ journal \in Seq(Records) /\ Len(journal) \in Nat /\ DOMAIN journal = 1..Len(journal)
        /\ JournalInv /\ ReceiptsAgree /\ \A k \in 1..Len(journal) : journal[k] \in Records
        /\ loc.ent # 0 /\ Len(receipts[loc.ent]) \in Nat
        /\ DOMAIN receipts[loc.ent] = 1..Len(receipts[loc.ent])
    <2>1. /\ journal \in Seq(Records) /\ JournalInv /\ ReceiptsAgree /\ loc.ent # 0
          /\ receipts[loc.ent] \in Seq(Receipts)
      BY DEF Inv, Types, DeviceTypes, ServerTypes, Ents
    <2> QED
      BY <2>1
  <1>2. PICK c : c = Cardinality(Pending)
    OBVIOUS
  <1>3. /\ first \in Pending /\ \A k \in Pending : first <= k
        /\ first \in 1..Len(journal) /\ c \in Nat \ {0}
        /\ first + c <= Len(journal) + 1
        /\ \A last \in first..Len(journal) :
              Pending \subseteq first..last => first + c <= last + 1
    BY <1>2, PendingBatch DEF Inv
  <1>4. journal[first].status = "pending"
    BY <1>3 DEF Pending
  <1>11. /\ Len(journal) \in Nat /\ first \in Nat /\ first >= 1 /\ first <= Len(journal)
         /\ c \in Nat /\ c # 0 /\ first + c <= Len(journal) + 1
    <2>1. Len(journal) \in Nat /\ first \in 1..Len(journal) /\ c \in Nat \ {0}
          /\ first + c <= Len(journal) + 1
      BY <1>1, <1>3
    <2> QED
      BY <2>1
  <1>5. \A k \in 1..Len(journal) : journal[k].status # "discarded"
    <2>1. \A t \in 1..Len(journal) : journal[t].outcome \notin {"rejected", "conflict"}
      BY <1>1 DEF Terminal
    <2>2. ASSUME NEW k \in 1..Len(journal), journal[k].status = "discarded"
          PROVE  FALSE
      <3>1. PICK t \in 1..k : journal[t].outcome \in {"rejected", "conflict"}
        BY <1>1, <2>2 DEF JournalInv, Consistent
      <3> QED
        BY <1>1, <2>1, <3>1
    <2> QED
      BY <2>2
  <1>6. ASSUME NEW k \in 1..(first - 1)
        PROVE  journal[k].outcome # "none" /\ journal[k] = Acknowledged("accepted")
    <2>1. k \in 1..Len(journal) /\ k < first /\ k # Len(journal) /\ ~(first <= k)
      BY <1>11
    <2>2. journal[k].status = "acknowledged"
      <3>1. journal[k].status # "pending"
        BY <1>1, <1>3, <2>1 DEF Pending
      <3>2. journal[k].status # "signing"
        BY <1>1, <2>1 DEF JournalInv, Consistent
      <3> QED
        BY <1>1, <1>5, <2>1, <3>1, <3>2 DEF Records
    <2>3. journal[k].outcome # "none"
      BY <1>1, <2>1, <2>2 DEF JournalInv, Consistent
    <2>4. journal[k].outcome = "accepted"
      <3>1. journal[k].outcome \notin {"rejected", "conflict"}
        BY <1>1, <2>1 DEF Terminal
      <3>2. journal[k].outcome \in {"accepted", "rejected", "conflict", "none"}
        BY <1>1, <2>1 DEF Records, Outcomes
      <3> QED
        BY <2>3, <3>1, <3>2
    <2> QED
      BY <1>1, <2>1, <2>2, <2>3, <2>4 DEF Acknowledged, Records
  <1>7. first <= Len(receipts[loc.ent]) + 1
    <2>3. Len(receipts[loc.ent]) \in Nat
      BY <1>1
    <2>1. CASE first = 1
      <3>1. PICK m \in Nat : m = Len(receipts[loc.ent])
        BY <2>3
      <3>2. 1 <= m + 1
        OBVIOUS
      <3> QED
        BY <2>1, <3>1, <3>2
    <2>2. CASE first # 1
      <3>1. first - 1 \in 1..(first - 1) /\ first - 1 \in DOMAIN journal
        <4>1. first - 1 \in 1..(first - 1) /\ first - 1 \in 1..Len(journal)
          BY <1>11, <2>2
        <4> QED
          BY <1>1, <4>1
      <3>2. first - 1 \in 1..Len(receipts[loc.ent])
        BY <1>1, <1>6, <3>1 DEF ReceiptsAgree
      <3> QED
        BY <1>11, <2>3, <3>2
    <2> QED
      BY <2>1, <2>2
  <1>8. ASSUME NEW k \in first..Len(journal)
        PROVE  journal[k].status = "pending" \/ (journal[k].status = "signing" /\ k = Len(journal))
    <2>1. k \in 1..Len(journal)
      BY <1>1, <1>3
    <2>2. journal[k].outcome # "none" => k = first
      <3>1. journal[first] # Acknowledged("accepted")
        BY <1>4 DEF Acknowledged
      <3>2. k # first => first \in 1..(k - 1)
        BY <1>1, <1>3
      <3> QED
        BY <1>1, <2>1, <3>1, <3>2 DEF JournalInv, Consistent
    <2>3. journal[k].status = "acknowledged" => FALSE
      BY <1>1, <1>4, <2>1, <2>2 DEF JournalInv, Consistent
    <2>4. journal[k].status \in {"signing", "pending", "acknowledged", "discarded"}
      BY <1>1, <2>1 DEF Records
    <2>5. journal[k].status = "signing" => k = Len(journal)
      BY <1>1, <2>1 DEF JournalInv, Consistent
    <2> QED
      BY <1>5, <2>1, <2>3, <2>4, <2>5
  <1>9. \A k \in first..(first + c - 1) : journal[k].status = "pending"
    <2>1. CASE journal[Len(journal)].status = "pending"
      <3>1. \A k \in first..(first + c - 1) : k \in first..Len(journal)
        BY <1>1, <1>3
      <3> QED
        BY <1>8, <2>1, <3>1
    <2>2. CASE journal[Len(journal)].status # "pending"
      <3>1. first # Len(journal) /\ Len(journal) - 1 \in first..Len(journal)
        <4>1. first # Len(journal)
          BY <1>4, <2>2
        <4> QED
          BY <1>11, <4>1
      <3>2. Pending \subseteq first..(Len(journal) - 1)
        <4>1. ASSUME NEW k \in Pending
              PROVE  k \in first..(Len(journal) - 1)
          <5>1. k \in 1..Len(journal) /\ journal[k].status = "pending" /\ first <= k
            BY <1>1, <1>3 DEF Pending
          <5>2. k # Len(journal)
            BY <2>2, <5>1
          <5> QED
            BY <1>1, <1>3, <5>1, <5>2
        <4> QED
          BY <4>1
      <3>3. first + c <= (Len(journal) - 1) + 1
        BY <1>3, <3>1, <3>2
      <3>4. \A k \in first..(first + c - 1) : k \in first..Len(journal) /\ k # Len(journal)
        BY <1>11, <3>3
      <3> QED
        BY <1>8, <3>4
    <2> QED
      BY <2>1, <2>2
  <1>10. /\ first + n <= Len(journal) + 1
         /\ \A k \in first..(first + n - 1) : journal[k].status = "pending"
    <2>1. \A k \in first..(first + n - 1) : k \in first..(first + c - 1)
      BY <1>2, <1>3
    <2> QED
      BY <1>1, <1>2, <1>3, <1>9, <2>1
  <1> QED
    BY <1>1, <1>6, <1>7, <1>10 DEF Awaited

LEMMA BatchKept ==
    ASSUME Inv, [Next]_vars
    PROVE  BatchInv'
  <1>1. /\ BatchInv /\ HolderInv /\ LengthInv /\ NetTypes
        /\ receipts \in [Ents -> Seq(Receipts)] /\ commits \in [Ents -> Seq(Entries)]
        /\ receipts' \in [Ents -> Seq(Receipts)] /\ commits' \in [Ents -> Seq(Entries)]
        /\ journal \in Seq(Records) /\ loc \in [ent : 0..MaxEnts, snap : Snapshots]
    BY TypesKept DEF Inv, Types, ServerTypes, DeviceTypes
  <1>2. ASSUME NEW e \in Ents, NEW f \in Nat, NEW n \in Nat, ent[e].status # "none",
               f + n <= Len(commits[e]) + 1, f <= Len(receipts[e]) + 1
        PROVE  /\ ent'[e].status # "none"
               /\ f + n <= Len(commits'[e]) + 1 /\ f <= Len(receipts'[e]) + 1
    <2>1. /\ ent'[e].status # "none"
          /\ Len(commits[e]) <= Len(commits'[e]) /\ Len(receipts[e]) <= Len(receipts'[e])
      BY <1>2, Growth DEF Grows
    <2>2. /\ Len(commits[e]) \in Nat /\ Len(commits'[e]) \in Nat
          /\ Len(receipts[e]) \in Nat /\ Len(receipts'[e]) \in Nat
      BY <1>1
    <2> QED
      BY <1>2, <2>1, <2>2
  <1>3. ASSUME NEW r, NEW q \in req, r.kind = q.kind, q.kind = "sync",
               r.ent = q.ent, r.first = q.first, r.count = q.count
        PROVE  /\ ent'[r.ent].status # "none"
               /\ r.first + r.count <= Len(commits'[r.ent]) + 1
               /\ r.first <= Len(receipts'[r.ent]) + 1
    <2>1. q.ent \in Ents /\ q.first \in Nat /\ q.count \in Nat
      BY <1>1, <1>3, RequestKinds DEF NetTypes
    <2>2. /\ ent[q.ent].status # "none"
          /\ q.first + q.count <= Len(commits[q.ent]) + 1
          /\ q.first <= Len(receipts[q.ent]) + 1
      BY <1>1, <1>3 DEF BatchInv
    <2> QED
      BY <1>2, <1>3, <2>1, <2>2
  <1>4. CASE req' = req
    BY <1>3, <1>4 DEF BatchInv
  <1>5. CASE Rests
    <2>1. ASSUME NEW r \in req', r.kind = "sync"
          PROVE  /\ ent'[r.ent].status # "none"
                 /\ r.first + r.count <= Len(commits'[r.ent]) + 1
                 /\ r.first <= Len(receipts'[r.ent]) + 1
      <3>1. PICK q \in req : r = [q EXCEPT !.live = FALSE]
        BY <1>5 DEF Rests
      <3>2. r.kind = q.kind
        <4>1. q \in Requests
          BY <1>1 DEF NetTypes
        <4> QED
          BY <3>1, <4>1 DEF Requests
      <3>3. r.ent = q.ent /\ r.first = q.first /\ r.count = q.count
        <4>1. q \in [kind : {"sync"}, ent : Ents, first : Nat \ {0}, count : Nat \ {0},
                     live : BOOLEAN]
          BY <1>1, <2>1, <3>2, RequestKinds DEF NetTypes
        <4> QED
          BY <3>1, <4>1
      <3> QED
        BY <1>3, <2>1, <3>2, <3>3
    <2> QED
      BY <2>1 DEF BatchInv
  <1>6. ASSUME NEW q \in Requests, Asks(q)
        PROVE  BatchInv'
    <2>1. q.kind = "sync" => /\ ent'[q.ent].status # "none"
                             /\ q.first + q.count <= Len(commits'[q.ent]) + 1
                             /\ q.first <= Len(receipts'[q.ent]) + 1
      <3>1. ASSUME q.kind = "sync"
            PROVE  /\ ent'[q.ent].status # "none"
                   /\ q.first + q.count <= Len(commits'[q.ent]) + 1
                   /\ q.first <= Len(receipts'[q.ent]) + 1
        <4>1. q.first \in Nat \ {0} /\ q.count \in Nat \ {0}
          BY <3>1, RequestKinds
        <4>2. /\ q.ent = loc.ent /\ loc.ent # 0 /\ Terminal = {} /\ Pending # {}
              /\ q.first = CHOOSE k \in Pending : \A j \in Pending : k <= j
              /\ q.count <= Cardinality(Pending)
          BY <1>6, <3>1 DEF Asks
        <4>3. loc.ent \in Ents /\ ent[loc.ent].status # "none"
              /\ Len(journal) = Len(commits[loc.ent])
          BY <1>1, <4>2 DEF HolderInv, LengthInv, Ents
        <4>4. Awaited(q.first, q.count) /\ q.first <= Len(receipts[loc.ent]) + 1
          BY <4>1, <4>2, <4>3, RestOfBatch
        <4>5. q.first + q.count <= Len(commits[loc.ent]) + 1
          BY <4>3, <4>4 DEF Awaited
        <4> QED
          BY <1>2, <4>1, <4>2, <4>3, <4>4, <4>5
      <3> QED
        BY <3>1
    <2>2. req' = req \cup {q}
      BY <1>6 DEF Asks
    <2> QED
      BY <1>3, <2>1, <2>2 DEF BatchInv
  <1>7. ASSUME NEW r \in req, Serve(r)
        PROVE  BatchInv'
    <2>1. ASSUME NEW p \in req', p.kind = "sync"
          PROVE  p \in req
      <3>1. ASSUME r.kind = "activate"
            PROVE  [r EXCEPT !.kind = "issue"].kind = "issue"
        <4>1. r \in [kind : {"activate", "issue"}, inst : Ents, live : BOOLEAN]
          BY <1>1, <3>1, RequestKinds DEF NetTypes
        <4> QED
          BY <4>1
      <3>2. \/ r.kind = "activate" /\ req' = (req \ {r}) \cup {[r EXCEPT !.kind = "issue"]}
            \/ \E a : Answer(r, a)
        BY <1>7, ServePage
      <3> QED
        BY <2>1, <3>1, <3>2 DEF Answer
    <2> QED
      BY <1>3, <2>1 DEF BatchInv
  <1> QED
    BY <1>4, <1>5, <1>6, <1>7, PageSteps DEF Stays, Reads

LEMMA ReceivedKept ==
    ASSUME Inv, [Next]_vars
    PROVE  ReceivedInv'
  <1>1. /\ ReceivedInv /\ WaitInv /\ NetTypes /\ journal \in Seq(Records)
        /\ Len(journal) \in Nat /\ loc \in [ent : 0..MaxEnts, snap : Snapshots]
        /\ receipts \in [Ents -> Seq(Receipts)] /\ receipts' \in [Ents -> Seq(Receipts)]
    <2>1. /\ ReceivedInv /\ WaitInv /\ NetTypes /\ journal \in Seq(Records)
          /\ loc \in [ent : 0..MaxEnts, snap : Snapshots]
          /\ receipts \in [Ents -> Seq(Receipts)] /\ receipts' \in [Ents -> Seq(Receipts)]
      BY TypesKept DEF Inv, Types, ServerTypes, DeviceTypes
    <2> QED
      BY <2>1
  <1>2. CASE Rests
    BY <1>2 DEF Rests, ReceivedInv
  <1>3. ASSUME NEW f, NEW n, Awaited(f, n), loc' = loc, journal' = journal
        PROVE  Awaited(f, n)'
    BY <1>3 DEF Awaited
  <1>4. ASSUME ans.kind = "receipts", loc' = loc, journal' = journal, ans' = ans
        PROVE  /\ Awaited(ans.first, Len(ans.out))'
               /\ ans.first + Len(ans.out) <= Len(receipts'[loc.ent]) + 1
               /\ \A i \in 1..Len(ans.out) :
                     /\ ans.out[i] = receipts'[loc.ent][ans.first + i - 1].outcome
                     /\ i < Len(ans.out) => ans.out[i] = "accepted"
    <2>1. /\ Awaited(ans.first, Len(ans.out))
          /\ ans.first + Len(ans.out) <= Len(receipts[loc.ent]) + 1
          /\ \A i \in 1..Len(ans.out) :
                /\ ans.out[i] = receipts[loc.ent][ans.first + i - 1].outcome
                /\ i < Len(ans.out) => ans.out[i] = "accepted"
      BY <1>1, <1>4 DEF ReceivedInv
    <2>2. PICK f, o : f = ans.first /\ o = ans.out
      OBVIOUS
    <2>3. f \in Nat \ {0} /\ Len(o) \in Nat
      <3>1. f \in Nat \ {0} /\ o \in Seq(Outcomes)
        BY <1>1, <1>4, <2>2, AnswerKinds DEF NetTypes
      <3> QED
        BY <3>1
    <2>4. PICK e \in Ents : e = loc.ent
      BY <1>1, <2>1 DEF Awaited, Ents
    <2>5. /\ Len(receipts[e]) \in Nat /\ Len(receipts'[e]) \in Nat
          /\ Len(receipts[e]) <= Len(receipts'[e])
          /\ \A k \in 1..Len(receipts[e]) : receipts'[e][k] = receipts[e][k]
      BY <1>1, Growth DEF Grows
    <2>6. f + Len(o) <= Len(receipts[e]) + 1
      BY <2>1, <2>2, <2>4
    <2>7. \A i \in 1..Len(o) : f + i - 1 \in 1..Len(receipts[e])
      BY <2>3, <2>5, <2>6
    <2>8. f + Len(o) <= Len(receipts'[e]) + 1
      BY <2>3, <2>5, <2>6
    <2>9. Awaited(f, Len(o))'
      BY <1>3, <1>4, <2>1, <2>2
    <2>10. Awaited(ans.first, Len(ans.out))'
      BY <1>4, <2>2, <2>9 DEF Awaited
    <2> QED
      BY <2>1, <2>2, <2>4, <2>5, <2>7, <2>8, <2>10
  <1>5. CASE Stays
    <2>1. CASE op.step # "wait"
      <3>1. (\A r \in req : ~r.live) /\ ans.kind = "none"
        BY <2>1, Quiet
      <3> QED
        BY <1>5, <3>1 DEF Stays, ReceivedInv
    <2>2. CASE loc' = loc /\ journal' = journal
      <3>1. \A r \in req' : r.live /\ r.kind = "sync" => Awaited(r.first, r.count)'
        BY <1>1, <1>3, <1>5, <2>2 DEF Stays, ReceivedInv
      <3> QED
        BY <1>4, <1>5, <2>2, <3>1 DEF Stays, ReceivedInv
    <2> QED
      BY <1>5, <2>1, <2>2 DEF Stays
  <1>6. ASSUME NEW q \in Requests, Asks(q)
        PROVE  ReceivedInv'
    <2>1. /\ (\A r \in req : ~r.live) /\ ans'.kind = "none" /\ req' = req \cup {q}
          /\ loc' = loc /\ journal' = journal
      BY <1>6, Quiet DEF Asks
    <2>2. ASSUME q.kind = "sync"
          PROVE  Awaited(q.first, q.count)'
      <3>1. q.first \in Nat \ {0} /\ q.count \in Nat \ {0}
        BY <2>2, RequestKinds
      <3>2. /\ loc.ent # 0 /\ Terminal = {} /\ Pending # {}
            /\ q.first = CHOOSE k \in Pending : \A j \in Pending : k <= j
            /\ q.count <= Cardinality(Pending)
        BY <1>6, <2>2 DEF Asks
      <3>3. loc.ent \in Ents
        BY <1>1, <3>2 DEF Ents
      <3>4. Awaited(q.first, q.count)
        BY <3>1, <3>2, <3>3, RestOfBatch
      <3> QED
        BY <1>3, <2>1, <3>4
    <2>3. \A r \in req' : r.live /\ r.kind = "sync" => Awaited(r.first, r.count)'
      BY <2>1, <2>2
    <2> QED
      BY <2>1, <2>3 DEF ReceivedInv
  <1>7. CASE Reads
    <2>1. PICK f, o : f = ans.first /\ o = ans.out
      OBVIOUS
    <2>2. PICK jn : jn = journal
      OBVIOUS
    <2>3. ans \in [kind : {"receipts"}, first : Nat \ {0}, out : Seq(Outcomes),
                   gap : BOOLEAN]
      BY <1>1, <1>7, AnswerKinds DEF Reads, NetTypes
    <2>4. f \in Nat \ {0} /\ o \in Seq(Outcomes) /\ o # << >> /\ Len(jn) \in Nat
          /\ jn \in Seq(Records)
      BY <1>1, <1>7, <2>1, <2>2, <2>3 DEF Reads
    <2>5. /\ Len(o) \in Nat \ {0} /\ Head(o) = o[1] /\ Tail(o) \in Seq(Outcomes)
          /\ Len(Tail(o)) = Len(o) - 1
          /\ \A i \in 1..(Len(o) - 1) : Tail(o)[i] = o[i + 1]
      BY <2>4
    <2>6. /\ loc.ent # 0 /\ f + Len(o) <= Len(jn) + 1
          /\ \A k \in f..(f + Len(o) - 1) : jn[k].status = "pending"
          /\ Len(o) > 0 => \A k \in 1..(f - 1) : jn[k] = Acknowledged("accepted")
          /\ f + Len(o) <= Len(receipts[loc.ent]) + 1
          /\ \A i \in 1..Len(o) :
                /\ o[i] = receipts[loc.ent][f + i - 1].outcome
                /\ i < Len(o) => o[i] = "accepted"
      BY <1>1, <1>7, <2>1, <2>2 DEF Reads, ReceivedInv, Awaited
    <2>7. f \in 1..Len(jn)
      BY <2>4, <2>5, <2>6
    <2>8. /\ Len(journal') = Len(jn) /\ journal'[f] = Acknowledged(Head(o))
          /\ \A k \in 1..Len(jn) : k # f => journal'[k] = jn[k]
      BY <1>7, <2>1, <2>2, <2>4, <2>7, ReplacedAt DEF Reads
    <2>9. PICK g, p : g = f + 1 /\ p = Tail(o)
      OBVIOUS
    <2>10. ans'.kind = "receipts" /\ ans'.first = g /\ ans'.out = p
      BY <1>7, <2>1, <2>3, <2>9 DEF Reads
    <2>11. /\ g \in Nat \ {0} /\ Len(p) = Len(o) - 1
           /\ \A i \in 1..Len(p) : p[i] = o[i + 1] /\ i + 1 \in 1..Len(o)
           /\ \A i \in 1..Len(p) : i < Len(p) => i + 1 < Len(o)
           /\ \A i \in 1..Len(p) : g + i - 1 = f + (i + 1) - 1
      BY <2>4, <2>5, <2>9
    <2>12. /\ g + Len(p) <= Len(jn) + 1 /\ g + Len(p) = f + Len(o)
           /\ \A k \in g..(g + Len(p) - 1) :
                 k \in f..(f + Len(o) - 1) /\ k # f /\ k \in 1..Len(jn)
           /\ \A k \in 1..(g - 1) : k = f \/ (k \in 1..(f - 1) /\ k # f /\ k \in 1..Len(jn))
      BY <2>4, <2>5, <2>6, <2>7, <2>9, <2>11
    <2>13. Len(p) > 0 => Head(o) = "accepted"
      <3>1. Len(p) > 0 => 1 \in 1..Len(o) /\ 1 < Len(o)
        BY <2>5, <2>11
      <3> QED
        BY <2>5, <2>6, <3>1
    <2>14. /\ \A k \in g..(g + Len(p) - 1) : journal'[k].status = "pending"
           /\ Len(p) > 0 => \A k \in 1..(g - 1) : journal'[k] = Acknowledged("accepted")
      <3>1. Len(o) > 0
        BY <2>5
      <3> QED
        BY <2>6, <2>8, <2>12, <2>13, <3>1
    <2>15. Awaited(ans.first, Len(ans.out))'
      BY <1>7, <2>6, <2>8, <2>10, <2>12, <2>14 DEF Awaited, Reads
    <2>16. \A i \in 1..Len(p) :
              /\ p[i] = receipts[loc.ent][g + i - 1].outcome
              /\ i < Len(p) => p[i] = "accepted"
      <3> SUFFICES ASSUME NEW i \in 1..Len(p), NEW j, j = i + 1
                   PROVE  /\ p[i] = receipts[loc.ent][g + i - 1].outcome
                          /\ i < Len(p) => p[i] = "accepted"
        OBVIOUS
      <3>1. /\ p[i] = o[j] /\ j \in 1..Len(o) /\ g + i - 1 = f + j - 1
            /\ i < Len(p) => j < Len(o)
        BY <2>11
      <3>2. /\ o[j] = receipts[loc.ent][f + j - 1].outcome
            /\ j < Len(o) => o[j] = "accepted"
        BY <2>6, <3>1
      <3> QED
        BY <3>1, <3>2
    <2>17. /\ loc' = loc /\ receipts' = receipts /\ \A r \in req' : ~r.live
      BY <1>7, Quiet DEF Reads
    <2> QED
      BY <2>6, <2>10, <2>12, <2>15, <2>16, <2>17 DEF ReceivedInv
  <1>8. ASSUME NEW r \in req, Serve(r)
        PROVE  ReceivedInv'
    <2>1. /\ loc' = loc /\ journal' = journal
          /\ \/ /\ r.kind = "activate" /\ ans' = ans
                /\ req' = (req \ {r}) \cup {[r EXCEPT !.kind = "issue"]}
             \/ \E a : Answer(r, a) /\ Reply(r, a)
      BY <1>8, ServePage
    <2>2. ASSUME NEW p \in req', p.kind = "sync"
          PROVE  p \in req
      <3>1. ASSUME r.kind = "activate"
            PROVE  [r EXCEPT !.kind = "issue"].kind = "issue"
        <4>1. r \in [kind : {"activate", "issue"}, inst : Ents, live : BOOLEAN]
          BY <1>1, <3>1, RequestKinds DEF NetTypes
        <4> QED
          BY <4>1
      <3> QED
        BY <2>1, <2>2, <3>1 DEF Answer
    <2>3. \A p \in req' : p.live /\ p.kind = "sync" => Awaited(p.first, p.count)'
      <3>1. \A p \in req : p.live /\ p.kind = "sync" => Awaited(p.first, p.count)
        BY <1>1 DEF ReceivedInv
      <3> QED
        BY <1>3, <2>1, <2>2, <3>1
    <2>4. CASE ans' = ans
      BY <1>4, <2>1, <2>3, <2>4 DEF ReceivedInv
    <2>5. ASSUME r.live, NEW a, ans' = a, Reply(r, a)
          PROVE  ReceivedInv'
      <3>1. CASE a.kind # "receipts"
        BY <2>3, <2>5, <3>1 DEF ReceivedInv
      <3>2. CASE a.kind = "receipts"
        <4>1. PICK s \in Transactions :
                 TakesIn(r, s) /\ a.first = r.first /\ a.out = s.out
          BY <2>5, <3>2 DEF Reply
        <4>2. r.kind = "sync"
          BY <2>5, <3>2 DEF Reply
        <4>3. PICK f, n, o : f = r.first /\ n = r.count /\ o = s.out
          OBVIOUS
        <4>4. f \in Nat \ {0} /\ n \in Nat \ {0}
          BY <1>1, <4>2, <4>3, RequestKinds DEF NetTypes
        <4>5. o \in Seq(Outcomes) /\ s.rs \in Seq(Receipts)
          BY <4>3 DEF Transactions
        <4>6. /\ Len(o) <= n /\ f + Len(o) <= Len(s.rs) + 1
              /\ \A i \in 1..Len(o) : /\ o[i] = s.rs[f + i - 1].outcome
                                      /\ i < Len(o) => o[i] = "accepted"
          BY <4>1, <4>3 DEF TakesIn, Turn
        <4>7. Awaited(f, n)
          BY <1>1, <2>5, <4>2, <4>3 DEF ReceivedInv
        <4>8. r.ent = loc.ent /\ receipts'[r.ent] = s.rs
          BY <1>1, <2>5, <4>1, <4>2, BatchFrame DEF WaitInv
        <4>9. Awaited(f, Len(o))
          <5>1. Len(journal) \in Nat /\ Len(o) \in Nat
            BY <1>1, <4>5
          <5>2. /\ f + n <= Len(journal) + 1 => f + Len(o) <= Len(journal) + 1
                /\ \A k \in f..(f + Len(o) - 1) : k \in f..(f + n - 1)
                /\ n > 0
            BY <4>4, <4>6, <5>1
          <5> QED
            BY <4>7, <5>2 DEF Awaited
        <4>10. Awaited(f, Len(o))'
          BY <1>3, <2>1, <4>9
        <4>11. /\ ans'.kind = "receipts" /\ ans'.first = f /\ ans'.out = o
          BY <2>5, <3>2, <4>1, <4>3
        <4>12. Awaited(ans.first, Len(ans.out))'
          BY <4>10, <4>11 DEF Awaited
        <4> QED
          BY <2>1, <2>3, <4>6, <4>8, <4>11, <4>12 DEF ReceivedInv
      <3> QED
        BY <3>1, <3>2
    <2> QED
      BY <2>1, <2>4, <2>5 DEF Answer
  <1> QED
    BY <1>2, <1>5, <1>6, <1>7, <1>8, PageSteps

\* What a page knows of its entitlements comes from a bootstrap, and it forgets it when
\* it is killed.
LEMMA KnownSteps ==
    ASSUME [Next]_vars
    PROVE  \/ known' = known \/ known' = Unknown
           \/ \E i : RefreshCourses(i) /\ ent' = ent
  <1>1. CASE Online \/ Tick \/ LoseAnswer \/ Crash \/ (\E r \in req : Serve(r))
    BY <1>1, Zenon DEF Online, CreateLaunch, ExchangeToken, RecordProgress, Tick, Serve, LoseAnswer,
       Crash, page
  <1>2. CASE Refresh
    BY <1>2 DEF Refresh, server
  <1>3. CASE Install
    BY <1>3 DEF Install, BeginInstall, PrepareInstallation, TakeActivation,
       AbandonActivation, PutEntitlement, PutPackage, PackageInstalled, DownloadComplete,
       server
  <1>4. CASE Open
    <2>1. ASSUME NEW done \in BOOLEAN, NEW delta \in {0, 1}, Checkpoint(done, delta)
          PROVE  known' = known
      BY <2>1, Zenon DEF Checkpoint
    <2> QED
      BY <1>4, <2>1 DEF Open, BeginExisting, LoadContext, ReserveSpoolEntry,
         FinaliseJournalEntry, AcknowledgeSpoolEntry, RefuseSpoolEntry, InitializePlayer,
         ClosePlayer
  <1>5. CASE Sync
    BY <1>5 DEF Sync, SendBatch, AcceptReceipt, SyncBlocked, DeclineDiscard, ConfirmDiscard,
       SyncComplete
  <1>6. CASE Removal
    BY <1>6 DEF Removal, AskResolution, BeginCleanup, WipeSite, ClearAttempt,
       DeleteIndexRecord, RefusedByServer, server
  <1>7. CASE UNCHANGED vars
    BY <1>7 DEF vars
  <1> QED
    BY <1>1, <1>2, <1>3, <1>4, <1>5, <1>6, <1>7 DEF Next

\* Only the end of a removal leaves an entitlement with a journal that is given up.
LEMMA FreshKept ==
    ASSUME Inv, [Next]_vars, NEW e \in Ents, Fresh(e), ~ClearAttempt
    PROVE  Fresh(e)'
  <1>1. /\ ent'[e].status # "none" /\ 0 \notin Ents
        /\ loc \in [ent : 0..MaxEnts, snap : Snapshots] /\ commits \in [Ents -> Seq(Entries)]
    BY Growth DEF Fresh, Inv, Types, DeviceTypes, Ents
  <1>2. CASE loc'.ent = loc.ent /\ commits' = commits
    BY <1>1, <1>2 DEF Fresh
  <1>3. CASE ReserveSpoolEntry
    <2>1. PICK x \in Entries : Reserves(x)
      BY <1>3, ReserveEffect
    <2>2. loc' = loc /\ (e # loc.ent => commits'[e] = commits[e])
      BY <1>1, <2>1 DEF Reserves
    <2> QED
      BY <1>1, <2>2 DEF Fresh
  <1>4. CASE FinaliseJournalEntry \/ AcceptReceipt \/ ConfirmDiscard
    BY <1>1, <1>2, <1>4 DEF FinaliseJournalEntry, AcceptReceipt, ConfirmDiscard
  <1>5. CASE PutEntitlement
    <2>1. loc' = loc \/ TakesUp(op.ent)
      BY <1>5, PutEffect
    <2>2. commits' = commits
      BY <1>5, PutEffect
    <2>3. TakesUp(op.ent) => commits[e] = << >>
      BY <1>1 DEF TakesUp, Fresh
    <2> QED
      BY <1>1, <1>2, <2>1, <2>2, <2>3 DEF Fresh
  <1> QED
    BY <1>2, <1>3, <1>4, <1>5, StoreSteps DEF StoreStep

LEMMA ClearedKept ==
    ASSUME Inv, [Next]_vars
    PROVE  ClearedInv'
  <1>1. /\ ClearedInv /\ WaitInv /\ HolderInv' /\ NetTypes /\ PageTypes /\ 0 \notin Ents
        /\ loc \in [ent : 0..MaxEnts, snap : Snapshots]
        /\ commits \in [Ents -> Seq(Entries)]
    BY HolderKept DEF Inv, Types, DeviceTypes, Ents
  <1>2. \A e \in Ents : ent[e].cleanup = "cleared" => ent'[e].cleanup = "cleared"
    BY Growth
  <1>3. ASSUME NEW e \in Ents, commits'[e] # << >>, loc'.ent # e
        PROVE  ent'[e].cleanup = "cleared"
    <2>1. CASE loc'.ent = loc.ent /\ commits'[e] = commits[e]
      BY <1>1, <1>2, <1>3, <2>1 DEF ClearedInv
    <2>2. ASSUME NEW x \in Entries, Reserves(x)
          PROVE  ent'[e].cleanup = "cleared"
      <3>1. loc' = loc /\ (e # loc.ent => commits'[e] = commits[e])
        BY <1>1, <2>2 DEF Reserves
      <3> QED
        BY <1>3, <2>1, <3>1
    <2>3. ASSUME NEW k \in 1..Len(journal), Signs(k)
          PROVE  ent'[e].cleanup = "cleared"
      BY <1>1, <2>1, <2>3 DEF Signs
    <2>4. ASSUME NEW k \in 1..Len(journal), NEW x \in Outcomes, Acknowledges(k, x)
          PROVE  ent'[e].cleanup = "cleared"
      BY <2>1, <2>4 DEF Acknowledges
    <2>5. CASE Discards
      BY <2>1, <2>5 DEF Discards
    <2>6. ASSUME NEW f \in Ents, TakesUp(f)
          PROVE  ent'[e].cleanup = "cleared"
      BY <1>1, <1>2, <1>3, <2>6 DEF TakesUp, ClearedInv
    <2>7. ASSUME NEW f \in Ents, GivesUp(f)
          PROVE  ent'[e].cleanup = "cleared"
      BY <1>1, <1>2, <1>3, <2>7 DEF GivesUp, ClearedInv
    <2> QED
      BY <2>1, <2>2, <2>3, <2>4, <2>5, <2>6, <2>7, DeviceSteps
  <1>4. ASSUME NEW e \in Ents, known'[e].cleanup = "cleared"
        PROVE  ent'[e].cleanup = "cleared"
    <2>1. CASE known' = known
      BY <1>1, <1>2, <1>4, <2>1 DEF ClearedInv
    <2>2. Unknown[e].cleanup = "none"
      BY DEF Unknown
    <2>3. ASSUME NEW i, RefreshCourses(i), ent' = ent
          PROVE  ent'[e].cleanup = "cleared"
      <3>1. CASE known' = known
        BY <2>1, <3>1
      <3>2. CASE known' = [f \in Ents |-> IF f \in Retained(i)
                                          THEN [res |-> ent[f].res, cleanup |-> ent[f].cleanup]
                                          ELSE Unknown[f]]
        BY <1>4, <2>2, <2>3, <3>2
      <3> QED
        BY <2>3, <3>1, <3>2 DEF RefreshCourses
    <2> QED
      BY <1>4, <2>1, <2>2, <2>3, KnownSteps
  <1>5. ans.kind = "cleared" \/ op.step = "finalize" => op.ent \in Ents
    BY <1>1 DEF WaitInv, ServerAnswers, PageTypes, Operations, Steps, Ents
  <1>6. /\ ans.kind = "issued" => ans.ent \in Ents /\ Fresh(ans.ent)
        /\ op.step = "entitlement" => op.ent \in Ents /\ Fresh(op.ent)
    <2>1. ans.kind = "issued" => ans \in [kind : {"issued"}, ent : Ents]
      BY <1>1, AnswerKinds DEF NetTypes
    <2> QED
      BY <1>1, <2>1 DEF ClearedInv, PageTypes, Operations, Installing, Ents
  <1>7. ASSUME NEW e \in Ents, ent'[e].status = "active"
        PROVE  Fresh(e)'
    <2>1. ent'[e].cleanup = "pending"
      BY <1>1, <1>7 DEF HolderInv
    <2> QED
      BY <1>3, <1>7, <2>1 DEF Fresh
  <1>8. ASSUME ans'.kind = "cleared" \/ op'.step = "finalize"
        PROVE  ent'[op'.ent].cleanup = "cleared"
    <2>1. ASSUME ans.kind = "cleared" \/ op.step = "finalize", op' = op
          PROVE  ent'[op'.ent].cleanup = "cleared"
      BY <1>1, <1>2, <1>5, <2>1 DEF ClearedInv
    <2>2. CASE Stays
      BY <1>8, <2>1, <2>2 DEF Stays
    <2>3. CASE Rests
      <3>1. op'.ent \in Ents /\ known[op'.ent].cleanup = "cleared"
        BY <1>8, <2>3 DEF Rests
      <3> QED
        BY <1>1, <1>2, <3>1 DEF ClearedInv
    <2>4. CASE Reads
      <3>1. ans'.kind = "receipts"
        <4>1. ans \in [kind : {"receipts"}, first : Nat \ {0}, out : Seq(Outcomes),
                       gap : BOOLEAN]
          BY <1>1, <2>4, AnswerKinds DEF Reads, NetTypes
        <4> QED
          BY <2>4, <4>1 DEF Reads
      <3> QED
        BY <1>8, <2>1, <2>4, <3>1 DEF Reads
    <2>5. ASSUME NEW q \in Requests, Asks(q)
          PROVE  FALSE
      <3>1. ans'.kind = "none" /\ op'.step = "wait"
        BY <2>5, Quiet DEF Asks
      <3> QED
        BY <1>8, <3>1
    <2>6. ASSUME NEW r \in req, Serve(r)
          PROVE  ent'[op'.ent].cleanup = "cleared"
      <3>1. /\ op' = op
            /\ \/ ans' = ans
               \/ \E a : Answer(r, a) /\ Reply(r, a)
        BY <2>6, ServePage
      <3>2. CASE ans' = ans
        BY <1>8, <2>1, <3>1, <3>2
      <3>3. ASSUME NEW a, Answer(r, a), Reply(r, a), r.live
            PROVE  ent'[op'.ent].cleanup = "cleared"
        <4>1. ans' = a
          BY <3>3 DEF Answer
        <4>2. a.kind = "cleared" => r.kind = "cleanup" /\ ent'[r.ent].cleanup = "cleared"
          BY <3>3 DEF Reply
        <4>3. r.kind = "cleanup" => r.ent = op.ent
          BY <1>1, <3>3 DEF WaitInv
        <4>4. op.step = "wait"
          BY <1>1, <3>3 DEF WaitInv
        <4> QED
          BY <1>8, <3>1, <4>1, <4>2, <4>3, <4>4
      <3> QED
        BY <3>1, <3>2, <3>3 DEF Answer
    <2> QED
      BY <2>2, <2>3, <2>4, <2>5, <2>6, PageSteps
  <1>9. CASE ClearAttempt
    <2>1. /\ ans' = Nothing \/ (ans' = ans /\ op.step = "finalize")
          /\ Step("unindex") \/ Finish
      BY <1>9 DEF ClearAttempt, CleanupConfirmed
    <2>2. ans'.kind = "none"
      BY <2>1, Quiet DEF Nothing
    <2>3. op'.step \in {"unindex", "none"}
      BY <2>1, Stepped, Finished DEF Inv, StepNames, Steps
    <2> QED
      BY <1>3, <1>4, <1>8, <2>2, <2>3 DEF ClearedInv
  <1>10. CASE ~ClearAttempt
    <2>1. \A e \in Ents : Fresh(e) => Fresh(e)'
      BY <1>10, FreshKept
    <2> DEFINE Held ==
          /\ ans'.kind = "issued" => \E e \in Ents : ans'.ent = e /\ Fresh(e)'
          /\ op'.step = "entitlement" => \E e \in Ents : op'.ent = e /\ Fresh(e)'
    <2>2. ASSUME Stays \/ Reads \/ \E q \in Requests : Asks(q)
          PROVE  Held
      <3>1. ans' = ans \/ ans'.kind \in {"none", "receipts"}
        <4>1. CASE Reads
          <5>1. ans \in [kind : {"receipts"}, first : Nat \ {0}, out : Seq(Outcomes),
                         gap : BOOLEAN]
            BY <1>1, <4>1, AnswerKinds DEF Reads, NetTypes
          <5> QED
            BY <4>1, <5>1 DEF Reads
        <4> QED
          BY <2>2, <4>1 DEF Stays, Asks
      <3>2. op' = op \/ op'.step = "wait"
        BY <2>2 DEF Stays, Reads, Asks
      <3> QED
        BY <1>6, <2>1, <3>1, <3>2
    <2>3. ASSUME Rests
          PROVE  Held
      BY <1>6, <2>1, <2>3 DEF Rests
    <2>4. ASSUME NEW r \in req, Serve(r)
          PROVE  Held
      <3>1. /\ op' = op
            /\ \/ ans' = ans
               \/ \E a : ans' = a /\ Reply(r, a)
        BY <2>4, ServePage DEF Answer
      <3>2. op'.step = "entitlement" => \E e \in Ents : op'.ent = e /\ Fresh(e)'
        BY <1>6, <2>1, <3>1
      <3>3. CASE ans' = ans
        BY <1>6, <2>1, <3>2, <3>3
      <3>4. ASSUME NEW a, ans' = a, Reply(r, a), a.kind = "issued"
            PROVE  \E e \in Ents : ans'.ent = e /\ Fresh(e)'
        <4>1. a.ent \in Ents /\ ent'[a.ent].status = "active"
          BY <3>4 DEF Reply
        <4> QED
          BY <1>7, <3>4, <4>1
      <3> QED
        BY <3>1, <3>2, <3>3, <3>4
    <2>5. Held
      BY <2>2, <2>3, <2>4, PageSteps
    <2> QED
      BY <1>3, <1>4, <1>8, <2>5 DEF ClearedInv, Fresh
  <1> QED
    BY <1>9, <1>10

-----------------------------------------------------------------------------
(***************************************************************************)
(* The invariant.                                                          *)
(***************************************************************************)
LEMMA InvInit == Init => Inv
  <1> SUFFICES ASSUME Init
               PROVE  Inv
    OBVIOUS
  <1>1. /\ att = [mode |-> "online", ent |-> 0, gen |-> 0, rev |-> 0,
                  started |-> FALSE, done |-> FALSE, time |-> 0]
        /\ token = NoToken /\ sess = {} /\ ent = [e \in Ents |-> NoEnt]
        /\ receipts = [e \in Ents |-> << >>] /\ inst = [i \in Ents |-> "none"]
        /\ clock = "open" /\ req = {} /\ ans = Nothing /\ idx = None /\ key = 0
        /\ loc = [ent |-> 0, snap |-> [done |-> FALSE, time |-> 0]]
        /\ commits = [e \in Ents |-> << >>] /\ journal = << >> /\ pkg = "none"
        /\ spool = EmptySpool /\ op = Idle /\ shown = None /\ known = Unknown
        /\ launches = 0
    BY DEF Init
  <1>2. /\ MaxEnts \in Nat /\ 0 \in 0..MaxEnts /\ 0 \in 0..MaxTime /\ NoToken \in Nat
        /\ \A e \in Ents : e \in Nat /\ e > 0
    BY OfflineAssumption DEF NoToken, Ents
  <1>3. [done |-> FALSE, time |-> 0] \in Snapshots
    BY <1>2 DEF Snapshots
  <1>4. ServerTypes
    <2>1. att \in Attempts
      BY <1>1, <1>2 DEF Attempts
    <2>2. NoEnt \in Entitlements
      BY <1>2, <1>3 DEF NoEnt, Entitlements
    <2>3. << >> \in Seq(Receipts)
      OBVIOUS
    <2> QED
      BY <1>1, <1>2, <2>1, <2>2, <2>3 DEF ServerTypes
  <1>5. NetTypes
    BY <1>1 DEF NetTypes, Answers
  <1>6. DeviceTypes
    <2>1. idx \in Cards
      BY <1>1 DEF Cards, None
    <2>2. << >> \in Seq(Entries) /\ << >> \in Seq(Records)
      OBVIOUS
    <2>3. spool \in [entries : Seq(Entries), launch : Nat, next : Nat, high : Nat]
      BY <1>1, <2>2 DEF EmptySpool
    <2> QED
      BY <1>1, <1>2, <1>3, <2>1, <2>2, <2>3 DEF DeviceTypes
  <1>7. PageTypes
    <2>1. op \in Operations
      BY <1>1, <1>2 DEF Idle, Operations, StepNames
    <2>2. shown \in Cards
      BY <1>1 DEF Cards, None
    <2>3. known \in Bootstraps
      BY <1>1 DEF Unknown, Bootstraps
    <2> QED
      BY <1>1, <2>1, <2>2, <2>3 DEF PageTypes, Idle, Existing, Installing, Steps
  <1>8. WaitInv
    BY <1>1 DEF WaitInv, Nothing, ServerAnswers
  <1>9. HolderInv
    BY <1>1, <1>2 DEF HolderInv, NoEnt
  <1>10. EpochInv
    <2>1. \A e \in Ents : ent[e].status = "none" /\ 0 < 2 * e - 1 /\ ent[e].gen = 0
      BY <1>1, <1>2 DEF NoEnt
    <2>2. att.gen = 2 * 0 /\ att.ent = 0
      BY <1>1
    <2> QED
      BY <1>1, <1>2, <2>1, <2>2 DEF EpochInv
  <1>11. ClearedInv
    BY <1>1 DEF ClearedInv, Unknown, Nothing, Idle
  <1>12. LengthInv /\ BatchInv /\ JournalInv /\ ReceivedInv /\ ReceiptsAgree
    BY <1>1 DEF LengthInv, BatchInv, JournalInv, ReceivedInv, ReceiptsAgree, Nothing
  <1>13. ChainInv
    BY <1>1 DEF ChainInv
  <1>14. AcceptedInv
    BY <1>1, NoneTaken DEF AcceptedInv
  <1> QED
    BY <1>4, <1>5, <1>6, <1>7, <1>8, <1>9, <1>10, <1>11, <1>12, <1>13, <1>14 DEF Inv, Types

LEMMA InvKept == Inv /\ [Next]_vars => Inv'
  BY TypesKept, WaitKept, HolderKept, EpochKept, ClearedKept, LengthKept, BatchKept,
     ChainKept, AcceptedKept, JournalKept, AgreementKept, ReceivedKept DEF Inv

LEMMA Invariance == Spec => []Inv
  BY InvInit, InvKept, PTL DEF Spec

-----------------------------------------------------------------------------
(***************************************************************************)
(* The theorems.                                                           *)
(***************************************************************************)
LEMMA Generations ==
    ASSUME Inv
    PROVE  att.gen \in Gens /\ \A g \in Nat : g <= att.gen => g \in Gens
  <1>1. att.ent \in 0..MaxEnts /\ MaxEnts \in Nat /\ EpochInv
    BY OfflineAssumption DEF Inv, Types, ServerTypes, Attempts
  <1>2. att.gen \in Gens
    <2>1. CASE att.ent # 0
      BY <1>1, <2>1 DEF EpochInv, Gens
    <2>2. CASE att.ent = 0
      BY <1>1, <2>2 DEF EpochInv, Gens
    <2> QED
      BY <2>1, <2>2
  <1> QED
    BY <1>1, <1>2 DEF Gens

\* The variables have their types, for every number of entitlements; a generation is
\* at most twice their number (scorm_attempt, offline_learning_entitlement, the
\* trusted store).
THEOREM TypeCorrect == Spec => []TypeOK
  <1>1. Inv => TypeOK
    <2> SUFFICES ASSUME Inv
                 PROVE  TypeOK
      OBVIOUS
    <2>1. Types /\ EpochInv
      BY DEF Inv
    <2>2. att \in [mode : {"online", "offline"}, ent : 0..MaxEnts, gen : Gens, rev : Nat,
                   started : BOOLEAN, done : BOOLEAN, time : 0..MaxTime]
      BY <2>1, Generations DEF Types, ServerTypes, Attempts
    <2>3. token \in Gens \cup {NoToken} /\ sess \subseteq Gens
      BY <2>1, Generations DEF Types, ServerTypes, EpochInv
    <2>4. ent \in [Ents -> [status : {"none", "active", "resolved"},
                            res : {"none", "reconciled", "discarded"},
                            cleanup : {"none", "pending", "clearing", "cleared"},
                            gen : Gens, inst : 0..MaxEnts, base : Nat, cursor : Nat,
                            init : Snapshots]]
      <3>1. \A e \in Ents : ent[e] \in Entitlements /\ ent[e].gen \in Gens
        <4>1. \A e \in Ents : ent[e] \in Entitlements /\ ent[e].gen <= att.gen
          BY <2>1 DEF Types, ServerTypes, EpochInv
        <4>2. \A e \in Ents : ent[e].gen \in Nat
          BY <4>1 DEF Entitlements
        <4> QED
          BY <4>1, <4>2, Generations
      <3>2. \A e \in Ents : ent[e] \in
               [status : {"none", "active", "resolved"},
                res : {"none", "reconciled", "discarded"},
                cleanup : {"none", "pending", "clearing", "cleared"},
                gen : Gens, inst : 0..MaxEnts, base : Nat, cursor : Nat,
                init : Snapshots]
        BY <3>1 DEF Entitlements
      <3> QED
        BY <2>1, <3>2 DEF Types, ServerTypes
    <2>5. \A e \in Ents : \A k \in DOMAIN receipts[e] : receipts[e][k].outcome \in Outcomes
      <3>1. \A e \in Ents : \A k \in DOMAIN receipts[e] : receipts[e][k] \in Receipts
        BY <2>1 DEF Types, ServerTypes
      <3> QED
        BY <3>1 DEF Receipts
    <2>6. idx.state \in {"none", "activating", "downloading", "ready", "blocked", "removing"}
      BY <2>1 DEF Types, DeviceTypes, Cards
    <2>7. \A k \in DOMAIN journal :
             journal[k] \in [status : {"signing", "pending", "acknowledged", "discarded"},
                             outcome : Outcomes \cup {"none"}]
      <3>1. journal \in Seq(Records)
        BY <2>1 DEF Types, DeviceTypes
      <3>2. \A k \in DOMAIN journal : journal[k] \in Records
        BY <3>1
      <3> QED
        BY <3>2 DEF Records
    <2> QED
      BY <2>1, <2>2, <2>3, <2>4, <2>5, <2>6, <2>7 DEF TypeOK, Types, ServerTypes, DeviceTypes
  <1> QED
    BY <1>1, Invariance, PTL

\* The journal of the device and the receipts of the server agree, however often a
\* batch is cut, lost or answered again (reconcileOfflineScormProgress, putReceipt).
THEOREM JournalAgrees == Spec => []ReceiptsAgree
  <1>1. Inv => ReceiptsAgree
    BY DEF Inv
  <1> QED
    BY <1>1, Invariance, PTL

LEMMA AcceptedTaken ==
    ASSUME NEW e \in Ents
    PROVE  Cardinality(Accepted(e)) = TakenIn(receipts[e])
  BY DEF Accepted, TakenIn

\* No commit is counted twice and none is passed over: while an entitlement holds the
\* attempt, the total time on the server is what it was handed over with and the time
\* of each accepted commit (reconcileOfflineScormProgress).
THEOREM TimeCounted == Spec => []TimeExact
  <1>1. Inv => TimeExact
    <2> SUFFICES ASSUME Inv, NEW e \in Ents, ent[e].status = "active",
                        NEW n, n = Cardinality(Accepted(e))
                 PROVE  /\ att.time = ProgressAt(e, n).time
                        /\ \A k \in 1..n : ProgressAt(e, k).time
                                             = ProgressAt(e, k - 1).time + commits[e][k].delta
      BY DEF TimeExact
    <2>1. att.ent = e /\ e # 0
      BY DEF Inv, HolderInv, Ents
    <2>2. n = TakenIn(receipts[e])
      BY AcceptedTaken
    <2>3. att.time = ProgressAt(e, n).time
      <3>1. [done |-> att.done, time |-> att.time] = ProgressAt(e, n)
        BY <2>1, <2>2 DEF Inv, AcceptedInv
      <3>2. [done |-> att.done, time |-> att.time].time = att.time
        OBVIOUS
      <3> QED
        BY <3>1, <3>2
    <2>4. n \in Nat /\ n <= Len(commits[e])
      <3>1. n \in 0..Len(receipts[e]) /\ Len(receipts[e]) <= Len(commits[e])
        BY <2>2 DEF Inv, AcceptedInv, InOrder
      <3>2. Len(receipts[e]) \in Nat /\ Len(commits[e]) \in Nat
        BY DEF Inv, Types, ServerTypes, DeviceTypes
      <3> QED
        BY <3>1, <3>2
    <2>5. ASSUME NEW k \in 1..n
          PROVE  ProgressAt(e, k).time = ProgressAt(e, k - 1).time + commits[e][k].delta
      <3>1. k \in 1..Len(commits[e]) /\ k # 0
        <4>1. Len(commits[e]) \in Nat
          BY DEF Inv, Types, DeviceTypes
        <4> QED
          BY <2>4, <4>1
      <3>2. Follows(e, k)
        BY <3>1 DEF Inv, ChainInv
      <3>3. ProgressAt(e, k).time = commits[e][k].time
        BY <3>1 DEF ProgressAt
      <3> QED
        BY <3>2, <3>3 DEF Follows
    <2> QED
      BY <2>3, <2>5
  <1> QED
    BY <1>1, Invariance, PTL

\* A device that holds the attempt, and whose commits are all acknowledged without a
\* refusal, shows the progress the server has (acceptSyncResult, putReceipt).
THEOREM SyncedShowsServer == Spec => []SyncedMeansEqual
  <1>1. Inv => SyncedMeansEqual
    <2> SUFFICES ASSUME Inv, loc.ent # 0, ent[loc.ent].status = "active", Terminal = {},
                        \A k \in DOMAIN journal : journal[k].status = "acknowledged"
                 PROVE  loc.snap = [done |-> att.done, time |-> att.time]
      BY DEF SyncedMeansEqual
    <2>1. PICK e \in Ents : e = loc.ent
      BY DEF Inv, Types, DeviceTypes, Ents
    <2>2. PICK n : n = Len(journal)
      OBVIOUS
    <2>3. /\ n \in Nat /\ DOMAIN journal = 1..n /\ n = Len(commits[e])
          /\ \A k \in 1..n : journal[k] \in Records
      BY <2>1, <2>2 DEF Inv, Types, DeviceTypes, LengthInv
    <2>4. \A k \in 1..n : journal[k].outcome = "accepted"
      <3>1. \A k \in 1..n : /\ journal[k].outcome # "none"
                            /\ journal[k].outcome \notin {"rejected", "conflict"}
        BY <2>2, <2>3 DEF Inv, JournalInv, Consistent, Terminal
      <3>2. \A k \in 1..n : journal[k].outcome \in Outcomes \cup {"none"}
        BY <2>3 DEF Records
      <3> QED
        BY <3>1, <3>2 DEF Outcomes
    <2>5. \A k \in 1..n : k \in Accepted(e)
      BY <2>1, <2>3, <2>4 DEF Inv, ReceiptsAgree, Accepted
    <2>6. TakenIn(receipts[e]) = n
      <3>1. /\ Accepted(e) = 1..TakenIn(receipts[e])
            /\ TakenIn(receipts[e]) \in 0..Len(receipts[e])
            /\ Len(receipts[e]) <= n
        BY <2>3 DEF Inv, AcceptedInv, InOrder, Accepted
      <3>2. PICK t : t = TakenIn(receipts[e])
        OBVIOUS
      <3>3. Len(receipts[e]) \in Nat
        BY DEF Inv, Types, ServerTypes
      <3>4. t \in Nat /\ t <= n
        BY <2>3, <3>1, <3>2, <3>3
      <3>5. \A k \in 1..n : k \in 1..t
        BY <2>5, <3>1, <3>2
      <3>6. CASE n = 0
        BY <3>2, <3>4, <3>6
      <3>7. CASE n # 0
        <4>1. n \in 1..n
          BY <2>3, <3>7
        <4>2. n \in 1..t
          BY <3>5, <4>1
        <4> QED
          BY <2>3, <3>2, <3>4, <4>2
      <3> QED
        BY <3>6, <3>7
    <2>7. att.ent = e /\ e # 0
      BY <2>1 DEF Inv, HolderInv, Ents
    <2>8. [done |-> att.done, time |-> att.time] = ProgressAt(e, n)
      BY <2>6, <2>7 DEF Inv, AcceptedInv
    <2>9. loc.snap = ProgressAt(e, n)
      BY <2>1, <2>3 DEF Inv, ChainInv, Has
    <2> QED
      BY <2>8, <2>9
  <1> QED
    BY <1>1, Invariance, PTL

\* Completion, once reported, is never taken back, by the online player, a batch of
\* offline commits, or a change of hands (recordScormProgress,
\* reconcileOfflineScormProgress).
THEOREM CompletionKept == Spec => CompletionSticks
  <1>1. Inv /\ [Next]_vars => [att.done => att'.done]_att
    <2> SUFFICES ASSUME Inv, [Next]_vars, att.done
                 PROVE  att'.done
      OBVIOUS
    <2>1. ASSUME NEW r \in req, NEW s \in Transactions, TakesIn(r, s)
          PROVE  att'.done
      BY <2>1, BatchFrame
    <2> QED
      BY <2>1, ServerSteps DEF Played, HandsOver, GivesBack, Clearing
  <1> QED
    BY <1>1, Invariance, PTL DEF Spec, CompletionSticks

-----------------------------------------------------------------------------
(***************************************************************************)
(* The refinement: every step is a step of AttemptWriter, or none.         *)
(***************************************************************************)
Progress == [done |-> att.done, time |-> att.time]
Recorded(e) == [k \in DOMAIN commits[e] |->
                   [done |-> commits[e][k].done, time |-> commits[e][k].time]]
Evidence == [e \in Ents |-> Recorded(e)]
Taken == [e \in Ents |-> Cardinality(Accepted(e))]

LEMMA TakenSame ==
    ASSUME receipts' = receipts
    PROVE  Taken' = Taken
  BY DEF Taken, Accepted

LEMMA WriterInit ==
    ASSUME Init
    PROVE  Writer!Init
  <1>1. /\ att.ent = 0 /\ att.gen = 0 /\ att.done = FALSE /\ att.time = 0
        /\ commits = [e \in Ents |-> << >>] /\ receipts = [e \in Ents |-> << >>]
    BY DEF Init
  <1>2. \A e \in Ents : [k \in DOMAIN commits[e] |->
                            [done |-> commits[e][k].done, time |-> commits[e][k].time]]
                          = << >>
    BY <1>1
  <1>3. \A e \in Ents : Cardinality(Accepted(e)) = 0
    BY <1>1, NoneTaken, AcceptedTaken
  <1> QED
    BY <1>1, <1>2, <1>3 DEF Writer!Init

\* The evidence after one more commit.
LEMMA EvidenceGrows ==
    ASSUME NEW e \in Ents, NEW x \in Entries, commits \in [Ents -> Seq(Entries)],
           commits' = [commits EXCEPT ![e] = Append(@, x)]
    PROVE  Evidence' = [Evidence EXCEPT ![e] = Append(@, [done |-> x.done, time |-> x.time])]
  <1>1. PICK c, n : c = commits[e] /\ n = Len(c)
    OBVIOUS
  <1>2. c \in Seq(Entries) /\ n \in Nat /\ DOMAIN c = 1..n
    BY <1>1
  <1>3. /\ commits'[e] = Append(c, x) /\ DOMAIN commits'[e] = 1..(n + 1)
        /\ \A k \in 1..n : commits'[e][k] = c[k]
        /\ commits'[e][n + 1] = x
    BY <1>1, <1>2
  <1>4. PICK y : y = [done |-> x.done, time |-> x.time]
    OBVIOUS
  <1>5. PICK v : v = Recorded(e)
    OBVIOUS
  <1>6. /\ v = [k \in 1..n |-> [done |-> c[k].done, time |-> c[k].time]]
        /\ v \in Seq(Snapshots) /\ Len(v) = n
    <2>1. v = [k \in 1..n |-> [done |-> c[k].done, time |-> c[k].time]]
      BY <1>1, <1>2, <1>5 DEF Recorded
    <2>2. \A k \in 1..n : [done |-> c[k].done, time |-> c[k].time] \in Snapshots
      <3>1. \A k \in 1..n : c[k] \in Entries
        BY <1>2
      <3>2. \A z \in Entries : [done |-> z.done, time |-> z.time] \in Snapshots
        BY DEF Entries, Snapshots
      <3> QED
        BY <3>1, <3>2
    <2>3. v \in [1..n -> Snapshots]
      BY <2>1, <2>2
    <2> QED
      BY <1>2, <2>1, <2>3
  <1>7. /\ Append(v, y) \in Seq(Snapshots \cup {y}) /\ Len(Append(v, y)) = n + 1
        /\ \A k \in 1..n : Append(v, y)[k] = v[k]
        /\ Append(v, y)[n + 1] = y
    BY <1>2, <1>6
  <1>8. Recorded(e)' = Append(v, y)
    <2>1. Recorded(e)' = [k \in 1..(n + 1) |->
                             [done |-> commits'[e][k].done, time |-> commits'[e][k].time]]
      BY <1>3 DEF Recorded
    <2>2. \A k \in 1..(n + 1) :
             Append(v, y)[k] = [done |-> commits'[e][k].done, time |-> commits'[e][k].time]
      <3>1. \A k \in 1..(n + 1) : k \in 1..n \/ k = n + 1
        BY <1>2
      <3> QED
        BY <1>3, <1>4, <1>6, <1>7, <3>1
    <2>3. DOMAIN Append(v, y) = 1..(n + 1)
          /\ Append(v, y) = [k \in 1..(n + 1) |-> Append(v, y)[k]]
      <3>1. PICK z : z = Append(v, y)
        OBVIOUS
      <3>2. z \in Seq(Snapshots \cup {y}) /\ Len(z) = n + 1
        BY <1>7, <3>1
      <3>3. DOMAIN z = 1..(n + 1) /\ z = [k \in DOMAIN z |-> z[k]]
        BY <3>2
      <3> QED
        BY <3>1, <3>3
    <2>4. [k \in 1..(n + 1) |-> Append(v, y)[k]]
            = [k \in 1..(n + 1) |->
                  [done |-> commits'[e][k].done, time |-> commits'[e][k].time]]
      BY <2>2
    <2> QED
      BY <2>1, <2>3, <2>4
  <1>9. \A f \in Ents : f # e => Recorded(f)' = Recorded(f)
    BY DEF Recorded
  <1> QED
    BY <1>4, <1>5, <1>8, <1>9 DEF Evidence

\* A batch applies the next entries of the holder, or changes nothing.
LEMMA BatchWrites ==
    ASSUME Inv, [Next]_vars, NEW r \in req, NEW s \in Transactions, TakesIn(r, s),
           commits' = commits
    PROVE  \/ att'.ent = att.ent /\ att'.gen = att.gen /\ Progress' = Progress
              /\ Taken' = Taken
           \/ /\ att.ent # 0 /\ att'.ent = att.ent /\ att'.gen = att.gen
              /\ \E n \in (Taken[att.ent] + 1)..Len(Evidence[att.ent]) :
                    /\ Taken' = [Taken EXCEPT ![att.ent] = n]
                    /\ Progress' = Evidence[att.ent][n]
  <1>1. PICK e \in Ents : e = r.ent
    BY BatchFrame
  <1>2. /\ receipts'[e] = s.rs /\ \A f \in Ents \ {e} : receipts'[f] = receipts[f]
        /\ att'.ent = att.ent /\ att'.gen = att.gen /\ att' = s.a
    <2>1. att' = s.a
      BY DEF TakesIn
    <2> QED
      BY <1>1, <2>1, BatchFrame
  <1>3. PICK m, n : m = TakenIn(receipts[e]) /\ n = TakenIn(s.rs)
    OBVIOUS
  <1>4. /\ m \in Nat /\ n \in Nat /\ m <= n /\ n <= Len(commits[e])
        /\ Len(commits[e]) \in Nat
    <2>1. /\ s.rs \in Seq(Receipts) /\ receipts[e] \in Seq(Receipts)
          /\ commits[e] \in Seq(Entries)
      BY DEF Transactions, Inv, Types, ServerTypes, DeviceTypes
    <2>2. /\ n \in 0..Len(s.rs) /\ m \in 0..Len(receipts[e]) /\ n >= m
          /\ Len(s.rs) \in Len(receipts[e])..Len(commits[e])
      BY <1>1, <1>3 DEF TakesIn, Turn, InOrder, Inv, AcceptedInv
    <2> QED
      BY <2>1, <2>2
  <1>5. Taken \in [Ents -> Nat] /\ Taken[e] = m /\ Taken' = [Taken EXCEPT ![e] = n]
    <2>1. \A f \in Ents : Cardinality(Accepted(f)) \in Nat
      <3>1. \A f \in Ents : TakenIn(receipts[f]) \in 0..Len(receipts[f])
                            /\ Len(receipts[f]) \in Nat
        BY DEF Inv, AcceptedInv, InOrder, Types, ServerTypes
      <3> QED
        BY <3>1, AcceptedTaken
    <2>2. Cardinality(Accepted(e)') = n
      BY <1>2, <1>3 DEF Accepted, TakenIn
    <2>3. \A f \in Ents \ {e} : Accepted(f)' = Accepted(f)
      BY <1>2 DEF Accepted
    <2> QED
      BY <1>3, <2>1, <2>2, <2>3, AcceptedTaken DEF Taken
  <1>6. CASE att.ent # e
    <2>1. s.a = att /\ n = m
      BY <1>1, <1>3, <1>6 DEF TakesIn, Turn
    <2>2. Taken' = Taken
      BY <1>5, <2>1
    <2> QED
      BY <1>2, <2>1, <2>2 DEF Progress
  <1>7. CASE att.ent = e
    <2>1. Progress' = ProgressAt(e, n) /\ Progress = ProgressAt(e, m) /\ e # 0
      BY <1>1, <1>2, <1>3, <1>7 DEF TakesIn, Turn, Progress, Inv, AcceptedInv, Ents
    <2>2. CASE n = m
      <3>1. Taken' = Taken
        BY <1>5, <2>2
      <3> QED
        BY <1>2, <2>1, <2>2, <3>1
    <2>3. CASE n # m
      <3>1. n \in (m + 1)..Len(commits[e]) /\ n # 0 /\ n \in DOMAIN commits[e]
        BY <1>4, <2>3 DEF Inv, Types, DeviceTypes
      <3>2. Evidence[e] = Recorded(e) /\ Len(Recorded(e)) = Len(commits[e])
        <4>1. DOMAIN Recorded(e) = 1..Len(commits[e])
          BY DEF Recorded, Inv, Types, DeviceTypes
        <4> QED
          BY <1>4, <4>1 DEF Evidence
      <3>3. Evidence[e][n] = ProgressAt(e, n)
        BY <3>1, <3>2 DEF Recorded, ProgressAt
      <3> QED
        BY <1>2, <1>5, <1>7, <2>1, <3>1, <3>2, <3>3
    <2> QED
      BY <2>2, <2>3
  <1> QED
    BY <1>6, <1>7

LEMMA WriterStep ==
    ASSUME Inv, [Next]_vars
    PROVE  [Writer!Next]_(Writer!writerVars)
  <1>1. /\ HolderInv /\ att \in Attempts /\ att' \in Attempts /\ 0 \notin Ents
        /\ commits \in [Ents -> Seq(Entries)]
    BY TypesKept DEF Inv, Types, ServerTypes, DeviceTypes, Ents
  <1>2. ASSUME att'.ent = att.ent, att'.gen = att.gen, Progress' = Progress,
               commits' = commits, Taken' = Taken
        PROVE  UNCHANGED Writer!writerVars
    BY <1>2 DEF Writer!writerVars, Progress, Taken
  <1>3. CASE loc' = loc /\ commits' = commits /\ journal' = journal
    <2>1. CASE Played
      <3>1. /\ att'.ent = att.ent /\ att'.gen = att.gen /\ Taken' = Taken
            /\ att.done => att'.done
        BY <2>1, TakenSame DEF Played
      <3>2. CASE att.mode = "offline"
        BY <1>2, <1>3, <2>1, <3>1, <3>2 DEF Played, Progress
      <3>3. CASE att.mode # "offline"
        <4>1. att.ent = 0 /\ Progress' \in Snapshots
          BY <1>1, <3>3 DEF HolderInv, Attempts, Progress, Snapshots
        <4>2. Writer!Online
          BY <1>3, <3>1, <4>1 DEF Writer!Online, Progress, Taken
        <4> QED
          BY <4>2 DEF Writer!Next
      <3> QED
        BY <3>2, <3>3
    <2>2. ASSUME NEW e \in Ents, HandsOver(e)
          PROVE  Writer!Delegate(e)
      <3>1. att.ent = 0 /\ commits[e] = << >>
        BY <1>1, <2>2 DEF HandsOver, HolderInv
      <3>2. Evidence[e] = << >>
        BY <3>1 DEF Evidence, Recorded
      <3>3. Taken' = Taken /\ Evidence' = Evidence /\ Progress' = Progress
        BY <1>3, <2>2, TakenSame DEF HandsOver, Evidence, Recorded, Progress
      <3>4. att'.ent = e /\ att'.gen = att.gen + 1
        BY <2>2 DEF HandsOver
      <3> QED
        BY <3>1, <3>2, <3>3, <3>4 DEF Writer!Delegate, Evidence, Recorded, Progress, Taken
    <2>3. ASSUME NEW e \in Ents, GivesBack(e)
          PROVE  Writer!Return
      <3>1. att.ent # 0 /\ att'.ent = 0 /\ att'.gen = att.gen + 1
        BY <1>1, <2>3 DEF GivesBack
      <3>2. Taken' = Taken /\ Evidence' = Evidence /\ Progress' = Progress
        BY <1>3, <2>3, TakenSame DEF GivesBack, Evidence, Recorded, Progress
      <3> QED
        BY <3>1, <3>2 DEF Writer!Return, Evidence, Recorded, Progress, Taken
    <2>4. ASSUME NEW e \in Ents, Clearing(e)
          PROVE  UNCHANGED Writer!writerVars
      BY <1>2, <1>3, <2>4, TakenSame DEF Clearing, Progress
    <2>5. ASSUME NEW r \in req, NEW s \in Transactions, TakesIn(r, s)
          PROVE  [Writer!Next]_(Writer!writerVars)
      <3>1. CASE att'.ent = att.ent /\ att'.gen = att.gen /\ Progress' = Progress
                 /\ Taken' = Taken
        BY <1>2, <1>3, <3>1
      <3>2. CASE /\ att.ent # 0 /\ att'.ent = att.ent /\ att'.gen = att.gen
                 /\ \E n \in (Taken[att.ent] + 1)..Len(Evidence[att.ent]) :
                       /\ Taken' = [Taken EXCEPT ![att.ent] = n]
                       /\ Progress' = Evidence[att.ent][n]
        <4>1. Evidence' = Evidence
          BY <1>3 DEF Evidence, Recorded
        <4>2. Writer!Offline
          BY <3>2, <4>1 DEF Writer!Offline, Evidence, Recorded, Progress, Taken
        <4> QED
          BY <4>2 DEF Writer!Next
      <3> QED
        BY <1>3, <2>5, <3>1, <3>2, BatchWrites
    <2> QED
      BY <2>1, <2>2, <2>3, <2>4, <2>5, ServerSteps DEF Writer!Next
  <1>4. CASE att' = att /\ receipts' = receipts
    <2>1. Taken' = Taken /\ Progress' = Progress
      BY <1>4, TakenSame DEF Progress
    <2>2. CASE commits' = commits
      BY <1>2, <1>4, <2>1, <2>2
    <2>3. ASSUME NEW x \in Entries, Reserves(x)
          PROVE  Writer!Record(loc.ent)
      <3>1. loc.ent \in Ents /\ commits' = [commits EXCEPT ![loc.ent] = Append(@, x)]
        BY <2>3 DEF Reserves
      <3>2. PICK y : y = [done |-> x.done, time |-> x.time]
        OBVIOUS
      <3>3. Evidence' = [Evidence EXCEPT ![loc.ent] = Append(@, y)]
        BY <1>1, <3>1, <3>2, EvidenceGrows
      <3>4. y \in Snapshots
        BY <3>2 DEF Entries, Snapshots
      <3> QED
        BY <1>4, <2>1, <3>3, <3>4 DEF Writer!Record, Evidence, Recorded, Progress, Taken
    <2>4. (\E x \in Entries : Reserves(x)) \/ commits' = commits
      BY DeviceSteps DEF Signs, Acknowledges, Discards, TakesUp, GivesUp
    <2>5. CASE \E x \in Entries : Reserves(x)
      <3>1. PICK x \in Entries : Reserves(x)
        BY <2>5
      <3>2. PICK e \in Ents : e = loc.ent
        BY <3>1 DEF Reserves
      <3>3. Writer!Record(loc.ent)
        BY <2>3, <3>1
      <3>4. Writer!Record(e)
        BY <3>2, <3>3 DEF Writer!Record
      <3> QED
        BY <3>4 DEF Writer!Next
    <2> QED
      BY <2>2, <2>4, <2>5
  <1> QED
    BY <1>3, <1>4, DeviceSteps

\* One writer at a time, and every commit applied in its order, once and without gaps:
\* the attempt, the entitlements, the batches and the device implement AttemptWriter
\* (docs/adr/0042).
THEOREM OneWriterInOrder == Spec => WriterSpec
  BY WriterInit, WriterStep, Invariance, PTL DEF Spec, WriterSpec, Writer!Spec

=============================================================================
