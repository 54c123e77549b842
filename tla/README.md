# Upskill: TLA+ models, checks and proofs

Upskill is a learning platform: a TanStack Start web application and a worker
process over one PostgreSQL database, with Stripe for payments, SQS for queued
work, S3 for SCORM packages and recordings, an email and an SMS provider, and
LiveKit for virtual rooms. This directory holds TLA+ models of the parts of it
where several processes, transactions and external services meet, TLC
configurations that check them on small instances, and TLAPS proofs of some of
the properties for every instance. Paths below are relative to the repository.

Contents: [inventory](#1-inventory), [modules](#2-modules-and-the-code),
[runs](#3-runs), [fairness](#4-fairness), [proofs](#5-proofs),
[disagreements](#6-where-the-code-and-the-documents-disagree),
[limits](#7-what-is-not-modelled), [plan](#8-plan).

## 1. Inventory

State lives in PostgreSQL; every operation is one or several transactions, each
preceded or followed by awaits on other services. A request or worker may die
between any two of them. Row locks (`FOR UPDATE`, with `SKIP LOCKED` in the
workers) and conditional `UPDATE`s are the only synchronisation.

| Component | State | Operations | Talks to | Hard part | Correct when |
|---|---|---|---|---|---|
| Transactional outbox (`server/outbox`) | `outbox_event`: attempts, availableAt, processedAt | store (in a domain transaction), claim, hand over, complete, back off | SQS, audit log | crash after the send, lease expiry, concurrent claims | nothing stored is lost; a late worker cannot disturb a newer claim |
| SQS queue and consumer (`server/queue`, `scorm-ingestion-consumer`) | messages, visibility, receive counts | send, receive, heartbeat, delete, redrive | every queued handler | duplicates, expiry under a live worker | a message goes only after its work is done |
| Email notifications (`server/notifications`) | `notification`: status, attempts; `notification_delivery_attempt` | enqueue, deliver, requeue, supersede | outbox, queue, provider | ambiguous sends, takeover after the timeout, stale reads | settled is final, outcomes have evidence, work is not stranded |
| SCORM packages (`server/scorm`, `admin-scorm`) | `scorm_package_version`, quarantine and content prefixes | stage, register, ingest, reject, refer, remove, clean up | S3, outbox, queue, courses | duplicate ingestions, removal racing ingestion, partial uploads | what is served is complete, removed storage is reclaimed |
| Checkout and webhooks (`server/checkout`) | `order`, `order_item`, `bulk_order` | four kinds of checkout, fulfil, fail | Stripe, grants, registrations | webhooks late, repeated, reordered; requests that die; reservations that lapse | every payment is honoured once, no failed order is paid |
| Access grants and codes (`server/access`, `admin-access-grant`) | `access_grant`: quantity, redeemed; codes | create, extend, redeem, revoke | checkout, registrations, enrolments | concurrent redemptions and extensions | places = paid places, codes = places |
| Event places (`confirmed-event-registration`, `event-commerce-capacity`) | `event_occurrence.confirmedCount`, `event_registration` | reserve, confirm, withdraw | checkout, codes | counting reserved places in two statements | the count is exact and within capacity |
| Refunds (`refund-fulfillment`) | `order_refund`, `order.refundedCents`, status | record a refund event | Stripe | snapshots out of order, early, repeated | rows follow Stripe, the order follows its rows |
| Worker loop (`src/worker`) | none | one iteration after the other | all worker components | one step starving or killing the others | every component gets its turn |
| Scheduled communications (`event-communication-execution`) | `event_communication_schedule`: status, attempts, lease, revision | refresh on publication, reschedule and revision; claim, send, defer, retry, fail, supersede | notifications, events | reschedules racing a claim, leases that run out, a deferral gives an attempt number back | nobody is mailed twice, nothing stale is sent |
| Event registration and decisions (`learner-event`, `admin-event-registration-operations`, `admin-event-occurrence`) | `event_registration`, review rounds with dates and locks, `confirmedCount`, operational schedules | register, add, review, decide, withdraw, reassign, attend, lock a list, reschedule, retire regions, cancel | communications, the worker | locks by hand, by time and by the worker; dates that move under all of them; an advisory lock only some take | the count is exact, a list that is over stays over, its lock is announced once |
| Late invitations (`event-late-registration-invitation`) | invitation per person | invite, replace, revoke, accept, reconcile after a reschedule | registration | reopening while invitations are out | they bypass the public cutoff and nothing else |
| Enterprise contracts (`server/enterprise`) | contract, codes, claims, coverage | claim, enrol, revoke | enrolments, events | coverage changes under claims | a claim is enrolled once |
| SCORM attempts and offline entitlements (`server/scorm`) | attempt (writer, generation, revision, progress), launch tokens, sessions, entitlements, receipts, installations | launch, save progress, register and activate a device, issue, recover, reconcile a batch, resolve, clean up | browser, device | two writers, repeated and partial batches, lost answers | one writer at a time, each commit counts once and in order |
| Offline application (`offline-scorm`, `features/scorm`) | course index, trusted store with journal and signing key, package record, spool of the package site | install, launch, play, synchronise, resolve, remove, bootstrap | the server, the package site | a page killed between two stores, requests that outlive their page | the journal agrees with the receipts, nothing is shown as synchronised that is not |
| Virtual rooms (`event-virtual-room`) | rooms by generation, `event_virtual_room_operation`: status, attempts, lease | ensure, start, end, close, issue join tokens, compensate | LiveKit | leases that run out during a call, tokens that outlive the room, compensation by a worker that dies | only ended rooms are closed, no room stays open |
| Recordings and receipts (`event-virtual-room`, `event-virtual-recording-receipts`) | `event_virtual_recording`, receipts of webhooks | request, start, stop, reconcile, receive | LiveKit | a start without an answer; webhooks late, twice and out of order | recorded once, the outcome is LiveKit's |
| Lobby, attendance, CloudFront allocations, recovery codes | entries, intervals, leased provider work | admit, revoke, reconcile, allocate, send | LiveKit, CloudFront, SMS | leases, crashes before a send | |
| Accounts, onboarding, contact verification (`server/identity`, `onboarding`) | setup requests, challenges | request, refresh, verify, complete | notifications | superseding what is being sent | a token works once |
| Surveys, resources, certificates; authoring and publication; catalogue, reports, audit | content and results | single transactions, reads | | none across transactions | |
| Web client, deployment, adapters | | | | | |

The hazards this leads to are listed, at their lines, in `PROJECT.json`.

## 2. Modules and the code

Each action is one transaction or one await of the code together with the
assignments that follow it; `PROJECT.json` maps every definition to its lines.

### Outbox and Handoff

`Outbox` is `dispatchNextOutboxEvent`, run by several workers. `Select` opens the
claim transaction and locks the due rows that others have not locked; `Claim`
commits it with the attempt counted and `availableAt` a lease ahead. `HandOver`,
`HandOverFails` and `AnswerLost` are the outcomes of the send; `Complete` and
`BackOff` are the `UPDATE`s fenced by the attempt number (`Fenced`);
`CompleteThrows` is a completion that fails after the send and falls into the
catch block; `Crash` stops a worker anywhere. `wait[e]` is the time left until
`availableAt`, so time is relative and bounded by `Horizon`. `Store` and
`Withdraw` are the producers' inserts and the deletion of unprocessed ingestion
rows by SCORM removal. `Handoff` is the abstract promise: stored rows are handed
over one or more times, and marked done only afterwards. `Outbox` implements it
with `copies <- handed`, `done <- processed`.

### WorkQueue

SQS as `sqs.server.ts` uses it (external) and `consumeNextWorkMessage`: receive,
heartbeat, delete after the handler returned, leave to the visibility timeout
after it threw, redrive after `MaxReceives`. A receipt is the receive count it
came with; a delete with an old receipt may or may not work.
The clock stands still while a handler runs, which is what its heartbeat is for,
except `MaxLate` times: then a message becomes visible under a worker that is alive.
`late` counts these, so that a property can say what holds until the first one.

### NotificationDelivery

Extends `WorkQueue` with `deliverNotification`, one action per await: the
unlocked `Read`, the conditional `Claim` (with the attempt number of the earlier
read), `Recheck` of a refused claim, the applicability `Check`, `Render`, the
provider's three answers, `Record`, and the catch block `Fail`. Beside it:
`enqueueEmailNotification`, `requeueFailedNotification` and
`refreshAccountSetupRequest`. The applicability queries are one Boolean
per notification that may turn false at any time; rendering is left out.

### ScormIngestion

Extends `WorkQueue` with staging (`PutQuarantine`, `Register`, and the failure
path with its cleanup), the ingestion handler await by await (`ReadVersion`,
`MarkProcessing`, `Fetch`, `UploadSome`, `UploadRest`, `Publish`, or `Invalid`,
`DiscardContent`, `MarkRejected`), the deletion handler, references from course
items, and `removeAdminScormPackageVersion`. A content prefix is empty, partial
or full; whether an archive passes `processScormArchive` is chosen when it is uploaded. A
registration whose commit succeeds although its answer is lost is not modelled.

### Checkout

The four checkout creations, Stripe sessions, the webhooks, grants, codes and the
places of one occurrence. The reservation transaction takes two steps
(`LockAndCountPending`, `ReservePlaces`) because `findReservedEventPlaces` counts
pending orders and grants with two statements under READ COMMITTED, and a bulk
fulfilment, which locks the order and the grant but not the occurrence, may
commit in between. All other transactions that lock the occurrence are single
steps that wait for `locker = Nobody`. Stripe sessions end `paid`, `declined` or
`expired` and stay so; a webhook may be handled at any time and any number of
times after that. `CreateSessionFails` and `MarkCreationFailed` are the catch
block, with a session that may exist at Stripe all the same. An order is
purchased for the one event or the one course of the model.

### OrderRefunds

One order and its refunds. Stripe's events are pairs of a refund and its status
at that time, and arrive in any order, early or late, once or again.
`RefundIgnored`, `RefundAlreadyRecorded` and `RefundRecorded` are the results of
`recordStripeRefund`; an event whose total would exceed the order is not enabled, which is the exception that makes Stripe try again.

### ScheduleQueue and EventCommunications

`ScheduleQueue` is the claim of a schedule row, its lease, its attempt number, the
retry and the final failure, shared by the two schedule tables of the code. A claim
and the work are two transactions; the second locks the row and goes on only if it
still has that attempt. `EventCommunications` extends it with the plan of one event:
publication, reschedules, revisions of a communication, completion, cancellation and
archiving, each with the refresh that supersedes and creates schedules before it
commits, and the worker's three results: sent, deferred, or nothing to do any more.
`dates` and `revision` are counters, and the email itself is a counter per
communication.

### EventRegistration

The free ways to a place of one event: registration in the manual and the automatic
mode, administrators' additions, late invitations, coordinators' and final decisions,
withdrawals, attendance, reassignment, and the dates that govern them. A date is a
window: `registrationClosesAt` and `coordinatorLockAt` of the occurrence and of every
review round point at one, and `Tick` passes the next of its two dates. `Reschedule`
has the three window policies, the new rounds of a reopening, the retirement of
regions with their registrations, and the reconciliation of invitations. The worker's
claim is that of `ScheduleQueue`; its effect is the single step `Process`. An
administrator's lock of a list is two steps (`LockBegin`, `LockCommit`), because its
advisory lock does not hold the worker off between the read and the write.

### AttemptWriter and OfflineScorm

`AttemptWriter` is the promise of docs/adr/0042: one holder of the attempt, a new
epoch at each change of hands, evidence applied in its order and without gaps.
`OfflineScorm` is one attempt with the server's handlers, the network and the device,
and implements it (`writer <- att.ent`, `evidence` from the journal, `taken` from the
accepted receipts). A server handler is a step. The page runs one operation at a
time; every transaction on one of its stores is a step, and `Crash` may come between
any two. A request that was sent before may still arrive afterwards, and its answer
be lost. A snapshot of the progress is its completion and total time. The loop of
`reconcileOfflineScormProgress` over a batch is a recursive function (`BatchStart`,
`Batch`): each turn takes one commit from the state the turn before left in the
transaction, until one of them is refused.

### ProviderOperations, VirtualRooms and VirtualRecordings

`ProviderOperations` is the table of the durable operations of a room: claimed under
a lease and an attempt number, settled by the latest claim only, retried otherwise.
`fenced` holds the workers whose claim is not the latest, `renumbered` those whose row
has since started to count anew, for which the fence may not hold; `reused` remembers
that a number was given out while a worker of before bore it. `VirtualRooms` adds
the room and LiveKit: staff start and end it, tokens are issued and expire, ensure and
close call LiveKit, and an ensure that finds its room ended closes it again
(compensation). `VirtualRecordings` adds the recording, with the mark made before the
start call, the listing that follows a call without an answer, and the webhooks.
"open" stands for locked too, and "running" for starting and active. A generation that
is replaced ends; its successor is another instance.

### How they fit together

The outbox promises at-least-once hand-over (`Handoff`, proved), so the users of
`WorkQueue` take a stored message as sent at least once (`Dispatch`, fair) and
possibly repeated (`DuplicateDispatch`). A schedule that is sent stores notifications
in its transaction, and `NotificationDelivery` takes it from there. `Checkout` treats
`paid` as including the refund states that `OrderRefunds` distinguishes, and counts
places like `EventRegistration` does for events without payment. Definitions marked
`Mutant:` are single faults that the properties have been tried against; no
specification uses them.

## 3. Runs

| Run | Shows | Instance |
|---|---|---|
| `outbox` | claims stay exclusive, nobody disturbs the latest claimer's lease, `Handoff` implemented; every well-formed row is processed in the end | 3 rows (malformed, audit, withdrawable), 2 workers, 2 claims per row |
| `notification` | settled is final; work is not stranded and is settled in the end, an email is repeated only after a death, as long as no handler is overtaken | 2 workers, 2 messages, 1 death, 1 overtaken handler |
| `scorm` | served content is complete and passed validation; versions are verified, the storage of a removed one is reclaimed | 2 workers, a duplicate ingestion, 2 deaths, 1 overtaken handler |
| `checkout` | places are confirmed exactly and not oversold, places and codes match payments, no failed order is paid | a ticket, a single-use bulk order, its extension, a shared-code bulk order; 2 places, 2 users |
| `checkout_live` | payments are honoured | ticket, course purchase and bulk order for the course; lapsing reservations |
| `refunds` | the order follows its rows; while events come in order, acknowledged means recorded and rows converge | 3 refunds of a total of 3, any delivery |
| `communications` | one holder, one active schedule, one email, and only as planned; every communication of an event that stays on is sent or failed in the end | 2 communications, 2 workers, 2 changes of the plan, 1 deferral, 1 late lease, 1 death or lost commit answer |
| `registration` | the count of places, announcements and invitations; overdue lists get locked | 2 learners, 1 region with 2 rounds, 1 place, 2 windows of dates |
| `offline` | time counted once, device and server agree after a synchronisation, completion stays, `AttemptWriter` implemented | 2 entitlements, 2 commits, 1 launch, times up to 2, 1 crash or lost message, batches of 2 |
| `rooms` | recorded once, true outcome, only ended rooms closed, none left open; recordings settle | 2 workers, 1 late lease or other mishap |

`registration_shut` and `offline_lost` expect a violation; see section 6.

Bounds. Two workers are enough for every race of the worker code: each involves
the two holders of one row or message. Two claims per outbox row let a worker be
overtaken by a second claimer; the proofs cover any number. `MaxReceives` of 2
allows a redelivery after a death, and sends the message to the dead-letter queue
after the next, which the liveness properties name. `Visibility = 1` tick keeps the
order of expiries, which is all the handlers depend on. Two messages of one
notification, or two ingestion messages, stand for duplicates from SQS and from the
outbox, and leave one for a requeue. Two places and four orders for them make every
pair of order kinds compete for the last place. Three refunds over a total of three
include a returned refund and its replacement, which exceed the total for a while.
Two rounds and two windows let a reopened list exist beside its predecessor; the old
list's revival needs a third window and one learner (`registration_shut`). Two
entitlements let evidence of a first delegation arrive during a second.

Larger instances were run by hand without an error: `offline` with 2 launches and
times up to 1 (7.0 million states), `rooms` with 2 mishaps (2.3 million) and, for the
invariants and their inductive strengthening, with 3 workers and 2 mishaps (15.2
million).

Two conditions separate what the code ensures always from what it ensures under an
assumption, without a switch that would hide the other case. `late` counts the leases
and timeouts that ran out under a live worker; `lapsed` are the reservations that
ended before their payment came (the 31 minutes exceed a session's 30 but not a late
webhook or a delayed payment method). The properties that need them say `late = 0` or
name the lapsed orders; the others hold through both. Likewise `orderly` remembers
whether a refund event came ahead of the fulfilment or after a later one of its refund.

Deadlock checking is off in all runs: bounded messages, orders, rows, dates and
launches mean that every instance ends.

The type invariants are not among the runs' properties: each of them is a theorem.

## 4. Fairness

Weak fairness is assumed of: a dispatcher's next step and a consumer's next step
(the worker loop runs for ever, its calls have timeouts, systemd restarts it);
the hand-over of owed messages (the outbox's own liveness, `EventuallyProcessed`); SQS
redrive and the passing of time, of leases and of due dates; the claim and the work of
a schedule; Stripe's retries of a webhook until it is answered; the end of a
transaction that holds a lock; the decision of a delayed payment and the expiry of an
open session; the expiry of tokens and the end of the recording of a closed room.

Strong fairness is assumed of the outbox's claims (a worker that opens claim
transactions again and again does not die in every one) and, per kind, of the claims
of room operations: the code takes the one that has been due longest, so that none
waits for ever behind rows that are put back; the model leaves that order out.

Nothing is assumed of purchasers, learners, administrators, uploads, devices and web
requests: they may stop anywhere. The run `offline_lost` alone assumes that the
learner's page goes on with what it is allowed to do; that makes its counterexample
stronger. Worker deaths, faults and late leases are finite in every instance; without
that no redelivery could ever be relied on.

## 5. Proofs

Eight modules, each with an inductive invariant `Inv`, the lemmas that Init
establishes it and each action keeps it, and the theorems that follow. All hold for
every value of the constants that satisfies the named assumptions (finite sets where
something is counted, positive timeouts, no bound on sizes).

| Module | Theorems | What the invariant adds, and why |
|---|---|---|
| `OutboxProofs` | types, processed was handed over, claim numbers unique, processed is final, lease undisturbed, `Handoff` implemented | what each program counter says (an open claim holds the lock of an unprocessed row and its next number; a handed-over row has a copy) and disjoint locks. Two open claims of one row would count to the same number |
| `NotificationProofs` | types, delivered was emailed, outcomes recorded, settled is final; not stranded, repeats paid for by deaths | `HandlerInv`: a handler that was answered "accepted" has an email to show, which makes `Record` honest although it does not look at its attempt. `CalmInv`, for as long as no handler is overtaken: a handler that claimed a notification has it for itself (`Alone`), a message is about to be deleted only when its notification is settled (`HandledSettled`), what is owed is stored (`OwedInv`), and every email but the last is counted against a death (`EmailsPaid`) |
| `ScormProofs` | types, rows keep their archive, served content complete, rejected never served | `UploadInv`, `CleanupInv` and `HandlerInv`: an ingestion that is past its upload works on a full prefix or a removed version, and a deletion message exists for removed versions only. Otherwise a late `Publish` could serve a prefix that a deletion has emptied |
| `CommerceProofs` | of `Checkout`: types, places confirmed, codes match places, places paid for, places not oversold, no failed order is paid; of `OrderRefunds`: types, the order tells its refunds, acknowledged stays recorded | `SessionInv` (no session before the order is inserted, nothing payable before the redirect) and `GrantInv` (an unpaid bulk order has no grant). Without the first an order could be marked failed while its purchaser is at Stripe, without the second a repeated fulfilment could restart the codes. `CountInv`: a reservation that holds the lock has counted every place that is still reserved: no order is inserted under the lock, those it counted can only end, and a bulk order that is fulfilled between its two statements enters the grants, which it counts second. Refunds: an event is never ahead of its refund at Stripe, and the row shows the last acknowledged one; an order without its intent has no rows |
| `CommunicationProofs` | types, one holder, one active schedule, nobody mailed twice, mailed as planned | `NumberInv` (revisions are numbered without a gap, so the next one is free), `PlanInv` (an active schedule carries the plan in force) and `MailInv` (what was sent is completed and has no active sibling). `OneHolder` is itself needed: a deferral gives the number of its attempt back, which is safe because nobody else holds that number |
| `RegistrationProofs` | types, places counted, invitations fit, locks announced once | regions of a published event have a list; what each kind of lock says of its announcements and of the worker's job; a list that an administrator is locking is not locked by hand already |
| `RoomProofs` | types, recorded once, true outcome, only ended rooms closed, nothing left open | at most one worker calls for the recording, and only after the mark (`RecordInv`); an end that was read is LiveKit's (`EndInv`); while no lease has run out, what the only worker at the start did not find is not there (`StartInv`). `OpenInv` for a close that stays done: which claims the fence may miss (`NumberInv`), that only the latest claim is not fenced (`LatestInv`), what an ensure and a close know of the room at each step (`WorkInv`), and that from the last call of a close on nobody but a late ensure, which will compensate, opens it (`ShutInv`) |
| `OfflineProofs` | types, journal agrees with the receipts, time counted once, synchronised shows the server, completion kept, `AttemptWriter` implemented | the page waits for one request (`WaitInv`); the attempt is the active entitlement's and its generation counts the changes of hands (`HolderInv`, `EpochInv`); a journal is given up only behind a confirmed cleanup (`ClearedInv`), so no entitlement has a second one; batches ask for commits that exist and leave no gap (`LengthInv`, `BatchInv`); commits follow each other (`ChainInv`), the attempt is as its last accepted one left it (`AcceptedInv`), and what is answered, in the journal or on its way, stands behind accepted records (`JournalInv`, `ReceivedInv`) |

Each `Inv` was checked by TLC on the instance of its run as well.

How three of the longer arguments go:

- Sums over orders (`CommerceProofs`) are folds over finite sets. What a sum does
  when its set or its function changes is shown by minimal counterexample: the
  subsets of a finite set are well-founded under strict inclusion, and a smallest
  subset for which a law fails is neither empty nor does it survive taking out the
  element the fold takes first.
- The batch loop (`OfflineProofs`) is a function on the numbers. `Turn` says what one
  turn may do to the transaction; a law of the whole batch is shown by the least turn
  that breaks it.
- The handlers of `OfflineScorm` are many, and most parts of `Inv` are about a few of
  the variables. `ServerSteps`, `DeviceSteps` and `PageSteps` say once what the steps
  do to the attempt, to the stores and to the page; each part of `Inv`, and the
  refinement of `AttemptWriter`, is then proved over this handful of effects. Most
  steps are stutters of the abstract specification: it takes a step when the server
  hands the attempt over or takes it back, applies a batch or online progress, and
  when the device makes a commit.

Five results are under a hypothesis that the code needs as well: `NeverStranded` and
`RepeatsNeedDeaths` hold while no handler outlives its timeout (`late = 0`),
`PlacesNotOversold` up to the first payment for a lapsed reservation,
`AcknowledgedIsRecorded` while the events of a refund come in order (`orderly`), and
`NothingLeftOpen` as long as the row of the close has not counted its attempts anew
and given out a number that is still in use (`reused`), which section 6 explains.

Only model-checked: what rests on fairness (`EventuallyProcessed` and the other
`Eventually...` properties, `RemovedIsReclaimed`, `PaymentsHonoured`,
`RefundsConverge`, `RecordingsSettle`), which is out of the prover's reach. Every
safety property of a passing run is a theorem.

## 6. Where the code and the documents disagree

Two runs have a counterexample; `PROJECT.json` quotes the documents.

- `registration_shut`: a round that reached its deadline before the worker locked it,
  and was followed by another, has `lockedAt` null for ever. A reschedule with
  `replace_future` moves the dates of every such round, and coordinators decide on the
  old list again.
- `offline_lost`: the answer of an activation is lost after the server handed the
  attempt over. The bootstrap replaces the marker, which names no entitlement, by a
  blocked record for which neither a new download nor the removal works.

More of them came up while modelling. They show in the models as well; the properties
that hold are stated so as to leave exactly these cases out.

- A payment that comes after its reservation has lapsed oversells the event, since
  bulk fulfilment does not look at the capacity (`PlacesNotOversold` up to then).
- The catch block of a delivery checks the status but not the attempt: a worker slower
  than the timeout fails its successor's delivery, and the successor deletes the last
  message of a failed notification (`NeverStranded` while `late = 0`).
- A death between the provider's acceptance and the recording transaction sends an
  email twice (`RepeatsNeedDeaths` bounds it).
- The unconditional `UPDATE` to processing takes a ready package version back for a
  duplicate ingestion (`scorm-package-ingestion.server.ts:345`), although
  docs/architecture/content-authoring-versioning-and-publication-lifecycle.md:209 says
  "A ready package version is immutable."
- A duplicate ingestion can upload files of a version that was removed and cleaned up
  (`Straggling`).
- A repeated older refund event overwrites a newer status
  (`refund-fulfillment.server.ts:59`), although
  docs/architecture/commerce-and-entitlements.md:230 says "External payment events are
  replayable."; one that overtakes the fulfilment is acknowledged and lost (`orderly`).
- An administrator who began to lock a list overwrites the worker's lock and announces
  it a second time (`AnnouncedOnce` names this case).
- A page that dies between `putPackage` with ready and the index record: the retry
  wants the package record back in downloading, which the store forbids, for ever.
- A resolution whose answer was lost leaves a ready card. The learner launches from
  it, and the removal that follows skips the package channel and wipes the spool of
  that launch, which docs/adr/0042 does not mean ("Sign-out, account switching and
  download removal never discard unacknowledged offline evidence"). With pending
  journal entries, clearing the attempt throws every time.
- A package that takes its completion back leaves a spool entry which is refused at the
  head for ever; it blocks launch, synchronisation and removal.
- A second device of the same learner (not modelled) can confirm the cleanup of the
  first one's entitlement, whose own cleanup then throws every time.
- An ensure that outlives its lease and dies before it compensates leaves a room open at
  LiveKit after the close has succeeded (`lost`); only LiveKit's empty timeout ends it.
- Putting the row of a close back to pending starts its attempt numbers anew
  (`event-virtual-room.server.ts:4065`). With enough workers whose leases ran out
  before, a claim of then can bear the number of the one now due and settle the row as
  succeeded ahead of it (`reused`); it takes at least
  four workers.
- A stop whose worker dies after the dispatch mark is not sent again; the recording ends
  when the room is closed.

## 7. What is not modelled

Within the modelled parts:

- Checkout: prices, currencies, publication states, organisations and owners, domain
  restrictions, expiry of grants, administrator-created grants, capacity changes and
  cancellation of an event during checkout, encryption and format of codes.
- SCORM packages: ZIP and manifest parsing; a registration whose commit succeeds although
  its answer is lost.
- Notifications: templates, rendering, the applicability queries, audit rows.
- Communications: who the recipients are, the announcements that transitions queue at
  once, course communications.
- Registration: questionnaires, restricted domains, the confirmations a coordinator or
  an administrator is asked for, paid registration (it is `Checkout`'s), expiry and
  tokens of invitations.
- Offline SCORM: signatures and bindings (they hold by construction of the requests),
  other progress fields than completion and time, a second device or tab, the
  installation prompt and storage quotas, CloudFront allocations.
- Rooms: locking, reopening and the admission mode, removal of participants, the wait of
  the close for the attendance reconciliation, back-off and polling order, LiveKit's ids
  of rooms, the failure of the upload window, dates and retention of evidence. The claim
  and the first read of an operation are one step.

They do not decide any of the state changes the properties are about, or are fixed for
the instance. Whole components that are left out are listed with their reason in
`PROJECT.json`. Most of the repository by size is client views, forms that write one
row in one transaction, read-only queries, migrations and verification scripts, in
which no two actors meet: there is no state machine in them beyond their database
constraints.

## 8. Plan

What could come next, in this order:

1. Lobby admission and attendance reconciliation, composed with `VirtualRooms`: an
   admission that is revoked while its token is being used, and the close that waits for
   the reconciliation.
2. CloudFront allocations, an instance of the pattern of `ProviderOperations`.
3. Enterprise claims, composed with `EventRegistration`'s count of places.
4. The worker loop: order and limits of one iteration, to justify the fairness the other
   modules assume, and to show which step can starve which.
5. Proofs: the theorems of the modules above as they come, first the one that an
   admission is not used after its revocation; what `NothingLeftOpen` leaves of a room
   for which a number was given out twice (a bound on who can have reopened it).
