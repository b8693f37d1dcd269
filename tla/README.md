# TLA+ models of the TaskBridge API

TaskBridge is a marketplace: companies publish tasks (optionally inside projects), developers apply
or are invited, one developer gets a task, works on it, asks for completion, and the company confirms
or rejects; either side can open a dispute that a moderator decides. The program is an Express
application over PostgreSQL (Prisma), with Redis caches, an e-mail outbox and a few cron jobs.
Every request is a handler in `src/services/**`; several run at once, in one or more processes, and
they coordinate through nothing but the database.

This directory holds the models, the TLC configurations that check them on small instances, and the
proofs that TLAPS checks for every size.

```
tlc -workers 2 -config workflow.cfg MC_TaskWorkflow    # any run of PROJECT.json
tlapm TaskWorkflow_proofs.tla                          # any *_proofs module
```

## 1. Inventory

| Component | State | Operations | Interacts with | Hard because |
|---|---|---|---|---|
| Task workflow (`services/tasks/workflows`, `task-drafts.js`) | tasks, applications, completion rejections, disputes, reviews | draft, update, publish, close, delete, apply, accept, reject, request/confirm/reject completion, open/escalate/resolve dispute, review | projects (limit, archive), invites (shared start), notifications and chat (in and after the transaction) | check and write are different statements under READ COMMITTED; two tables must agree on who has the task; a request may be answered from two sides |
| Invites (`services/invites`) | task_invites | create, accept, decline, cancel | `startTaskWithDeveloper` | a second way of hiring, with its own rules for the losers |
| Projects (`services/projects`) | projects, publish counter | create, update, archive, publish limit | tasks of the project | archiving writes many tasks; the counter never goes down |
| Moderation (`tasks/reporting.js`, `projects/reporting.js`) | reports | report, resolve (dismiss or delete) | deletes tasks and projects of any status | decided on a row read before the transaction |
| Candidates and catalogues (`tasks/queries`, `projects/queries.js`, `services/me/*`) | none of their own | lists, pages, figures | every table | each page filters on other columns (status, `deletedAt`, accepted application); together they must lead everyone to what he has to do |
| Chat (`services/chat`, `services/me/threads-*`) | threads, messages, attachments, read marks | create thread, send, mark read, mark important, list | created after an accept has committed; file storage | the creation may fail silently; a message takes its time before its slow uploads; files outlive failed transactions |
| Notifications (`services/notifications`, `services/me/notifications*`) | notifications, cached unread count | create, mark read, important, mark all | created inside the transactions of the others | cache invalidated before the commit |
| Caches (`src/cache`) | Redis keys with a TTL | read-through, invalidate | five lists, the unread count | a stale value stored after the invalidation; changes nobody invalidates |
| E-mail outbox (`services/email-outbox`, `jobs/email-outbox-*`) | outbox rows, worker lock, throttle key | send or enqueue, claim, send batch, retry, defer, expire, clean up | SMTP provider, Redis, cron | lock with a lifetime, stale claims, at-least-once sending, throttling |
| Authentication (`services/auth`, `token`, `user`, cleanup jobs) | users, refresh tokens, verification tokens | sign up, log in, refresh, log out, verify, resend, forgot, reset, set password, clean up | e-mail, account deactivation | every handler is a sequence of unguarded statements; revocation races with creation |
| Account deactivation (`me/account.js`) | users, sessions, profiles, pictures | deactivate | sessions, profiles, file storage | overwrites in its transaction what it read before it |
| Profiles (`services/profiles`) | developer and company profiles, avatar and logo | create, update, upload, remove picture | file storage, deactivation | the old picture is deleted before the row is written |
| Platform reviews (`platform-reviews.service.js`) | reviews of the platform | create, edit, approve, moderate, delete | moderators | the owner's right to edit is checked before an approval and used after it |
| Roles (`setUserModeratorRole`, `auth.middleware.js`) | `users.roles` | grant, revoke the moderator role | notifications, every door for moderators | reads an array and writes it back, then notifies |
| Onboarding (`me/onboarding.js`) | one row per user and persona | finish or skip a tour, reset, check | profiles | clients of several versions write the same row |
| Favorites (`services/me`) | starred tasks | insert, delete | | single statements under a unique key |
| Technologies (`services/technologies`) | catalogue, popularity counter | search, increment | drafts and profiles | |
| Middleware, controllers, routes, schemas | none | authenticate, validate, dispatch | | stateless |

What makes each correct is the list of properties below for the components modelled, and the hazards
of `PROJECT.json` for all of them.

## 2. Plan

In the order in which it was carried out; the important behaviour first.

1. `TaskWorkflow` (atomic handlers) and `TaskLifecycle` (what a client may rely on), with
   `TaskWorkflow_proofs` (the invariants and the refinement).
2. `TaskRequests`: the same handlers, overlapping; it implements `TaskWorkflow` when they do not. With
   `TaskRequests_proofs`.
3. `TaskViews`: the lists and pages as functions of the tables of `TaskWorkflow`, with
   `TaskViews_proofs`.
4. `CachedViews`: `TaskRequests` and `TaskViews` composed with the caches in front of five lists, with
   `CachedViews_proofs`.
5. `EmailOutbox`: claims, worker lock, throttle, crashes; safety and liveness, with
   `EmailOutbox_proofs`.
6. `AuthTokens`: sessions and mail tokens under overlapping requests and cleanup jobs, with
   `AuthTokens_proofs`.
7. `Inbox`: messages, files, read marks, notifications and their cached count, with `Inbox_proofs`.
8. `AccountRecords`: profiles, pictures, deactivation, platform reviews, with `AccountRecords_proofs`.
9. `UserStanding`: the roles and the onboarding tours beside them, proved about in the same module.

Open: an abstract specification of mail delivery that `EmailOutbox` implements; `StaleHasReason` for
overlapping requests, with the fifth reason that they need; the unread counts inside the cached thread
lists.

## 3. Modules

### TaskWorkflow.tla - one atomic action per handler

State: the tables, projected on the columns the handlers decide on.

| Variable | Table |
|---|---|
| `task[t]` | `tasks`: status (`ABSENT` before the row exists), developer of `accepted_application_id`, `rejection_count`, `completion_request_expires_at` (none / running / passed), `deleted_at` (set or not), `project_id` |
| `application[t][d]`, `invite[t][d]` | `applications`, `task_invites`; unique per task and developer, so a status per pair |
| `dispute[t][k]` | the k-th row of `task_disputes` of a task: `OPEN`, or the action it was resolved with |
| `rejections[t]` | rejection numbers in `task_completion_rejections` (unique per task and number) |
| `thread[t]` | developer of the `chat_threads` row (unique per task) |
| `review[t]` | personas that reviewed (unique per task and author) |
| `told[t][d]` | outcome notifications `APPLICATION_ACCEPTED` / `APPLICATION_REJECTED` sent to d |
| `taskReport`, `projectReport` | reports, unique per reporter |
| `project[p]` | state, `max_talents`, `published_tasks_count` |

Each handler is `MayX(row)` (its checks of the rows it reads) and `XWrite` (everything its transaction
writes), and the action `X` is their conjunction. `StartWrite` is `startTaskWithDeveloper`, shared by
`AcceptApplication` and `AcceptInvite` as in the code; `ArchiveWrite` is shared by the owner's and the
moderator's deletion of a project. The chat thread of an accept is created after the commit and may
fail (`ThreadAfterStart`); `GetThreadByTaskId` creates a missing one. `ResponseDeadlinePasses` is the
clock. Unique keys are conjuncts of the writes.

### TaskLifecycle.tla - what a client may rely on

Status, worker, number of rejections and "a dispute is open" per task, with the arrows between the
statuses. `TaskWorkflow!Lifecycle` maps the tables to it (`stage`, `worker`, `attempts`, `contested`),
and `ImplementsLifecycle` is the claim that no handler leaves the arrows.

### TaskViews.tla - what the pages show

The lists and pages as functions of the tables of `TaskWorkflow`: catalogues, task and project pages,
applications, invites, candidates, a developer's tasks, applications, invites and projects, chats,
disputes, reviews and the figures on profiles. A list is the set of what all its pages contain; the
filters of each query are translated one by one, since what can go wrong is that two of them differ.

### TaskRequests.tla - the same handlers, statement by statement

`req[r]` is a request in flight: the operation, what it still has to read (`Reads`) and what it
remembers of the rows its writes depend on. `Begin` and `Read` make one read and its check, `Commit`
applies the writes of `TaskWorkflow` to the rows **as they are then**, `CreateThread` is the part of an
accept after its commit, and `GiveUp` is a failed check, an error, a deadlock broken by the database,
or a crash. This is PostgreSQL's READ COMMITTED, Prisma's default: a read sees what is committed at
that moment and locks nothing, and the handlers write by id. The writes of one request become visible
together; row locks make the other writers of the same rows wait, and since `accepted_application_id`
is a unique column, also inserts that refer to the task. `ReportProject` and `ResolveProjectReport`
are in the atomic module only; `CreateProject` depends on no earlier read and is one step.

### CachedViews.tla - requests, lists and the caches between them

`TaskRequests` and `TaskViews` composed with the read-through cache of one list (`watched`): the public
catalogues of tasks and projects, the invites of a task, a developer's invites and threads. `Miss` reads
the tables into `fill`, `Store` is the later `setEx`; a commit of a handler that deletes the key leaves
`pending`, `Invalidate` is the `DEL`, `InvalidationLost` a Redis error or a crash before it, `Expires`
the time to live. With the view `NoRedis` the cache does nothing, as in the code when the client is not
connected. `Forgotten` names the handlers that change a list and delete no key of it. `why` is history:
what made an entry old for good.

### EmailOutbox.tla - the outbox, statement by statement

`mail[m]` is the row of `email_outbox` (status, attempts, and whether the clock made it due, stale or
expired), with four statuses for mails that have no row: `NEW`, `DIRECT` (sent at once), `REFUSED` (the
caller got the error) and `DELETED`. `lock` and `throttled` are the two Redis keys. `at[w]` is the place
of worker w in `processEmailOutboxBatch`, `batch[w]` the ids it claimed, `todo[w]` the records it read
and has not finished, `fault[w]` the class of its last error. A worker is one call of
`processEmailOutboxBatch`, in this process or another.

| Action | Code |
|---|---|
| `SendEmailWithRecovery` | `delivery.js`: send, or store when the error is recoverable |
| `Start`, `AcquireWorkerLock` | throttle check, `SET NX PX`, or no lock without Redis |
| `ClaimDueOutboxItems` | its transaction: take back stale claims, fail expired mails, claim what is due |
| `FetchRecords` | the read of the claimed rows, after the claim |
| `Send`, `MarkSent`, `SettleFailure` | one round of the loop: provider, update to SENT, the catch block |
| `SetGlobalThrottlePause`, `DeferTail` | what a throttled send does to the others |
| `ReleaseWorkerLock`, `DeleteWorkerLock` | the GET and the DEL of the finally block |
| `StatementFails`, `Crash` | an error that leaves the loop (the finally block runs), a process that dies |
| `CleanupEmailOutbox` | the daily deletions |
| `BecomesDue`, `GoesStale`, `Expires`, `LockExpires`, `ThrottleEnds` | time |

`copies` and `doubt` are history: how often the provider accepted a mail, and whether a second copy is
excusable (`unsure`: a call or the update after it failed although the mail was accepted; `reclaimed`:
its claim was taken back). The claim is one step, since its row locks make concurrent claims of a row
serial; the order of a batch is any order, the delay of a retry any delay.

### AuthTokens.tla - one account, its sessions and its mail tokens

No handler of `src/services/auth` uses a transaction, so every statement is a step (`SignupCreatesUser`,
`RefreshRevokes`, `CreateSession`, `ResetSetsPassword`, ...) and `req[r]` holds the statement a request
executes next and the token it has read. `user`, `session` and `mailToken` are the three tables;
`deactivateMyAccount` is one transaction after its reads; `CleanupUnverifiedUsers` and
`CleanupExpiredVerificationTokens` are the daily jobs, `AccountAges` and `MailTokenAges` the clock. A
request may die between any two statements (`Dies`). A password is known by its number. History: `cut`
is the password at the last revocation of all sessions, `overtaken` marks the requests in flight at
that moment, `late` the sessions they write, `parent` which token a session replaced. A behaviour has
one of two groups of requests: those of an address that is not verified yet, or those of a verified
account.

### Inbox.tla - messages, files, read marks, notifications

One thread between a company and a developer, and the notifications of both. `SendBegins` takes the
moment of a message, `SendUploads` its files one by one, `SendInserts`, `SendWrites` and `SendCommits`
are its transaction. When an upload fails (`SendUploadFails`) or the transaction does, the files are
deleted (`CleanupUploadedAttachments`): also those of a commit whose answer was lost (`SendAnswerLost`),
but not the file of a failed upload that the storage kept all the same (`KeepsUnansweredUpload`). `MarkReadBegins` / `MarkReadWrites` and
`MarkThreadImportantOrNot` write the row of `chat_thread_reads`. A notification is inserted and the
cached count deleted inside the caller's transaction (`Raise`), which commits later (`RaiseCommits`);
`ListMisses`, `ListCounts`, `ListStores` are a reader of the count. `Raised` bounds which kinds the
handlers of the other modules raise; `RaisedKinds` is all they can. History: `known` (messages there or
being sent when a user marked the thread), `misled` (files a failure left wrong), `outdated` (a count
that changed behind the cache's back).

### AccountRecords.tla - profiles, pictures, deactivation, platform reviews

Every statement and every call of the file storage is a step; an avatar and a logo share the steps.
`DeactivateReads` / `DeactivateCommits` / `DeactivateDeletes` are the reads of `deactivateMyAccount`, its
transaction, and the deletion of the pictures it had read. Reviews of the platform are created, edited
by their owner while unapproved, approved, hidden again or deleted. History: `leftBehind` (a profile
written by a request that a deactivation overtook), `halted` (a request died between deleting a picture
and writing the row), `approvedText` (the text that the approval read, or that a moderator wrote),
`blurred` (an edit that overlapped the approval of the same review).

### UserStanding.tla - the moderator role and the onboarding tours

`AccountRecords` and, beside its requests, two more kinds (`serving` chooses one at the start).
`RoleReads` / `RoleWrites` / `RoleTells` are the three statements of `setUserModeratorRole`, between which
nothing is locked: the array of roles it read, the array it writes, the notification. The doors of
`auth.middleware.js` (`RequireAdminOrModerator`, `RequireAdmin`, `OptionalAuth`,
`LoadAdminOrModeratorStatus`), `/me` and the catalogue of users are functions of the row.
`UpdateTourReads` / `UpdateTourWrites` and `ResetTourReads` / `ResetTourWrites` are the lookup of the
profile and the upsert of `updateMyOnboardingState` and `resetMyOnboardingState`;
`CheckShouldShowOnboarding` is what a client asks. History: `crossed` (opposite changes overlapped, or one
died between the write and the notification), `finished` (the newest tour finished since the last
reset), `replayed` (an older client reported after a newer one).

### MC_*.tla

Symmetries and parameters: in `MC_TaskRequests` one set of operations per group of handlers that compete
for the same rows, in `MC_CachedViews` one scene per list (the list, and the operations that touch it),
in `MC_Inbox` the notifications raised.

## 4. Runs

| Run | Instance | Shows |
|---|---|---|
| `workflow` | 1 task, 2 developers, 1 project, 1 reporter, 2 disputes, 3 rejections | the tables agree with each other (`TypeOK`, `AcceptedApplication`, `NobodyLeftWaiting`, `InviteSettled`, `ThreadOfWorker`, `DisputeMatchesStatus`, `DisputeOutcomeStands`, `ArchivedProjectIsEmpty`), the pages with the tables and the handlers (`OffersAreHonoured`, `ActionsAreReachable`, `ProjectPagesAgree`, `FinishedWorkAgrees`), and `ImplementsLifecycle` |
| `one_request` | 1 task, 2 developers, 1 project, 1 reporter, 1 request, 2 disputes, 2 rejections; each list in turn, or no cache and every operation | `ImplementsSerial`: `TaskRequests` with one request implements `TaskWorkflow`; `StaleHasReason` |
| `overlap` | 1 task, 2 developers, 1 project, 1 reporter, 2 requests, limits 1 and 2, 2 rejections; three groups | what overlapping requests keep: `RejectionsCounted`, `OutcomesWereTold`, `DisputeHasOpenRow`, `ThreadForGood`, and what they can still overwrite: `OnlyLateWriters` |
| `outbox` | 2 mails, 2 workers, no Redis, batches of 2, 2 attempts, 1 crash or failed statement | `SentWasAccepted`, `SecondCopyHasReason`, `WaitingHasAttempts`, `SentIsFinal` |
| `delivery` | 1 mail, 2 workers, Redis lock and throttle, 2 attempts, 1 crash or failed statement | `EveryMailSettles` under `FairSpec` |
| `sessions` | 2 requests, 3 sessions, 3 verification tokens, 1 reset token, 1 change of the password, 1 death | `TypeOK`, `SurvivorsWereInFlight`, `DeactivatedIsOut`, `RotationKeepsSession`, `ResendThrottled`, and `AccountSettles` under `FairSpec` |
| `inbox` | 2 requests, 3 moments, 2 notifications, 2 files, 1 fault | `UnreadUntilRead`, `UnreadCountHasReason`, `AttachmentsAreStored` |
| `account` | 3 requests, 3 pictures, 2 reviews, 1 edit, 1 fault, 2 versions of the tour | `StandingTypeOK`, `PictureIsStored`, `DeactivatedIsAnonymous`, `PublicTextIsSettled`, `RoleWasTold`, `TourIsNotRepeated` |
| `stranded_dispute` | as `workflow` | violation of `OpenDisputeIsDecidable` |
| `two_accepted` | 1 task, 2 developers, hiring, 2 requests | violation of `OneAcceptedApplication` |
| `fourth_rejection` | 1 task, 1 developer, work, 2 requests, 3 rejections | violation of `AtMostThreeRejections` |
| `over_the_limit` | 2 tasks, 1 project, publishing, 2 requests | violation of `PublishedWithinLimit` |

The types of the inbox and of the outbox are theorems and not checked again by a run.

**Refinements.** `ImplementsLifecycle` (the handlers implement the life of a task that clients see) and
`ImplementsSerial` (the statement-by-statement handlers, one at a time, implement the atomic ones). With
two requests `ImplementsSerial` is false, and the four violations say how; `overlap` checks what
survives.

**Bounds.** Tasks share nothing but a project, so one task is enough except where the project's counter
is the subject. A start distinguishes the winner from the losers: two developers are checked, and the
theorems cover any number. `MaxDisputes` bounds the dispute rows of a task (2: one resolved, one
current); `MaxRejections` is 3 as in the code, or smaller where the overlapping requests multiply the
states. Two overlapping requests contain every pair of handlers (the theorems cover any number). In `overlap` a stale request can
revive a failed task and rejections then have no bound, so the constraint `FewRejections` stops one
beyond the limit. The runs of the marketplace do not check deadlock: where every task is finished or
deleted, or every bound is used up, it may stop; the same holds for the accounts and the inbox, whose
numbers of tokens, moments and pictures are bounds. The outbox never stops, and its runs check that.

For the outbox two mails are one batch with a tail, and two workers are one that is late and one that
took its claim back. `MaxAttempts` 2 leaves room for one retry. `outbox` runs without Redis: the lock
can expire at any moment, so it excludes no order of the steps that its absence allows; `delivery`
has the lock, the deletion of somebody else's lock and the throttle, which liveness has to survive.
`MaxFailures` bounds crashes and failed statements together.

For an account, three sessions are a login, its rotation and a rotation of that one, or one spent
twice; three verification tokens are the one of the registration and two resent. Two requests contain
a handler overtaken by a revocation. In `inbox` three moments are two messages and a mark between them,
in either order of taking the moment and writing it. In `account` three requests are two overlapping
uploads and the deactivation (or an edit, an approval and a deletion), or a change of the role, an
opposite one, and the change that makes up for both; two versions are an older client and a newer.

**Fairness.** `TaskWorkflow`, `TaskRequests`, `CachedViews`, `Inbox`, `AccountRecords` and `UserStanding` have none:
nothing in these handlers must happen (each waits for a person), so every property of theirs is a safety
property. `EmailOutbox!FairSpec` assumes weak fairness of each worker's batch (the cron job starts one
every minute, `jobs/email-outbox-worker.js:30`, and every call in it returns or throws: the mail library
has timeouts) and of the clock (rows become due, stale and expired, the lock and the throttle key time
out). It assumes nothing of what the provider answers, and nothing of the cleanup job, which is not
needed: expiry makes a batch fail the mail. `AuthTokens!FairSpec` assumes that time passes and that the
daily job runs (`WF(AccountAges)`, `WF(CleanupUnverifiedUsers)`), and nothing of any person or request.

### What overlapping requests keep, and what they break

The serial invariants state what the handlers guarantee one at a time. Run together, the code keeps:
the rejection log and its counter (by the unique key), an open dispute row for every task in DISPUTE,
one chat partner per task, and notifications of every answer. It does not keep the status: a publish,
close or deletion that had checked the task before writes over what became of it, so a deleted task may
read PUBLISHED, or DISPUTE (and no moderator can resolve that one), with `deleted_at` set, and a running
task may read CLOSED. `OnlyLateWriters` is what limits this: a deleted task is changed only by a request
that saw it undeleted or by an accept, which does not look at `deleted_at`; its developer changes only by
an accept that saw none; and a started task falls back only through a request that saw it not started,
a moderator or its project. So nothing but an accept builds on the status a late writer gave a deleted
task. The code breaks (the four violations, listed with their sources as findings in `PROJECT.json`):

- **two_accepted** - accept of d1 and accept of d2 both read PUBLISHED and no accepted application; the
  second write points the task at d2 while d1's application stays ACCEPTED.
- **fourth_rejection** - a completion request, read before the third rejection and written after it,
  turns FAILED back into COMPLETION_REQUESTED; the company can reject once more.
- **over_the_limit** - two publishes read the same counter below `max_talents` and both increment it.
- **stranded_dispute** - no overlap is needed: deleting a reported task, or its project, leaves its open
  dispute in the moderators' list, where resolving it answers 404.

### What the outbox keeps

Two batches can run at once in spite of the lock (it lives 55 seconds and a batch may take longer, its
release may delete another holder's, and without Redis there is none), and the runs show that this
alone does no harm: a mail is sent twice only after a failed call or update, or after its claim went
stale (`SecondCopyHasReason`). They also show what a slow worker can still do after its claim was taken
back, because it writes by id: queue a mail again that is SENT or FAILED, and count an attempt beyond
the limit. That is why `WaitingHasAttempts` and `SentIsFinal` except such mails. A row that the cleanup
deletes under a worker makes its two updates fail and leaves the rest of its batch in PROCESSING until
the claim goes stale (`EveryMailSettles` holds nevertheless).

### What the other models say about the code

These are the exceptions that the properties have to make; without its exception TLC finds each of the
properties named violated. The last point is no property's.

- Sessions: "All refresh tokens are revoked" after a password reset (`docs/swagger/paths/auth.paths.js:448`)
  has one exception: a refresh or a login that has made its check and not yet inserted its row
  (`late` in `SurvivorsWereInFlight`). Because the password is changed *before* the revocation, no later
  login with the old password slips through.
- Two overlapping refreshes of one token both succeed, so one login can become several sessions, but
  never more than there are requests at once (`SuccessorsBounded`, which is proved and not checked by a run:
  three sessions are too few to break it).
- A profile update that began before a deactivation writes personal data into the anonymised profile,
  and overlapping uploads leave pictures in the storage that no row names (`DeactivatedIsAnonymous`,
  `PictureIsStored`; the latter only promises that what a row names is there).
- An edit of a platform review that checked its status before the approval and wrote after it changes
  the public text (`blurred` in `PublicTextIsSettled`). The property is about the row alone: the approval
  names no version of the text, so an edit that commits after the moderator opened the review and before
  he approves it is published unseen, and nothing in the code or in these properties prevents that.
- The files of a message stay in the storage without it when the process stops, a deletion fails, or the
  storage kept a file whose upload was answered with an error: only files whose upload was answered are
  cleaned up. And they are deleted under a stored message when the answer of its commit was lost
  (`misled` in `AttachmentsAreStored`).
- A list may stay stale for its time to live after four kinds of events (`StaleHasReason`). Three of the
  changes are followed up by no handler (`Forgotten`): deleting a project leaves its tasks in the cached
  catalogue, accepting an invite leaves the cancelled invites in the lists of the others, and most
  changes of a task's status leave the cached list of threads. That is for one request at a time. With
  overlapping ones there is a fifth reason: the stale write of one request undoes what another has just
  done, and neither deletes the key of the list for that (TLC finds `StaleHasReason` violated with two
  requests: a late publish puts a task that was given away back to PUBLISHED, and a completion request
  that had read IN_PROGRESS takes it out again without deleting the key of the public catalogue).
- Of two opposite changes of one user's role that overlap, the later write wins and the later notification
  may be the other one's (`crossed` in `RoleWasTold`), until a change that overlaps no opposite one is
  told. A grant of a role that the user already has is silent, as is a revocation of one he has not.
- `checkShouldShowOnboarding` "Returns false if the user already completed or skipped onboarding for the
  same or higher version" (`docs/swagger/paths/me.paths.js:88`), except after an older client has
  reported: the upsert takes its lower version (`replayed` in `TourIsNotRepeated`).
- A user's own messages count as unread for himself until he marks the thread, and `lastMessageAt` may
  go backwards when a slow upload commits late.

## 5. Proofs

All proofs hold for every value of the constants that satisfies the assumptions named.

| Module | Proves | Assumptions |
|---|---|---|
| `TaskWorkflow_proofs` | the serial invariants: the invariants of the tables that `workflow` checks, and six more that it does not (`SoftDelete`, `WorkHasDeveloper`, `ApplicantsWereTold`, `RejectionLog`, `DeadlineMatchesStatus`, `ReviewedIsFinished`); `ImplementsLifecycle`, `AcceptedForGood` | `ConstantsAssumption` |
| `TaskRequests_proofs` | for any number of overlapping requests: `RejectionsCounted`, `OutcomesWereTold`, `DisputeHasOpenRow`, `ThreadForGood`, `OnlyLateWriters` | `ConstantsAssumption`, `GroupsAssumption` |
| `TaskViews_proofs` | `OffersAreHonoured`, `ActionsAreReachable`, `ProjectPagesAgree`, `FinishedWorkAgrees` | the same, `CountableAssumption` |
| `CachedViews_proofs` | `CachedSpec => RequestsSpec` (any number of requests); for one request at a time, `ImplementsSerial` and `StaleHasReason` | `ConstantsAssumption`, `GroupsAssumption`, `ScenesAssumption`; of the last two, `Requests = {r}` |
| `AuthTokens_proofs` | `TypeOK`, `SurvivorsWereInFlight`, `DeactivatedIsOut`, `RotationKeepsSession`, `SuccessorsBounded`, `ResendThrottled` | `BoundsAssumption`, `RequestsAssumption`, `IdleAssumption` |
| `Inbox_proofs` | `TypeOK`, `UnreadUntilRead`, `UnreadCountHasReason`, `AttachmentsAreStored`; what a persona can mark it also sees in its list (`MarkableIsListed`) | `BoundsAssumption`, `NullAssumption`, `RaisedAssumption` |
| `AccountRecords_proofs` | `TypeOK`, `PictureIsStored`, `DeactivatedIsAnonymous`, `PublicTextIsSettled`; `StandingSpec => Spec`, `StandingTypeOK`, `RoleWasTold`, `TourIsNotRepeated` | `BoundsAssumption`, `NullAssumption`, `VersionAssumption`, `IdleAssumption` |
| `EmailOutbox_proofs` | `TypeOK`, `SentWasAccepted`, `SecondCopyHasReason`, `WaitingHasAttempts`, `SentIsFinal` | `OutboxAssumption` |

The assumptions say that bounds are natural numbers, that null values are none of the rows, that
operations and scenes are taken from those that exist, and, where the proofs count
(`RequestsAssumption`, `CountableAssumption`), that there are finitely many requests or tasks.
`Requests = {r}` is the hypothesis "one request at a time": without it `ImplementsSerial` and
`StaleHasReason` are false, as section 4 says.

**The workflow.** Of the invariants only `TypeOK` and `SoftDelete` are inductive alone.
`DisputeMatchesStatus`, for instance, needs that only a task with an open dispute is in DISPUTE, that
new disputes are opened only when none is open, and that a final status leaves none open;
`InviteSettled` needs that an accepted invite cancels the others *and* that no invite is created for a
task that has a developer, which in turn needs that `accepted` and the status agree. The inductive
invariant `IInv` is therefore type correctness and, for every task, `TaskOK(t)`: `RowOK` (the columns of
the task row among themselves), `HiredOK` (applications, invites, notifications and thread against the
row) and `WorkedOK` (disputes, rejections and reviews against the row). The proof has a lemma per group
of handlers (drafting, hiring, work, disputes, reports, projects), each reduced by `OneTask` and
`OtherRows` to the one task the handler writes; `Invariance` combines them, and each theorem follows from
`IInv`. `ArchivedProjectIsEmpty` needs besides that the project of a task exists (`EmptyInv`).

**The refinement.** With `IInv` in both states, one lemma per group of handlers shows that its step is one
arrow of `TaskLifecycle`, or leaves status, worker, rejections and open disputes of every task alone
(`Stutter`). `IInv` is what excludes the steps that the guards alone would allow, such as a moderator
deciding a dispute of a finished task.

**Overlapping requests.** What a request has read may be out of date when it writes, so the invariant
keeps only what nothing takes back (`Grows`: counters, notifications, deletions, a developer, a thread):
the counter a request has read is not above the row's, and whoever it saw on the task, or has put there
itself, was told so (`SeenRight`). With the unique key of the log this makes every rejection the next
one. Each write is shown to keep the tables' part (`TInv`) and to grow (`Keeps`) *without* its checks,
since these were made earlier on other rows. `OnlyLateWriters` is about those checks: `LateInv` adds that
the task's row a request remembers has passed the check of its operation (`Checked`), and `CommitIsLate`
goes through the writes one by one.

**One request at a time.** The refinement of `TaskWorkflow` by `TaskRequests` needs that what a request
has read still holds when it writes: `Sound` says of every column read so far that the row still has the
value the check saw, and of an accept past its commit that the developer still has the task. With one
request nothing but that request and the clock writes, so `Sound` is inductive beside `IInv`, `EmptyInv`
and the invariant of the overlapping requests (`OverlapInv`). A `Commit` is then the action of
`TaskWorkflow`, every read and every end a stutter, and `CreateThread` a part of the accept or of
`GetThreadByTaskId`.

**The caches.** No step of a cache changes a table, so the handlers cannot tell (`CachedSpec =>
RequestsSpec`), and whatever is proved of `TaskRequests` and, for one request, of `TaskWorkflow` holds with
the caches. `StaleHasReason` is not inductive: a reader stores later what it has read now. `CacheInv`
therefore says of `fill`, what readers hold and have not stored, the same as of what is cached. The
rest is a lemma per list and handler: a commit that neither deletes the key of the list nor is
`Forgotten` leaves the answer of the list as it was. Here one request matters again: by `Sound` the commit is
an atomic handler, whose status before and after is known.

**The pages.** `OffersAreHonoured`, `ActionsAreReachable`, `ProjectPagesAgree` and `FinishedWorkAgrees` hold
in every state in which `IInv` and `EmptyInv` do; no step is involved. The sum in `ProjectPagesAgree` is
the cardinality of a union of disjoint sets of tasks, one per category.

**Sessions.** `IInv` says what a request in flight may still write (`Fits`): a login that was not overtaken
holds a password no older than `cut`, a refresh holds the password of the session it spends, and after a
deactivation all of them were overtaken. The two properties that count get an invariant that counts
more: the successors of a token *and* the refreshes that still spend it are at most the requests
(`RotationInv`: a revoked token is found by no further request, so the sum never grows), and likewise
the recent verification tokens and the requests about to create one (`ThrottleInv`).

**The inbox.** `ReadInv` relates every moment at which a message was or is being sent to what a mark in
flight will make known; `FileInv` gives every stored file to a message, to one request, or to `misled`;
`NoneInvalidates` keeps the requests of the thread apart from those of the notifications. For the
cached count `CountInv` says of each user that a deletion of his count is still to come, or that the
count in the cache and every count on its way there is right or known to be out of date. It needs
`IdInv`: marking all notifications writes by id, and only because ids are never shared does it leave the
counts of other users alone.

**Accounts.** `PInv` says that profiles that are written exist and empty ones hold nothing (`ProfilesFit`),
that after a deactivation every request about a profile was overtaken (`AllOvertaken`), that no two
profiles hold the same picture and what a request read is the picture of the profile it read
(`Owned`), that an uploaded picture is known to nobody else before its row is written (`Fresh`), and that
every picture was uploaded (`Numbered`). `RInv` says that who edits a review has seen it
unapproved and who approves it has read its text, unless a later write overtook the request
(`ReviewFits`), and that an approved text is the one read then unless the review is `blurred`
(`ApprovedFits`).

**Roles and tours.** `RecordsAreUndisturbed` (`StandingSpec => Spec`) carries all of that over. For the
role, `RoleInv` says that a change that met no opposite one flies only with changes in its own direction
(`Companions`) and tells what the roles say (`TellsTheRoles`); and that while nothing is crossed all
changes in flight go one way, those that have written or will stay silent find the roles as they want
them (`Arrived`), and otherwise the roles are what was told last (`ToldOrTelling`). It is the silent ones
that make it hard: a change that finds nothing to do must not be the one that undoes another. `TourInv`
says that a row is at `not_started` exactly when nothing was finished since the last reset, and holds
the newest version finished, or an older one when it was `replayed`.

**The outbox.** `MailOK(m)` says that, as long as no claim on mail m was taken back, at most one worker
holds it (has it in its batch or in hand); the row it holds is PROCESSING, SENT, FAILED or DELETED, with
an attempt left, and not yet accepted by the provider unless it is about to be marked. `RecordsOK(w)`
says the same of the records a worker has read. The lemmas `Untouched`, `GivenUp` and `KeptInHand` carry
this over the steps that do not touch a mail, let it go, or keep it.

Only model-checked: the liveness properties (`EveryMailSettles`, `AccountSettles`), since fairness and
`ENABLED` are beyond the prover, and the four violations, of which TLC shows the counterexample. Every
safety invariant and action property that a passing run checks is also a theorem, `ImplementsSerial` and
`StaleHasReason` for one request at a time, as in their run.

## 6. Not modelled

- Ownership and role checks (403): one company owns everything, one moderator exists; the properties
  here are about what the permitted callers can do to each other. Who is a moderator is modelled for one
  user by himself (`UserStanding`), not against the moderation of tasks.
- Visibility: tasks and projects are PUBLIC. `updateProject` also accepts the status ARCHIVED, without
  `deletedAt` and without touching the tasks; a project archived that way is not modelled.
- Contents: texts, search, filters, ranking, paging, and the wording of mails and notifications.
- Favorites: single statements under a unique key. (The comment of `addFavoriteTask` speaks of published
  and visible tasks; the code tests `deletedAt` only.) The moments at which a tour was completed or
  skipped, and the order of roles in the array.
- Who is shown a review: `TaskReviews` says what may be shown; for a user with both profiles the code may
  show a developer's review as the company's, which is a parameter there.
- The persona filter of notifications: `REVIEW_CREATED` on somebody else's task, by an author with a
  developer profile, is in a developer's list but relevant to no persona, so nobody can mark it. That is
  the review of a company user who has a developer profile too; `RaisedKinds` contains it, and
  `MarkableIsListed` states only the other direction.
- Unread counts inside the cached lists of threads, and the cached count of candidates, which is never
  used to answer.
- A clock: the response deadline is abstracted to none / running / passed, the times of the outbox to
  due, stale and expired, the ages of tokens to recent, old and expired; the length of a backoff is not
  modelled.
- Isolation levels other than READ COMMITTED; the locks are reflected in the atomic `Commit`.
- The components marked `not_modelled` in `PROJECT.json`, with their reason: stateless code, generated
  documentation, pure I/O.
