# Haymclub in TLA+

Haymclub is a multi-tenant SaaS for sports academies: a NestJS / TypeORM /
PostgreSQL backend (`backend/src`), a React client (`frontend/src`) and some
maintenance scripts. This directory holds TLA+ models of the backend's logic and
of how the client's pages behave, TLC configurations that check them on small instances, and TLAPS proofs of their
main properties for all instances. `PROJECT.json` lists components, runs,
theorems, hazards and, for every definition, the source lines it models.

How to read it: section 1 is what the system consists of, section 2 how the
code becomes a model, sections 3-9 the components that are modelled, section 10
the runs, section 11 the proofs, section 12 what is left out, section 13 the plan.

## 1. Inventory

The backend keeps nothing between requests: everything that lasts is a row.
Many requests run at once (several Node processes are possible). A database call
outside `dataSource.transaction` is a transaction of its own, and the isolation
level is PostgreSQL's default, READ COMMITTED. That is what makes the code hard:
a handler is a sequence of small transactions, and anything may happen between
two of them. There is one background job, the workflow automation.

| Component (`backend/src/...`) | State | Operations | Hard part | What makes it correct |
|---|---|---|---|---|
| `billing` | `trainee_subscriptions`, `subscription_plans`, `payments` | create, renew, pay, status sync (before lists, alerts, dashboard) | row locks; sync's two statements use one, possibly stale, date | paid and balance columns agree with the payment rows; renewals form chains; statuses fit the term and never go back |
| `trainee-invitations` | portal status and expiry of `trainees` | approve, resend, reject, expiry refresh | an approval spans a transaction, a mail and a compensation | an account goes to one trainee; an active account is not invited again; a reported link was sent |
| `password-reset` | `auth_password_reset_tokens`, `users.status` | forgotPassword, resetPassword | two simultaneous requests leave two live tokens; mail fails; tokens expire while a reset runs | a link works once; a reset retires every link mailed by the time it writes the password |
| `portal` | `trainee_account_links` | create, update, remove, primary link | partial unique indexes, soft deletion | one live SELF link per trainee, one primary link |
| `workflow` (engine) | `workflow_tasks` (and events, outbox, which nothing reads) | synchronise, create, set status, escalate, feedback | SELECT-then-INSERT, stale UPDATE by id, no transaction anywhere | one open task per type and entity; the chain agrees with the data |
| `workflow` (automation) | a timer and a `running` flag per process | applyInternalState, synchronise every academy | overlaps administrators and other processes; catches errors and goes on | the chain catches up eventually |
| `super-admin-saas` | `academy_saas_subscriptions`, `saas_payments`, `saas_plans` | create, pay, renew | no lock, no transaction, `save` is SELECT + UPDATE | paid amount against receipts |
| `trainees` | `trainees`, guardians, `group_enrollments` | CRUD, enroll | count-then-insert on a group's capacity | overfill, waiting list |
| `training-groups` | `training_groups`, schedules | CRUD, capacity | capacity changes beside enrolments | as above |
| `attendance` | `training_sessions`, `attendance_records` | createSession (with roster), updateSession, markAttendance, removeSession | roster read while enrolments come; stale saves | rosters complete, of enrolled trainees, never lose a record |
| `super-admin-management` | user status, settings, tickets, audit | single writes; defaults at every start | status changed under a running reset; instances start beside an administrator | the status is in PortalAccounts; a start keeps what was set |
| `portal` (updateLink) | relationship and primary flag of a link | update of a link read before the transaction | stale writes, removed links that come back | a link fits a role of its account; a primary link is replaced, never lost |
| `super-admin-academies`, `academies` | `academies` | create, update, remove | look-then-write without an index | addresses apart where the code checks them |
| `super-admin-academy-management`, `users`, `branches` | branches, users, memberships | createManager, ensureMainBranch, create | two requests create the main branch; partial failure | no account without its membership, whose branch is one of its academy |
| `workflow` (feedback) | feedback rows, their shared task, attachments | submit, resolve | four statements and a file, no transaction | a row has its attachment; a resolved row's task is closed |
| `notifications` | messages, `academy_notification_reads` | send, remove, mark as read | two devices mark at once | listed once, read once told so |
| `rankings` | `trainee_rankings`, soft-deleted rows counted by the index | set, remove | the row outlives its removal | the row is found again |
| `gallery`, `storage`, `uploads` | a file and its row | upload, remove, stream a range | two systems, no common commit | rows and files match; ranges fit |
| `sports`, `training-programs`, `training-groups` (slots) | a row each, weekly slots | CRUD | `save` of a row read earlier | ages in order |
| client (`frontend/src`) | flags, open dialogs and lists of a page | presses, submissions, loads | whatever is not disabled may be pressed between any two steps; answers late, out of order or never | a form is sent once; an answer closes its own dialog; a list does not go back |
| `auth` | none (JWT) | login, roles | none kept | not modelled |
| dashboards, mail, bootstrap, migrations, scripts, tests | none | - | - | see section 12 |

How they interact: every client action is an HTTP request to one service;
services share only the database. `trainee-invitations` calls
`password-reset` and both write what `portal` and `trainees` own, hence one
module for the four. The dashboards call billing's status sync. The workflow
reads counts of everybody's rows and writes only its own. Enrolments are made by
`trainees`, bounded by `training-groups` and read by `attendance`, hence one
module for the three. The parts of section 8 write rows that no other part
reads, or reads only to refuse a request; each is a module, and one run has them all. A
page of the client knows the server by its answers only (section 9).

## 2. From code to model

* A request is a process: a record in `req` (or `worker`) whose `step` names the
  next statement and whose other fields are the local variables used later.
  One action is one autocommitted statement, or one transaction with the locks
  it takes shown as states (`pay`, `renew`, `grant`, `reset`). Two statements
  are one action only when no other request can tell them apart.
* `SELECT ... FOR UPDATE` is a step of its own; what waits for the lock
  has its negation in the guard. A plain SELECT never waits.
* An UPDATE by condition waits for locked rows it matches and matches again on
  what was committed (`SyncExpire`, `SyncActivate`, `ForgotMark`/`ForgotStore`).
* A unique index or a foreign key is a guard of the insert; the failing insert is
  an action or `Stop`/`Abandon`, which also stand for crashes, refused
  validations and database errors at any point.
* TypeORM's `save` of a loaded entity writes the columns that differ from what a
  fresh SELECT returns: `Persistence` says so, and the modules of section 8 and
  SaasBilling have it as two steps; in `UpdateTraineeSave` and `SaveSession`
  it is one, and a comment states what it writes back.
* Definitions introduced by `Slip:` are plausible mistakes in the definition that
  follows them (a lock not taken, a guard dropped, an off-by-one). No
  specification uses them: substituting one for its original must break the
  property it was written for, which shows that the property depends on that code.
* Variables marked `history` record what happened and guard nothing.

## 3. Billing and Ledger (`backend/src/billing`)

`Billing` has the subscription row split in `status`, `term` (the columns set
once) and `money`; `received` is the SUM of its payment rows; `activePlans` is
`isActive`; `day` is the UTC date.

| Code | Model |
|---|---|
| createSubscription | `CreateRead` (checks, today), `CreateInsert` |
| addPayment | `PayLock` (FOR UPDATE), `PayCommit` |
| renewSubscription | `RenewLock`, `RenewCommit` (new row, first payment, old row EXPIRED) |
| syncSubscriptionStatuses | `SyncBegin` (today), `SyncExpire`, `SyncActivate` (two UPDATEs, one date) |
| updatePlan's `isActive` | `UpdatePlan` |
| rollback, refusal | `Abandon` |

Properties: `MoneyMatchesPayments`, `RenewalChain`, `StatusMatchesTerm`,
`StatusOnlyAdvances`, and the liveness property `SyncCatchesUp`. `Ledger` is the
abstract account book (open an account with a first payment, collect against
it); `BooksKept` says Billing implements it, with
`opened`, `charged`, `collected`, `outstanding` read off Billing's tables.

Money is in hundredths: the DTOs accept two decimals and `roundMoney`
rounds every sum to two, so the arithmetic is exact on these inputs. `@IsDateString`
would also accept a date with a time; the model has dates only. PostgreSQL may
refuse FOR UPDATE on the nullable side of the outer joins renewSubscription
asks for; the model takes the lock as granted, a refusal would be `Abandon`.

## 4. PortalAccounts (`trainee-invitations`, `password-reset`, parts of `portal`, `trainees`, `super-admin-management`)

An account is its e-mail address (`users.email` is unique). `portal` is the
trainee's portal status and expiry, `rel`/`live` the link rows and their soft
deletion, `token` the reset tokens. One unit of time is the 60 seconds for which
forgotPassword throttles.

| Code | Model |
|---|---|
| approve | `ApproveBegin` (refresh, read), `ApproveLock` (the account, FOR UPDATE) or `ApproveNoAccount` and then `ApproveInsert` / `ApproveDuplicate` (with the address the trainee's row has at the INSERT), `ApproveCommit`, then forgotPassword with the address read at first, `ApproveUndo` |
| resend | `ResendBegin`, forgotPassword, `ResendCommit` |
| reject, refreshExpiredStatuses | `Reject`, `Refuse`, `Refreshed` |
| forgotPassword | `ForgotBegin`, `ForgotLookup`, `ForgotMark`, `ForgotStore`, `ForgotMail`, `ForgotMailFails`, `ForgotThrows` |
| resetPassword | `ResetBegin` (lock, read, hash), `ResetPassword`, `ResetRetire` (the UPDATE of the others begins), `ResetActivate` (it ends; the UPDATE of the trainees), `ResetCommit` |
| TraineesService.update | `UpdateTraineeBegin`, `UpdateTraineeSave` (writes the status it read) |
| updateUserStatus, createLink, removeLink | `UpdateUserStatus`, `CreateLink`, `RemoveLink` |

Properties: `LinkWorksOnce`, `ResetRetiresAllLinks`,
`ApprovalsDoNotShareAccounts`, `RecoveryKept`; and two statements of the code's own
messages that it does not keep, `ActiveIsNotReinvited` and `ApproveSendsALink` (findings below).

`PasswordLinks` is the abstract recovery of a password, without requests, locks, mail
or clock: a link belongs to one account for ever, is sent at most once, and sets a
password once, after it was sent and while it is good; a link that is presented is
spent, and others of its account may be with it. `RecoveryKept` says PortalAccounts implements it:

| PasswordLinks | PortalAccounts |
|---|---|
| `owner`, `good`, `sent`, `used` | the tokens' e-mails, the UNUSED tokens, `mailed`, `uses` |
| `Make` | `ForgotStore` (the tokens `ForgotMark` saw are retired, others stay good) |
| `Send`, `Withdraw` | `ForgotMail`, `ForgotMailFails` |
| `Use`, `Waste` | `ResetCommit` with a password written, and without (account not ACTIVE) |
| a stutter | everything else |

A statement of a transaction sees what is committed when it begins, so a token that is
stored and mailed while a reset runs is retired only if the second UPDATE sees
it. What a reset promises is about the links that had been mailed when it wrote
the password (`known`); a mail sent after that may bring a link that outlives it.

A mail that fails may have been delivered all the same. resetPassword refuses when
`updatedUsers.length === 0`, but with TypeORM 1.1.0 (`package-lock.json`) `query()`
answers an UPDATE with `[rows, count]`, whose length is never 0: for an account blocked
meanwhile the transaction goes on, marks its tokens used and its trainees ACTIVE,
and sets no password. `ResetPassword` has both outcomes. update's `save` is one
step.

**Findings.** (1) approve and resend check ACTIVE before their transaction and
write INVITATION_SENT unconditionally, so an account activated in between is
turned back into an invited one and later EXPIRED. (2) approve answers that the
link was sent even when the mail failed, because forgotPassword
catches the error; approve's compensation never runs for a mail failure.

## 5. Workflow (`backend/src/workflow`)

One academy (the order in which a cycle takes academies, and that an error ends it
for those that follow, is not modelled). Task types are positions in the chain: `1..Setup` (branch, manager,
..., group), `Add` (ADD_TRAINEE), then the operations from `Link`; `0` is
REVIEW_DUPLICATE_ACADEMY_MANAGERS. `facts` are the steps the data show as done. A
worker is an automation or an administrator's request; its record is the point
it has reached in syncAcademy / syncOperationalChain. A row is of a type and an entity: the
engine's own tasks are the academy's (`Own`), a task posted by hand may be of
another, `SYSTEM` by default, and the unique index is per entity. `newest` is the
latest row of a type and an entity, which ensureOpenTask and ensureCompletedTask look for;
`lastAdd` the latest ADD_TRAINEE row of all, which syncOperationalChain looks for.

| Code | Model |
|---|---|
| runCycle | `CycleBegin`, (synchronisation), `CycleEnd` |
| applyInternalState | `Released` |
| syncAcademy, syncOperationalChain | `ReadCounts`, `ReadOperations`, `SetupCall`, `OperationCall`, `Returned` |
| createTaskIfMissing | `Missing`, `Insert` |
| ensureOpenTask, ensureCompletedTask | `Find`, `Missing`, `Insert` / `Update`, `Reload` |
| updateTaskStatus, createNextTask | `UpdateTaskStatus`, `Unblock` |
| escalateTask, createTask, POST workflow/sync | `EscalateTask`, `CreateTask`, `SyncRequest` |

Properties: `OneOpenTask` and the liveness property `Settles` (the
automation brings the chain to agree with the data, `Settled`, and keeps it so).
`Settled` excepts a done LINK_PORTAL_ACCOUNT, which every
synchronisation re-opens and completes again. LINK_PORTAL_ACCOUNT rests READY or PENDING
as `lastAdd` is completed or not (`Awaited`), so an ADD_TRAINEE task an administrator
posts and leaves open keeps it PENDING for ever, whatever trainees there are: the
code does this and says nothing of it.

Concurrent reads of one synchronisation (`Promise.all`) are one step. Titles,
roles, parents, dates, metadata, events and the outbox are left out; feedback
is in `Feedback` (section 8). Closed rows that are not the latest of their type and to
which nothing points are forgotten when room is needed (`Forgettable`), so that
`Slots` bounds what is remembered and not how often a task is made.

## 6. SaasBilling (`backend/src/super-admin-saas`)

`row` is a subscription's status, end and paidAmount; `receipts` the SUM of its
payment rows; `opening` the paidAmount it was created with. No lock is taken:
`FindOne`, `CreatePayment` / `RenewSubscription` (the payment's INSERT and the
entity in memory), `SaveSelect` and `SaveUpdate` (TypeORM's `save`) are four
steps with anything between them, and `Stop` leaves what was written.

Properties: `NeverOverstated` (stale saves lose credit, they never invent it)
and `ExactWhenUndisturbed` (requests one at a time and none failing keep the
amount exact; `disturbed` records when that was not so). That concurrent
payments lose credit contradicts no statement of the repository, so it is a
hazard and not a finding. Amounts have two decimals (JavaScript's rounding is
left out), addMonths yields some later day, plans and payments that
name no subscription are left out.

## 7. Roster (`trainees`, `training-groups`, `attendance`)

| Code | Model |
|---|---|
| enroll | `EnrollRead` (trainee, group, no row yet), `EnrollCount`, `EnrollSave` |
| training-groups update | `UpdateGroup` |
| createSession | `CreateSession`, then in its transaction `ReadRoster`, `CommitSession` |
| updateSession | `UpdateSession` (loads session and records), `SaveSession` |
| markAttendance | `MarkAttendance`, `ReadRecords`, `SaveRecords` |
| removeSession | `RemoveSession` (soft) |

Properties: `OverfillBounded` (how far the count-then-insert of enroll can
overfill a group), `WaitlistedMeansFull`, `RosterComplete`, `RecordsAreEnrolled`,
`RecordsKept`. Nothing sets PAUSED, nothing promotes a WAITLISTED row, no
endpoint removes an enrolment. `save` of a session with loaded records would set
`session_id` to NULL on records that have come since; the column refuses it, so
`SaveSession` has a guard. Ages, branches, coaches, times, the removal of
trainees and groups only refuse requests (`Stop`). Whether TypeORM
obeys the changed id column or the loaded relation when both are saved (coachId,
branchId) is not modelled; none of the properties looks at them.

## 8. The parts that share no state

Nine small modules, composed with `ClientScreens` in `Areas` (`MCAreas` adds a symmetry and a bound for TLC): a
behaviour stays in the part it starts in, the variables of the others keep their first value. `Persistence` has `save` for all.

| Module | Source | State | Actions |
|---|---|---|---|
| `PortalLinks` | `portal`; approve's link | `roles`, `link` (relationship, flag, removed), `linkEdit` | createTraineeAccountLink, createLink, removeLink, approve; updateLink as `ReadLink`, then `SaveAsPrimary` (one transaction: clear, save), or `SelectLink` and `WriteLink` (the two statements of save) |
| `Feedback` | `workflow` submitFeedback, resolveFeedback, the controller's upload | `message`, `deskTask`, `attached`, `clerk` | `SubmitFeedback` (attachment), `FindTask`/`InsertTask`, `InsertFeedback`, `InsertEvent`, `FailSubmission` (deletes the attachment), `CrashSubmission`; `ResolveFeedback`, `MarkResolved`, `CloseTask`; `SetTaskStatus` |
| `Catalogue` | `sports`, `training-programs`, slots of `training-groups` | `entry`, `slot`, `curator` | `CreateEntry`, `ReadEntry` (load, check, merge), `SelectEntry`, `WriteEntry`, `RemoveEntry`; `AddSchedule`, `RemoveSchedule`, `ReadGroup`, `SaveGroup` |
| `Media` | `gallery`, `uploads`, `storage` | `item`, `stored`, `size`, `picture`, `uploaded`, `editor`, `reply` | `StoreFile`, `SaveItem`, `SaveFails`, `SaveAnswerLost`, `FindItem`, `RemoveItem`, `DeleteStoredFile`, `DeleteFails`, `StreamFile`, `StreamWhole`, `MediaCrash`, `UploadPicture`, `NamePicture` |
| `Tenants` | `academies`, `super-admin-academies`, `super-admin-academy-management` | `academy`, `registrar` | `CheckAcademy` (assertUnique), `CreateAcademy`, `UpdateAcademy`; `SaveAcademy` (the endpoints that do not look), `RemoveAcademy` |
| `Provisioning` | `branches`, `users.create`, createManager, ensureMainBranch | `office`, `staff`, `membership`, `operator` | `ReadForManager`, `InsertManager` (the transaction), `EnsureMainBranch`, `CreateBranch`, `RemoveBranch`, `CreateUser` |
| `Notices` | `notifications` | `note`, `rows`, `branchOf`, `marking` | `SendNotice`, `RemoveNotice`, `MarkAsRead`, `LookForRow`, `InsertRow`, `FailMarking` |
| `Rankings` | `rankings` | `score`, `scoring` | `SetPoints`, `FindScore`, `InsertScore`, `SelectScore`, `WriteScore`, `FindForRemoval`, `RemoveScore` |
| `PlatformSettings` | `super-admin-management` onModuleInit, updateSetting | `setting`, `boot`, `setter` | `LookForDefault`, `InsertDefault`, `StartAnew`; `FindSetting`, `InsertSetting`, `SelectSetting`, `WriteSetting` |

Properties, with what they except and why:

* `LinkFitsAccount`, `PrimarySurvives`: without exception. updateLink writes the
  relationship it read, and it checks the account's role before its
  transaction; roles are only ever added, so the check stays good. It tests the
  roles TRAINEE and PARENT only (`Fits`), createLink refuses the staff (`Linkable`). An
  approval makes a staff account a trainee's too, so its membership of the staff may be the one
  updateLink finds, and its SELF link may become PARENT: the property says that
  the account is a client's and that one of its roles admits the relationship.
* `AttachmentsMatch`: not where a request was cut off between its statements
  (`cut`). An error of the event's INSERT counts: it deletes the attachment of a row that stays.
  `ResolvedClosesTask`: not where the administrator re-opened the task.
* `AgesInOrder`: not for a row written between the SELECT and the UPDATE of
  one save (`crossed`): `save` then writes one age and keeps the other,
  which nobody has compared.
* `FilesMatchItems`: not after a crash between file and row, an INSERT
  committed without an answer, or a file the store would not delete
  (`unsure`); nothing brings the two together again. `PartFits`: every range of every
  size up to `MaxSize`, empty files included.
* `AddressesApart`: not where two requests overlapped or an endpoint that does
  not look wrote the address (`unchecked`).
* `AccountsComplete`, `MessagesOnce`: without exception. A super administrator's membership is
  in no academy, and users.create then compares the branch it is given with nothing; the
  property is that every account has a membership, and that one in an academy
  names a branch of that academy or none.
* `ScoreRowFound`: not for a request beside which another wrote its row (`disturbed`).
* `SettingsOutliveBoots`: the action property that no start overwrites.

Worth knowing, and contradicting no statement of the repository: the removal and
the update of a row overlap such that a removed row comes back (`SelectEntry`
before, `WriteEntry` after); update in rankings may save the points and answer
404, because the trainee became inactive; a feedback attachment is streamed from the local
directory only, whatever store is configured.

## 9. Screens (`frontend/src`)

`Screens` is what the pages have in common. A press of a button sets flags
(`busy`), exchanges messages with the server (`Serve`, `Answer`), closes or opens
dialogs, loads the list anew (`Read`, `Deliver`) and clears the flags (`Finish`,
the `finally`). Between any two of these steps another press may come, if no flag
disables its button (`off`) and no dialog covers it; an answer may be late, a refusal
or nothing (`Fail`); a 401 ends the page (`SignOut`). `OfficeScreens` and
`PlatformScreens` describe the 22 pages as data, which
`ClientScreens` puts into one table, `Pages`: for each handler a control with its
flags, for each dialog the flags that keep it from being left. In a page's
description each record field is read off the `disabled=` of the button, and each
handler off its `setX(true)` ... `finally`.

`OneSubmission`: two changes that share a flag are not under way together.
`DialogsKept`: an answer closes the dialog it was sent from and not the same
dialog opened anew. `NeverOlder`: the list does not go back to an older state of
the server. Not every page promises them;
`OverlappingPages`, `ReopeningPages` and `UnorderedPages` name those that do not:

| Page | Overlapping | Reopening | Unordered | Why |
|---|---|---|---|---|
| BillingPage | x | x | x | the details button works during a submission and its answer clears the flag; each dialog has a cross that is not disabled |
| SuperAdminPage | x | x | x | the forms' buttons are never disabled |
| SuperAdminAcademiesSection | x | x | x | list, details and forms share one flag; the panel can be left and its rows stay in use |
| SuperAdminOperationsSection | x | | x | loading another tab clears the flag of a submission |
| AcademyRequestsPage | x | | x | `savingId` holds one request at a time |
| SettingsPage, AttendancePage, GroupsPage, UsersPage, ClientFeedbackPanel | | | x | every answer is shown, also one to an earlier question |

The remaining pages (TraineesPage looks at `requestId`, those on react-query at
the query's order) promise all three. Whatever a page sends twice,
the backend takes as two requests, which the other sections are about. The trainee form deserves a
remark the model does not make: its messages (photo, trainee, enrolment, plan, subscription) count
as one exchange, of which any part may be done when it fails, and a second press after a
failure of a later one creates the trainee again.

## 10. Runs

| Run | Instance | Distinct states | Properties | Shows |
|---|---|---|---|---|
| `billing_money` | 2 requests, 2 rows, 1 plan, 2 days, totals to 2 | 103 332 | TypeOK, MoneyMatchesPayments, BooksKept | payments, renewals and syncs of the same rows keep the money columns equal to the payment rows, and every step is one of Ledger or a stutter |
| `billing_terms` | 2 requests, 3 rows, 2 academies, midnight inside requests | 206 208 | RenewalChain, StatusMatchesTerm, StatusOnlyAdvances | single chains inside an academy; a superseded row stays EXPIRED in spite of stale dates |
| `billing_sync` | 2 requests, 1 row, 3 days, FairSpec | 30 448 | SyncCatchesUp | a sync waiting for a row lock is not starved |
| `accounts_all` | 2 requests, 1 trainee, 1 address, 2 links, 2 minutes | 865 465 | TypeOK, LinkWorksOnce, ResetRetiresAllLinks, RecoveryKept | every operation of PortalAccounts, including two overlapping forgotPassword requests; every step is one of PasswordLinks or a stutter |
| `accounts_approvals` | 2 requests, 2 trainees, 2 addresses, no mail, clock at rest | 428 833 | ApprovalsDoNotShareAccounts | approvals, updates, links and unlinks between one another's steps |
| `accounts_reinvited` | as accounts_all | - | ActiveIsNotReinvited: violated | finding (1) |
| `accounts_silent` | as accounts_all | - | ApproveSendsALink: violated | finding (2) |
| `workflow_all` | 5 types, 2 entities, 1 automation, 1 administrator, two disturbances: a request or a change, and failures | 467 223 | TypeOK, OneOpenTask | all operations between one another's statements |
| `workflow_settles` | as above, two disturbances: changes and failures, or requests and failures, fair | 326 192 | Settles | the automation alone repairs the chain |
| `saas_books` | 3 requests, 1 row, amounts to 2, 3 days | 464 231 | TypeOK, NeverOverstated, ExactWhenUndisturbed | overlapping and failing payments and renewals |
| `roster_all` | 2 requests, 3 trainees, 1 group, 1 session, capacities to 2 | 121 566 | all five and TypeOK | enrolment, capacity, session and attendance beside one another |
| `areas` | the parts of sections 8 and 9, two requests in each, all pages, 2 presses, 1 change | 552 753 | the thirteen invariants and three action properties named there | every part under overlapping requests, failures and crashes; every page under any order of presses and answers |

**Why these bounds.** The hazards are races of two requests, so two requests
reach each of them; three where a third can undo what two did (`saas_books`).
Two subscriptions make a renewal, three a chain of renewals or two renewals of
one row. A total of 2 allows two partial payments and an overpayment
attempt. One midnight is what makes a date stale, two make a term that begins and
ends while a request is running. Two tokens are what two overlapping
forgotPassword requests leave; two minutes let the throttle and a token's life
pass. Three trainees and a capacity of 2 let two enrolments overlap on the
last place, with and without another row. The workflow's chain is cut
to one setup step (the one that may be duplicated), ADD_TRAINEE and two
operations, of which the code treats all but the first alike; three rows of a
type and entity are enough for an insert never to lack room. Two entities are the academy's and any
other. Roster's
one group and one session are enough because no property relates two of them.
Amounts of 1 suffice for `billing_sync`, which is about statuses.
In `areas`, no rule relates two sports or programs, files, addresses or groups, so
there is one of each; two academies let a branch be
another's; two users and two trainees give a user's primary link somewhere to go
and a trainee a second account; two messages and two tasks let a resolved
message's task be shared or replaced; ages 1 and 2 can be out of order (0 is none);
sizes to 2 have an empty file, a single byte, and parts at the start, at the end and of all of it; two instances and two
administrators race for a key, and keys do not depend on each other. Two presses are what
overlaps; one change gives the list two versions, one of which may come late, and a
second submission meets the page in every state the first has left it in. The parts share one run because they share
no variable: its states are the sum of theirs, not the product. (Sports and slots of
`Catalogue` are apart for the same reason.)
The invariants are proved for all bounds (section 11), so the runs show
mainly that the properties can be broken by the slips and that every action
happens. `ApprovalsSpec`, `DisturbedSpec` and `SettlingSpec` bound a run to keep
it small: the first leaves operations out; the second has a change of the data apart from
a request, and of the posted tasks that wait for a row only the academy's; the third lets an
administrator synchronise, escalate, or post an ADD_TRAINEE task of either entity, only before the
other disturbance, and post no other task; `FewStaff` has one account of the staff in PortalLinks; the theorems are about the full `Spec`.

Symmetry is used for safety properties only, over sets of identifiers none of
which is named in the specification (in `areas` over users, trainees, accounts, messages and requests of four parts, exchanged
together because the parts share no state).

**Fairness.** Billing's `FairSpec`: a transaction that has begun ends (weak
fairness of `Ends`: Node and PostgreSQL do not stop in the middle for ever), and a statement
that waits for row locks gets its turn because PostgreSQL queues waiters (strong
fairness of the two UPDATEs). Nobody has to send a request. Workflow's
`Fairness`: the timer of the automation fires for ever (`Cycle`, every 30
seconds) and a process that has begun goes on with its next statement (`Work`);
failures, changes and administrators' requests are bounded by `MaxStops`,
`MaxChanges`, `MaxRequests`, without which nothing could ever settle.

Deadlock is checked in every run but `areas`: each specification can always take a step,
because the environment may always send a request that is refused or changes
nothing (`Refuse`, `UpdatePlan`, `UpdateGroup`, `Stop`) or the automation runs.
The parts of `areas` really end: a page after a 401, and parts in which every
identifier has been used (every message removed, every account created).

## 11. Proofs

Eight modules `*Proofs` extend the modules they are about. All theorems hold for
any values of the constants that satisfy the module's assumption.

* **BillingProofs**: TypeCorrect, MoneyAlwaysMatches, BillingKeepsBooks
  (refinement), RenewalsFormChains, StatusesMatchTerms, StatusesAdvance.
  MoneyMatchesPayments is not inductive: PayCommit writes what PayLock read. The
  strengthening `Locks` says what FOR UPDATE gives, that what the transaction has seen is
  still in the row and that nobody else holds it; `Fresh` that unused
  identifiers have no payments. The chains need that a request's renewal
  target stays unrenewed until it inserts; the statuses need that a request's
  date is not in the future.
* **PortalAccountsProofs**: TypeCorrect, LinksWorkOnce, ResetsRetireAllLinks,
  ApprovalsNeverShareAccounts, RecoveryImplementsLinks (refinement). Two locks
  carry them: a token a reset has
  locked stays UNUSED until it commits, so a used or unused token's count is
  known; an account an approval has locked gets no link to another trainee.
  The refinement needs what a request knows of its tokens between statements
  (`InFlight`: those it is about to retire are of its account, the one it is about to mail exists and was
  not mailed, the one it resets was, and the links a reset knew of that are
  still unused are among those it is about to retire), that no two requests mail the same token (`OneMails`) and
  that a token has an owner exactly when it exists (`Owned`); then one lemma per
  action maps it to its abstract one.
* **WorkflowProofs**: TypeCorrect (a process about to update a row, or to release what waited for
  it, knows which: `Addressed`), TasksOpenOnce. OneOpenTask rests on the
  guard `Taken`, the unique index, in each of the five places that can open a
  row, and on the fact that a release turns one open status into another.
* **SaasBillingProofs**: TypeCorrect, PaidNeverOverstated, PaidExactAlone.
  `Bounded`: no entity in memory holds more than was received. `Faithful`: on an
  undisturbed subscription there is one request, and what it holds is exact.
* **RosterProofs**: TypeCorrect, OverfillIsBounded, OnlyFullGroupsWait,
  RostersAreComplete, RecordsOfEnrolled, RecordsNeverLost. The bound becomes
  inductive when the requests between count and insert are added to the
  places taken (`Counted`), with the capacity a request has read between the
  extremes the group has had (`Within`). The rosters rest on what a request
  carries (`Carried`), which stays true because enrolments only come and a
  session keeps its group (`Grows`).
* **ServicesProofs**: SavesAgree says what TypeORM's `save` does to any row: both forms in
  which the models have it agree, undisturbed it writes the entity, and a
  concurrent write survives exactly in the columns the entity has as it read them.
  Then one theorem for each module of section 8, with its
  types, and three for PortalLinks: LinksTypeCorrect, PrimaryLinksSurvive, and
  LinksFitAccounts, which needs that a role once given stays and that an updateLink carries a
  relationship that some role of the account admits (the stale one it read, or the checked new one). NoticesInv: who was told has a row. TenantsInv: a request that nobody has
  raced still finds its address free (`StillFree`). ProvisioningInv: the branch
  createManager has read stays one of the academy's (`OfficeRead`). CatalogueInv:
  what an update carries is in order as long as its row was not crossed
  (`RowsInOrder`). FeedbackInv: what a request knows of its message and task
  (`ClerksKnow`), one submission per message (`SubmittedOnce`), a live row's task exists
  (`TasksExist`). MediaInv: what a request knows of its item (`EditorsKnow`), one
  upload per file (`StoredOnce`); PartFits by cases of the range. RankingsInv: an
  undisturbed request has seen its row as it is. SettingsAreKept needs the types
  only. The assumptions name reserved values (`"none"`, `"new"`) that
  identifiers must not be, and make bounds natural numbers.
* **ScreensProofs**: for any table of pages (`ScreenAssumption`: the records are well
  formed). FormsSentOnce, DialogsAreKept and ListsNeverGoBack each assume a
  condition on the pages not excepted that reads the table and no
  behaviour: every flag two changes share is *guarded* (whatever sets it is
  disabled by it, no load and no other control clears it, `FormsGuarded`);
  every dialog that closes with an answer is held open by such a flag (`DialogsGuarded`);
  the page orders its answers or has no list (`ListOrdered`). The invariant
  behind the first two: a guarded flag is held by at most one press, and stays set while it
  is. FlagsAreCleared: without a press under way no flag is set, so no button stays
  disabled, on any page whose loads, if an outdated one leaves its flags to the next, all set them (`LoadsAlike`);
  the invariant is that some press accounts for every flag (`FlagsBorne`).
  It is stated as a theorem only, no run checks it.
  The conditions are then proved of the table `Pages`, page by page
  (`PagesDisciplined`, `PagesKeepDialogs`, `PagesOrdered`, `PagesLoadAlike`), which gives the
  theorems about this client: ClientFormsSentOnce, ClientDialogsAreKept and ClientListsNeverGoBack for
  every page outside the table of section 9, ClientNeverStaysDisabled for all.
* **AreasProofs**: AreasAreTheirParts, the composition implements the specification of each of its
  parts; hence AreasTypeCorrect and ServicesKeepTheirPromises, the theorems
  about the parts for the specification the run checks.

Only model-checked: the liveness properties SyncCatchesUp and Settles (liveness
under fairness is out of the prover's reach), and the two findings, which are
counterexamples.

## 12. Not modelled, and why

* Columns no rule relates (names, codes, levels, notes), updates of branches and
  price plans, guardians: each operation validates references and writes one
  row; the database keeps codes unique.
* createGuardianLink finds or creates a guardian by phone, and create looks for a
  trainee's address before it inserts: two requests may make two. No statement
  of the code forbids it.
* Between approve's commit and forgotPassword a crash leaves an invitation without a link
  until it expires or is sent again; updates of a trainee made meanwhile are
  overwritten by a stale `save` (PortalAccounts has the columns that matter).
* Support tickets, audit, the workflow's events and outbox: written, never read back.
* Authentication: a JWT is verified and its roles compared; no state.
* Dashboards and statistics: read-only. Mail: only what its caller sees.
* Migrations, bootstrap, maintenance scripts: no state beside the
  requests of the models.
* Of the client: what is in a form or a list, rendering, styles, translation,
  ClientPortalPage and the prompt to install, which only show what they get; a page left while
  messages are under way; the order of the messages inside one press.
* Resurrection of a soft-deleted row by a stale `save` occurs in `SaveSession`; for other
  entities nothing depends on it.

## 13. Plan

Order: what handles money and access first, then the background job, then
the rest.

1. Done: Billing with Ledger, PortalAccounts, Workflow, SaasBilling, Roster,
   their runs and proofs.
2. Done: PortalLinks, Feedback, Catalogue, Media, Tenants, Provisioning, Notices,
   Rankings, PlatformSettings and Screens with all pages, in one run, with
   their proofs.
3. The steps of the trainee form's exchange, and of SuperAdmin's manager
   form, as messages of their own, composed with Roster and Provisioning.
4. Done in part: PasswordLinks, the abstract recovery of a password, proved of
   PortalAccounts. Left: an abstract specification of an invitation (invited, accepted,
   expired, rejected) kept except for finding (1), and one of a task chain for Workflow.
5. Guardians and trainees' addresses beside enrolment.
6. Done: the conditions of ScreensProofs proved for all pages, and Areas with its proofs.
