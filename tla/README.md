# Placement Tracking System: a TLA+ verification project

The system is a Flask application (`app/`) on MySQL through SQLAlchemy, served by two
gunicorn workers (`Dockerfile:14`). With debug off (`FLASK_ENV=production`,
`app/config/production.py:6`) each of them also starts its own in-process APScheduler
(`app/__init__.py:44`, `app/services/scheduler.py`): that is the deployment modelled. With
debug on `scheduler.py:45-46` starts one under Flask's reloader only, and none under
gunicorn; `docker-compose.yml:10` sets `FLASK_ENV` to development, so as it stands that file
gives two workers and no job, and a billing cycle only by the super admin's button (F:2407)
or `run_billing_cycle.py`. Training organizations subscribe to plans,
enrol candidates, message them, place them with employers and follow the placements up;
a super admin runs the platform. Paths below are relative to the repository's directory
under `src/`; `F:n` is line n of `app/routes/frontend.py`.

Sections: 1 inventory, 2 plan, 3 billing, 4 messaging, 5 candidates and placements,
6 the candidate's side, 7 the office, 8 what is proved, what is checked, what is left out.

## 1. Inventory

| Component | State | What is hard | What makes it correct | Module |
|---|---|---|---|---|
| Billing (`services/billing.py`, forms in `routes/frontend.py`) | `organizations`, `invoices` | two schedulers at the same minute; snapshots older than the write; a loop that commits in the middle | no period billed twice at the same time, one purchase to pay, a lapsed organization loses access, deleted stays deleted | `Billing`, `InvoiceRegister` |
| Payments (`services/payment_gateway.py`, webhooks, billing page) | link at the provider, `invoices.status`, purchase applied | repeated and late deliveries, three ways to confirm one payment | granted once, recorded in the end | `Billing` |
| Scheduler (`services/scheduler.py`) | one job table per process | one in each worker when debug is off, workers die | jobs tolerate running twice and being cut | in each job's module |
| Messaging (`services/messaging_service.py`) | credits, ledger, log, retry queue | atomic credit update, ledger and log in later commits, provider answers lost | credits never negative and never lost, retries end | `Messaging`, `CreditAccount` |
| Candidates, employers, placements (forms in F, `services/lifecycle.py`) | `candidates`, `employers`, `candidate_placements` | placements are derived from the candidate by every form; limit and mobile number checked before the insert | a placement follows its candidate, history stays, the limit holds | `Candidates` |
| Candidate login, consent, API (F:179-240, 7600-8196, `api/v1/candidate.py`) | cookies, codes, consents, links, passwords | what a cookie says was true earlier; check and use are two steps | consent before access, default password replaced, codes and links used once | `CandidatePortal` |
| Notification schedules (`services/notification_scheduler.py`) | `last_run_at` | crash in the middle of a run, two schedulers, short months | once a period, every period | `Schedules` |
| Document reminders (`services/document_reminders.py`) | reminder log | send before record | one reminder, and apart | `Reminders` |
| KYC (`services/kyc.py`) | documents and the derived status | the status is a commit of its own | the status follows | `Kyc` |
| Uploaded files (F:8613 and the other uploads) | rows and files | file, row and removal of the old file are not one transaction | a row's file is on disk | `Documents` |
| Follow-ups and notifications (F:560-640, `services/lifecycle.py`) | checkpoints, notifications | look up, then insert, with no key | each once | `FollowUps` |
| Call centre (F:1768-2186) | tasks, logs, corrections | two agents on one call | logged once, the trail is complete | `CallCentre` |
| Staff login, sessions (F:642-1025) | codes, sessions, the account | codes of two purposes in one table; deactivation between check and session | logged out at once, few codes valid | `StaffAccess` |
| API tokens (`api/v1/auth.py`) | revoked tokens | two refreshes with one token | one successor | `ApiTokens` |
| Rate limits (`utils/rate_limit.py`) | a Redis counter | INCR and EXPIRE are two commands | a window ends | `RateLimits` |
| Roles and permissions (`utils/permissions.py`, role and user forms in F) | roles, grants, overrides, cached codes | cleared after the commit, filled from before it | changes take effect | `Permissions` |
| Report cache (`utils/report_cache.py`) | one entry, clients per process | Redis lost, late fill | stale for named causes only, as many changes clear nothing | `ReportCache` |
| Batches and attendance (F:9000-9216, 5202-5255) | batches, marks | a whole sheet is one commit | marked once a day | `Attendance` |
| Vacancies (F:5382-5542) | rows | only changed columns are written | salaries in order | `Vacancies` |
| Support tickets, feedback | tickets, one feedback | two offices answer at once; blank fields; only changed columns are written | closed tickets are answered | `Support` |
| Feature flags (`utils/feature_flags.py`) | overrides and defaults | first toggles overlap | as last asked | `FeatureFlags` |
| Data breach notices (`utils/email.py`) | notices, e-mail log | two ways to send an e-mail; the log may lose a row | told once, accounted for | `BreachNotices` |

Components share only the database, the disk and Redis: no messages pass between
processes. Requests, jobs and webhooks interact by reading rows in one transaction and
writing them by primary key at its commit. `PROJECT.json` lists the hazards of each with
the line where it bites.

## 2. Plan

The order was: billing, because everybody's access hangs on it; messaging, because credits
are money; candidates and their portal, because placements are what the system is for; then
the sixteen smaller components of the office. Each module has its constants with a named
assumption, one action per operation, and no RECURSIVE operator. Two abstract
specifications are implemented by the detailed ones: `InvoiceRegister` (what the invoices
table promises) by `Billing`, `CreditAccount` (what a prepaid balance promises) by
`Messaging`.

Proofs followed the same order, in modules of their own named after the component
(`BillingProofs` and `BillingSafetyProofs`, `MessagingProofs`, `CandidatesProofs`,
`PortalProofs`; for the office `OfficeRecordsProofs`, `OfficeAccessProofs` and
`OfficeTimesProofs`).

Left for later: the three payment providers told apart; several lengths of billing cycle
and plans withdrawn from sale.

## 3. Billing

### Units of work

`Billing` models the ORM's unit of work, because that is where concurrency bites. A
process reads everything in one snapshot (`View`, MySQL REPEATABLE READ; a transaction
that commits nothing keeps its snapshot, `Hold`), computes new attribute values, and its
commit sets, by primary key, only the attributes it changed (`Flush`), over whatever other
transactions committed meanwhile. `Begin` opens the unit of work with what was read
(`old`), what is to be written (`new`) and the invoice to insert; `Commit` writes; in
between all other processes run. `invoice_number` counts the invoices the snapshot sees
and is UNIQUE, so an insert whose snapshot missed another insert fails (`NumberTaken`,
`CommitFails`): the numbering acts as an optimistic lock on the whole table. The position
in the sequence `invoices` is the number.

| Definition | Code |
|---|---|
| `StartCycle`, `ContinueInvoicing`, `InvoiceLoop` | the generation loop; each insert is a commit, after which the loop reads afresh |
| `SendReminders`, `SweepOverdue`, `AutoSuspend` | the other steps of `run_billing_cycle`; the dashboard also runs `AutoSuspend` |
| `Webhook`/`Answer`, `StartSync`/`SyncInvoice`/`EndSync`, `MarkPaid` | the three ways to `mark_invoice_paid` (`MarkInvoicePaid`, `Activated`); every webhook answers 200, and the answer may be lost |
| `ChoosePlan`, `PayInvoice`, `OpenLink` | the organization's Plan & Billing page |
| `Subscribe`, `Prorate`, `GenerateInvoice`, `Extend`, `Suspend`, `Activate`, `Delete`, `Edit` | the super admin's forms |
| `Crash`, `NextDay`, `CustomerPays` | a worker dies, the calendar, the payment provider |

`Edit` clears the subscription because the handler reads fields its form does not have.
`activated` and `reopened` are history variables: no guard reads them.

Abstractions: one length of billing cycle, plans stay on sale, the provider is one
variable `gateway` that stands for the link, for `gateway_reference` and for what the provider
knows of the payment (`acknowledged`: one of its deliveries was answered), invoice numbers do
not cross a year's end, organizations exist from the start (creating one is `Init`),
wording, mail texts and audit rows are left out. `CHECK_DEADLOCK FALSE` in the cfgs: the
bounded calendar and number of invoices end behaviours.

### Runs

| Run | Instance | Shows |
|---|---|---|
| `billing_jobs` | two schedulers, one request, crashes, 2 days, 2 invoices | `OneOpenJobInvoice`, `UnitsOfWorkConsistent`, and the refinement `RegisterSpec` |
| `billing_admin` | two organizations in one loop, job and button, subscription form and deletion between iterations | `TypeOK` (an invoice always names a plan although the plan may be cleared under the loop), `DeletedStaysDeleted` |
| `billing_payments` | two requests, two purchases, sweeps, webhooks and polling | `OnePendingPurchase` (Choose Plan pressed twice at the same time), `GrantedOnce`, `PaymentIsRecorded` |
| `billing_suspension` | four days, manual suspension, activation, extension, edit, dashboard | `LapsedLosesAccess` |
| `refute_billed_once` | two schedulers | a second run of the day bills the period again once the first invoice is OVERDUE, although `run_billing_cycle.py:11` calls that safe |

The bounds (`MaxDay`, `MaxInvoices`, `MaxExpiry`) are in the guards and named in the cfgs.
`billing_jobs` has the pairs of two cycles and of a cycle and a request, `billing_payments`
those of two requests; no step involves three units of work, and `NoDoubleBilling` and
`NoDoublePurchase` hold for any number of both. Two invoices are what a double billing or a
double purchase needs; days are few because every day repeats the same jobs, and one more
day than the grace period and the renewal window is all a step can see. The theorems below
do without the bounds.

Fairness (`Fairness`): days pass; a job of a deployment with debug off fires daily, a started
job and a started request run to their end (gunicorn and APScheduler threads); a provider
repeats its webhook until one delivery is answered (`Delivery`; strong fairness, as workers
may be busy when it comes) and not longer, as each handler answers 200 (F:1479, 1540, 1584).
Late duplicates of an answered delivery may come and need not. Nobody is obliged to
pay, to press a button or to confirm by hand. The liveness runs contain no crashes: a
worker that dies every day never suspends anybody.

### Proofs

`BillingProofs` proves `TypeCorrect`, `BillingSafetyProofs` the rest, for all constants
allowed by `BillingAssumption`.

* `TypeCorrect`: `Spec => []TypeOK`. The work is in the column-wise merge of `Commit`:
  mixing columns of three proper rows gives a proper row.
* `NoDoubleBilling`, `NoDoublePurchase`, `StaleButConsistent`: the two invariants are not
  inductive, as they do not know why a stale unit of work may insert. `IInv` adds, for
  every open unit of work, that the table has only *evolved* from what it read (rows kept,
  statuses changed, none back to PENDING) and that its insert has no pending rival in what
  it read or writes. At its commit either the number is taken, or nobody inserted since the
  snapshot; then every row is an evolution of one the unit has seen, so the rival cannot
  have appeared.
* `ImplementsRegister`: `Spec => RegisterSpec`, from the same invariant: initial states map
  to initial states, every step to a step of the register or a stutter.
* `CreditsAreGrantedOnce` and `DeletionIsPermanent` need to know what a unit of work does to
  the organizations it read (`Made`): it brings none back, and it leaves their credits,
  writes at most the initial ones, or adds those of the one invoice it records, which was
  open when it was read. `Moves` shows that of every handler. `Credited` adds that an
  applied invoice is PAID or CANCELLED unless it was swept since (`Stands`), and that every
  snapshot, however old, has no more credits than the applied invoices it knows account for
  (`FairRead`). The invoice that a commit records is none of these, so the credits it writes
  stay within what is bought by then, whoever else was confirming what at the same time.

The sum in `GrantedOnce` is a fold of the community modules, which is defined by recursion.
`BillingProofs` begins with its theory (`SumUnfolds` to `SumsAgree`). The library's induction
theorems cannot be used, as they take an operator as parameter, but `WFMin` takes a set: if
some subset of a finite set violated the claim, a smallest one would, and it does not. That
the recursive function exists at all is shown in the same way.

Left to TLC: liveness and fairness (out of the prover's reach).

### Where the code loses an update

`refute_billed_once` and the findings of `PROJECT.json` quote the line the code contradicts.
The model shows more that no property is stated about, as each is what the code does:

* The sweep writes OVERDUE over an invoice that was paid after it was read
  (`services/billing.py:222`). The delivery was answered, so the provider does not repeat it,
  and the pollers ask about PENDING invoices only (F:10997, F:4136): the invoice stays
  OVERDUE until somebody marks it by hand. `PaymentIsRecorded` therefore says that a payment
  is recorded, not that it remains so.
* `AutoSuspend` switches off an organization that was renewed after the job read it.
* `payment_status` stands for the reason of a suspension. An auto-suspended organization
  that pays an ordinary invoice first is PAID, its suspension is taken for a manual one, and
  a plan it buys next does not switch it on again.
* Two extensions that overlap compute the expiry date from the same row: one is lost.
* `prior_status` is read from a snapshot: an invoice cancelled meanwhile is applied.
* The reminder step keeps no record: a second run of the day sends again.

## 4. Messaging and credits

`Messaging` models `services/messaging_service.py` and the forms that change its credits.
An account is one organization's balance for one channel (`Emails`, `WhatsApps`); the two
channels differ where the code does: WhatsApp looks at its configuration before it
reserves, queues only network errors, and reads `item.attempts` from the session unless a
commit has expired it.

Every action is the code between two commits, or between a commit and the provider's
answer. The reservation, the refund and the retry item's settlement are single UPDATEs or
commits; the ledger row (`ReadBalance`, `WriteRow`) is written from a balance read after
them. What a process carries from one step to the next is `job`: whether it holds a credit,
which item it retries, and the number it read for the row it writes next.

| Definition | Code |
|---|---|
| `Send`, `Reserve`, `Accept`, `Reject`, `Refund`, `Queue` | `send_email`, `send_whatsapp`, `_reserve_*`, `_refund_*`, `_queue_retry` |
| `ReadBalance`, `WriteRow` | `_credit_tx`, which never raises: the row may be missing |
| `StartRetries`, `RetryItem`, `SettleSent`, `ReadAttempts`, `CountAttempt`, `EndRetries`, `ItemCrashes` | `run_notification_retries` with `_retry_email`, `_retry_whatsapp` and its `except` branch |
| `Elapse` | `next_attempt_at` passes |
| `ReadForTopUp`, `TopUp` | bulk top-up, purchase and edit forms: sums or new values, computed from balances read before |
| `ChangeSettings`, `Crash` | own server saved or cleared, a worker dies |

`spent`, `added`, `tries` and `accepted` are history: no guard reads them. `tries` stops at
`MaxRetries` and `accepted` at 2, the largest values a property tells apart.

Abstractions: a provider that answers "accepted" stands for delivery; delays are an item's
flag `due`, so the four lengths of delay are not told apart; a retry run takes all due items
instead of the first 200; messages without an organization are never charged and left
out; so are SMS and voice, which no provider sends.

| Run | Instance | Shows |
|---|---|---|
| `messaging_credits` | one account per channel, two senders, one scheduler, top-ups, settings, crashes | `CreditsConserved`, and the refinement `CreditSpec` of `CreditAccount` |
| `messaging_retries` | one sender, two schedulers, `MaxRetries` as in the code, fair | `TypeOK`, `GivenUpLate`, `RetriesEnd` |
| `refute_one_process` | one sender, two schedulers | with debug off the two workers' schedulers deliver one queued message twice, although `scheduler.py:39-41` says that there is then only one process |

One message suffices for the retry run because schedulers meet on an item; the credits run
needs two, so that they compete for the last credit, and shortens `MaxRetries`, which
credits do not depend on. Fairness: started sends and retry runs go on, due dates come;
nobody has to send, top up or change settings, and a provider may refuse for ever. Crashes
are left out of the fair run: a worker that dies in every retry never counts one.

`attempts` starts at 1 and gives up above `len(RETRY_DELAYS_MINUTES) + 1`, so the code
makes four retries (`MaxRetries = 4`), one more than the comment at
`messaging_service.py:219` says. The forms that write balances overwrite what was spent
since they read them, and credits used meanwhile come back; the model has that step, and
`added` records it. Ledger rows of two overlapping messages both show the balance after
both, so the rows do not continue each other.

`MessagingProofs` proves, for all constants that `MessagingAssumption` allows:
`MessagingTypes` (no balance below zero), `CreditsAreConserved`, `KeepsAccounts` (the
refinement) and `GivenUpAfterAllRetries`. The argument is in two layers. `HandsInOrder`
says in which steps a process may hold a credit; with it, each action moves one process
and does to the credits one of the five things of `CreditAccount` or nothing
(`CreditDiscipline`), from which both conservation and refinement follow. For the retries,
`AttemptsBounded` bounds an item's `attempts`, and every number read from it that will
be written back, by one plus the retries that are *over*: those begun less those under way. A
stale write lowers `attempts` but cannot exceed the bound, so the item is not failed early.
`RetriesEnd` is liveness and left to TLC.

## 5. Candidates and placements

`Candidates` models the forms that write candidates, employers and placements of one
organization. As in billing, a request reads the tables in one snapshot (`old`), computes
`new`, and its `Commit` writes the columns that differ over whatever is there now.
`employer_code` is computed from the employers that were read and is UNIQUE, so an insert
whose snapshot missed another one fails (`CodeTaken`, `CommitFails`): the same optimistic
lock as the invoice number.

| Definition | Code |
|---|---|
| `Sync` with `Leave`, `Place`, `AddEmployer` | `_sync_candidate_placement` |
| `Create`, `Import`, `Edit`, `Delete`, `Restore`, `BulkVerify` | the candidate forms and the CSV import |
| `ReportPlacement` | the candidate reports a job in the portal |
| `CreateEmployer`, `EditEmployer`, `DeleteEmployer`, `VerifyPlacement` | the employer and placement forms |
| `HasRoom`, `MobileTaken`, `MayMove` | plan limit, duplicate check, `validate_transition` |

Abstractions: the duplicate checks (mobile, e-mail, Aadhaar) are one key `mobile`; job role,
salary, location and joining date are one value `role`; `first()` without an order is the
oldest row; nothing writes a candidate's exit date, so `left` is the working status alone.
A row of an import is created as the code does it, without a duplicate check.

What the runs show, and what the code does beyond the properties: overlapping saves of one
candidate are recorded in `raced` and excepted from `PlacementFollows`, `HistoryKept` and
`DroppedOutIsFinal` because there the code does fail: two overlapping first saves leave two
WORKING rows, and a stale form brings a dropped-out candidate back. `excess` counts the
candidates added without an effective look at the limit: restored ones and those of
overlapping creations.

| Run | Instance | Shows |
|---|---|---|
| `candidates` | two candidates, two requests, two employers, two placements, three commits, limit one | `TypeOK`, `PlacementFollows`, `HistoryKept`, `LimitKept`, `DroppedOutIsFinal` |
| `refute_employer_deleted` | one request | `organization_employer_delete` says that placements stay intact (F:5391); the next save or verification of a candidate who works there ends the placement as "moved" and opens another with a new employer of the same name |

`MCForms` are four forms: in training, placed, moved and verified, left and dropped out.
Three commits are what a placement needs to be made, raced and synchronized again; from
the initial state with one enrolled candidate, that is four saves of one candidate.

### Proofs

`CandidatesProofs` proves all five properties of the run, for any candidates, companies,
forms, limits and number of requests that `CandidatesAssumption` allows: `CandidatesTypes`,
`PlacementsFollow`, `LimitIsKept`, and the action properties `PlacementsKept` and
`DroppedOutStays`. They are not inductive, as what a request read may be stale when it
commits. `IInv` adds, for every open unit of work, that

* the placements have only *evolved* from what it read: rows stay in their places and keep
  their candidates (`Evolved`);
* what it writes is *made* from what it read as the code does it: rows are added at the end,
  a placement that was left is not touched, who dropped out stays so, and a candidate whose
  placements followed still has them follow (`Made`; `SyncMade` shows it of
  `_sync_candidate_placement`, then one lemma for each form);
* it restores a candidate, adds none, or adds where the tables it read had room
  (`Admitted`).

`CommittedRows` says what a commit leaves: rows that were read are written in place,
inserted ones come last, behind those that others inserted. So a candidate the request did
not touch keeps its placements, and one it did touch gets what was made unless somebody
else had it in hand, and then it is in `raced`. A stale count of candidates admits one too
many only where the table has grown since it was read, and these are in `excess`.

## 6. The candidate's side

`CandidatePortal` models browsers and mobile apps of candidates. A browser's session is a
signed cookie, so what it says was true when it was written: `consentOk` and `pwOk` are the
two marks that let a request past the privacy notice and the default-password gate without
a look at the tables. A request that looks a row up and then writes it is two steps
(`work`): `LoginSends`/`AddCode`/`CodeMailed`, `Verify`/`Verified`, `OpenLink`/`SetPassword`,
`Consent`/`Consented`.

| Definition | Code |
|---|---|
| `LoginDirectly`, `LoginWaits`, `LoginSends`, `AddCode`, `CodeMailed`, `CodeNotMailed`, `Verify`, `Verified` | `candidate_login`, `candidate_verify_login_otp`, the remembered device |
| `ApiLoginDirectly`, `ApiVerified`, `ApiChangePassword`, `PendingExpires` | the same in `api/v1/candidate.py` |
| `Visit`, `ConsentKnown`, `Consent`, `Consented`, `Withdraw`, `Logout` | `candidate_login_required`, the notice and its withdrawal |
| `ForcePassword`, `ChangePassword`, `OpenLink`, `SetPassword`, `UpdateDetails` | passwords, the mailed link, the candidate's own details |
| `SetStanding`, `ResetPassword`, `BulkSetPasswords`, `EditAccount` | what the staff do to an account: `EditAccount` is `organization_candidate_edit` (F:6784), which writes the number, the address and, where there is none, a password that is the number |
| `AgeCode`, `DeviceExpires`, `LinkExpires` | time passes |

Abstractions: an address is there or not, and only the staff's form changes that; blocked and
deleted are one attribute `standing`; a code is its row, entering a wrong one changes nothing; reads
(dashboard, jobs, downloads) are left out. Ages are states of a code (fresh: within the
cooldown; valid; expired), so no clock is needed.

The run `portal` (one candidate, two browsers, one app, two numbers, one code, one
consent) shows `ConsentGate`, `DefaultPasswordReplaced` and `UsedOnce`. One candidate: the
cookie names its candidate, and no row is shared by two. One code, as the cooldown bounds
them, and two clients can wait for the same one. Each property names the exception that the
code has: a consent withdrawn in another browser is not seen by this one's cookie; a number
that becomes the password later (reset, or a new number written by the candidate or by the
staff) is not noticed by a browser that has `pwOk`; two overlapping requests both use one
code or link. Browsers and numbers are interchangeable, hence the symmetry. In the run the staff's form leaves the
address as it is (`FormAddresses` is empty); `DefaultIsReplaced` holds for any addresses.

The gate (F:203-206) compares the password with the present number, and so does
`DefaultPasswordReplaced`. Staff who correct the number before the first login leave the
first password, which is the old number, and the gate lets it pass: `Default` is what the
code calls a default, and the property promises nothing about numbers an account had before.

### Proofs

`PortalProofs` proves `PortalTyped` and the three properties of the run, for any candidates,
browsers, apps, numbers, codes and consents that `PortalAssumption` allows. The inductive
invariant `IInv` says why a cookie may be believed:

* `ConsentRemembered` (for `ConsentIsAsked`): a browser that remembers the consent of a
  candidate remembers one that is current, or the candidate withdrew it in another browser.
* `PasswordSeen` (for `DefaultIsReplaced`): where a browser remembers a password that was
  looked at and the password is now the number, the number was written later.
  `NobodyWithoutPassword` is needed with it: an account that has no password yet has no link
  and no code, nobody is inside it or at its login, and no request is about to write it, so
  the bulk setting of passwords and the staff's edits, which fill in a missing one, change no
  password under a browser that remembers one.
* `UsedUp` (for `ServesOnce`): a code that was used is marked so or has expired, a link that
  was used is gone, and a request that is still at a used one was at it when it was used:
  the two overlapped, which `UsedOnce` excepts.

## 7. The office

Sixteen components that share no state with each other. `Office` instantiates all of
them, with constants of its own, over one set of variables; `part` says which component a
behaviour is of and never changes. `MCOffice` and `office.cfg` give the constants values.
The run `office` therefore checks sixteen state machines one after the other, with the
properties of related components joined: `KeysHold`, `FormRulesKept`, `ToldOnce`,
`CachesKeepUp` are conjunctions of `part = ... => property`. Requests and processes occur in
no constant and no property by name, so they may be permuted.

| Module | Actions and the code they are | Property (name in the run) |
|---|---|---|
| `Documents` | `Begin` by each upload form, `Save`, `Commit`, `Refused`, `SlipFails`, `Delete`, `Remove`/`Clear`, `Crash`: look at the storage, write the file, commit the row, delete the old file; a salary slip whose commit raises, whether it went through or not, loses its new file | `FilesKept` |
| `Kyc` | `Upload`, approve, reject, `Commit`, then `Recompute` and `Write` in a second transaction | `KycStatusFollows`: one undisturbed request repairs what others left |
| `Reminders` | `Start` reads the log once, `Send`, `Record`, `Pass`, `Fail` | `ReminderOnce`, `RemindersApart` |
| `Schedules` | `Start`, `Skip`, `Send`, `Sent`, `Failed`, `Crash`, the forms of schedules and templates; `_is_due` with its calendar | `OncePerPeriod`, `EveryPeriod` |
| `FollowUps` | `Ensure`/`Insert`, `Sync`/`NotTold`/`Tell`, `Skip`, complete, delete, read, clear | `OneCheckpointEach`, `OverdueToldOnce` (`ToldOnce`) |
| `CallCentre` | `LogCall`, `EditLog`, `SaveLog`, `SaveEdit`, the list of dispositions | `LoggedOnce`, `CorrectionsKept` |
| `StaffAccess` | `login`, `forgot_password`, `SaveCode`, `Mailed`, `EnterCode`, `UseCode`, `_finish_staff_login`, `reset_password`, `Page`, `logout`, the administrators' toggles | `LoggedOutAtOnce`, `FewCodes` |
| `ApiTokens` | `login`, `refresh`, `Revoke`, `Answer`, `Drop` | `RefreshedOnce` (`KeysHold`) |
| `RateLimits` | `Incr`, `Expire`, `Decide`, `Lost`, reset | `WindowEnds` |
| `Permissions` | `Miss`/`Fill`, each change with `Clear` after it, delegation, `CountUsers`/`Deactivate` | `ChangesTakeEffect` (`CachesKeepUp`) |
| `ReportCache` | `cached_report`/`Store`, `Change`/`invalidate_report_cache`, `UnannouncedChange` (nothing is cleared), `Restart`, `Redis` | `ReportsKeepUp` (`CachesKeepUp`) |
| `Attendance` | batches, `Move`, a sheet shown, sent and saved | `MarkedOnce` (`KeysHold`) |
| `Vacancies` | create, edit, employer deleted, `Commit` of the changed columns | `SalaryRange` (`FormRulesKept`) |
| `Support` | feedback in three steps, tickets from candidate and staff, answers from both offices: `Respond`, `SuperRespond`, `Deactivate` read, `AnswerSaved` writes what differs, `AnswerLost` | `OneFeedback` (`KeysHold`), `ClosedTicketsAnswered` (`FormRulesKept`) |
| `FeatureFlags` | `Toggle`, `Save`, `Lost` | `OneRow` (`KeysHold`), `FlagsAsAsked` (`FormRulesKept`) |
| `BreachNotices` | the notice recorded, `Send` to each recipient by gateway or SMTP with its row in the log (`_log_email`, which may lose it), `Finish`, `Crash` | `SentOnce` (`ToldOnce`), `NoticeAccounted` (`FormRulesKept`) |

Bounds, and why they are enough: two requests, processes or browsers give every overlap of
two steps, and no action involves three. Rows, files, codes, notices and edits are bounded
by what the longest scenario of a property needs (a file uploaded, replaced by each of two
requests and removed: four; `Bound` names them all). The calendar is a constant, as the
first hour of each month; the run has a month of two days and one of one. Clocks have a few
ticks, longer than the validity, window or period they are compared with. Two assumptions on time are in the guards: a run of the
reminders lasts less than a day, a run of the schedules at most an hour. `CHECK_DEADLOCK
FALSE`: the bounded clocks and numbers of rows end behaviours.

What the code does besides, seen while modelling. Where it touches a property, it is a step
of the model and the property names it; the rest are remarks that no property is about:

* Attendance: a page shows the rows of its batch, saving finds those of any batch. After a
  candidate changes batches the mark of the day is shown as "present" and saving the page
  overwrites it. One key taken rolls back the whole sheet.
* Documents: a replaced placement proof is never deleted and keeps counting toward the
  storage; two uploads at once pass the storage check together. A salary slip whose commit
  went through but was not answered is rolled back too late: its new file is deleted
  (F:8770-8774) and the row names it (`SlipFails`; `lost` has the slots for `FilesKept` to
  name).
* Support: of two answers that overlap each writes only what differs from what it read. If a
  ticket was opened again and kept its date (the super admin's form keeps it), one answer
  "open" clears the date after another has resolved it: resolved, without a date. `raced` has the tickets whose
  answers overlapped until somebody decides on one alone; reasons are never lost.
* KYC: an approval applies to the row, although its file may have been replaced after the
  page was shown (the model's `Written` keeps the new file, approved); two first uploads
  make two rows, of which only one is ever replaced.
* Schedules: `last_run_at` is the end of the run, so one that ends after midnight counts
  for the next day; an exception in the middle leaves it unwritten and the next hour sends
  to everybody again; a cron schedule that never ran looks back one hour. Run Now keeps to
  one run in a period: F:2442 calls `run_notification_schedules()` without `force`, although
  the docstrings (`notification_scheduler.py:35-36`, 191-192) say that this button passes
  `force=True` and bypasses the check. `OncePerPeriod` is about what the code does: no caller
  passes `force`, and with it a period would be served as often as the button is pressed.
* Follow-ups: a namesake's notification suppresses another candidate's; due dates keep the
  joining date they were made with; deleting the last checkpoint brings all of them back.
* Call centre: no code in the repository creates a call task.
* Staff: the organization's toggle ends the sessions of whom it deactivates, the super
  admin's leaves them alive; a login past its checks still gets its session.
* Permissions, reports: a value computed before a change may be stored after the change
  cleared the entry and lives until it expires; a clearing that is lost says nothing. Many
  changes clear no report at all: the scheduled billing cycle (`scheduler.py:54-63`; the button
  does, F:2422), `mark_invoice_paid` of an ordinary invoice (`payment_gateway.py:242-268`; of a
  purchase line 344 clears before the commit), answers to tickets with the deactivation of a
  candidate (F:8342, F:8391). `ReportsKeepUp` names the cause of each outdated entry since it
  was stored, so an old accident excuses no later entry.
  `_redis_available` never becomes true again in a process.
* Rate limits: they fail open. A worker killed between INCR and EXPIRE leaves a counter
  without an end, which only the super admin's reset removes.
* Breach notices: a worker killed in the loop leaves the notice with counts of zero, and
  recording it again sends it again to those who had it. `_log_email` drops a row that it
  cannot save (`utils/email.py:50-51`) and the loop counts the message all the same, so the
  numbers of a notice are those of the log and of the rows in `unlogged`.

### Proofs

All sixteen components are proved for all values of their constants: every property of the
run is a theorem about `Office`. The assumptions are those of the components
(`OfficeAssumption`), such as that every hour lies in a month. A section of a proof module
is about one component and its names begin with the component's: `...Moves` shows that no
step leaves the component's `IInv`, one step of the proof to each action, `...Always` lifts
it to the behaviours of the office, and the theorems at the end take their property from it.
`OfficeTimesProofs` extends the other two modules and joins them (`OfficeTyped`,
`KeysAreUnique`, `FormRulesHold`, `EverybodyIsToldOnce`). What `IInv` adds to the types and
the property:

`OfficeRecordsProofs`

* Kyc: `AloneIsRight`, a request nobody overlapped is the only one at work and the status it
  is about to write is right; `RightOrRepaired`, in a state without a race such a request is
  under way or the status is right already.
* Documents: `OldOwned`, the name that an upload has read belongs to its slot only, and to
  no row once the file is to be deleted; `NewFree`, the file that an upload is to commit is
  on disk and no row and no other upload knows its name. A deletion therefore never meets a
  file that is named, but for that of `SlipFails`, which `lost` records.
* Support: `ToldLater`, who is to tell of a feedback has saved it, alone, and nobody was
  told; `AnswersFit`, an answer under way that rejects has its reason, one that closes its
  date, and one that is alone has read what is still in the row. BreachNotices: `LoopTallies`,
  no two requests send one notice, and each has left exactly the recipients whose end it has
  not seen (`Seen`: in the log or lost on the way there) and has counted the others.
* FeatureFlags: `Settled`, of an owner whose toggles did not overlap: the one under way has
  read what is in the row, and without one the row says what was asked.
* Vacancies: `Pending`, a save that writes every column has the salaries in order, and one of
  a vacancy whose edits did not overlap is alone and leaves the row in order. Attendance: with
  types, the property is inductive.

`OfficeAccessProofs`

* StaffAccess: `Spaced`, unless two requests were sending at once, unused codes lie a
  cooldown apart in the order of their rows. That needs `SenderAlone`: the cooldown is
  checked before the row is inserted, and nobody else may insert one between. Dividing the
  age of a code by the cooldown is then injective into
  `0 .. OtpValidity \div OTP_RESEND_COOLDOWN_SECONDS`, which bounds their number.
* ApiTokens: who is to answer a refresh has revoked the old token, alone, and the token has
  no successor.
* Permissions: `Known`, entries and what is to become one are of users that were created;
  `ChangesTakeEffect` itself says who is still to clear an outdated entry, and is inductive
  with that. ReportCache and RateLimits: with types, the property is inductive, for the
  former as each entry carries its causes, for the latter also across a reset between INCR
  and EXPIRE.

`OfficeTimesProofs`

* Reminders: `MailsInGrace`, an e-mail that went out was due some repetitions after the
  first and went out on that day or within the grace; `MailsKnown`, it is in the hands of a
  run, or it is in the log and every run that still has its candidate to do has seen it
  there. `ReminderOnce`, an action property, follows from the second.
* Schedules: `OneRunEach`, at most one run has a schedule still to look at, and none has
  ended for it since that one began; `ServedNoted`, `last_run_at` tells of every time it was
  sent, or the run that sent it has not ended. `_is_due` compares with `last_run_at`, so a
  second run of a period finds it served.
* FollowUps: `FirstRows`, who is to insert the checkpoints of a candidate is alone and there
  are none; `FirstTold`, the same of the notification of an overdue one.
* CallCentre: `InOrder`, of a call on which no two forms overlapped: at most one form is
  open, what it has read is still so, and the corrections lead on from each other (`Led`). A
  save adds exactly the next link.

## 8. Proved, checked, left out

**Proved** (sections 3 to 7), for all constants that the modules' assumptions allow: every
invariant of every passing run, the action properties, and both refinements. The theorems
are listed in `PROJECT.json`.

**Only model-checked**, on the instances named: liveness (`PaymentIsRecorded`,
`LapsedLosesAccess`, `RetriesEnd`), as fairness and ENABLED are out of the proof system's
reach. The fairness assumptions of sections 3 and 4 are the only ones; sections 5 to 7 state
safety. No module has a RECURSIVE operator, and the one induction over data, that of the sum
in section 3, is done through minimal sets.

**Not modelled**: platform settings, announcements, modules and the activity log (single
rows and appended rows that nothing reads except to show them); impersonation (a switch
inside one browser's session); schemes, which no attendance refers to; the employer's own
portal, which `EMPLOYER_PORTAL_ENABLED` switches off; the trusted device of staff and the
organization switch of a super admin; certificates, offer letters, mail layout, translation
and pages (formatting); provider signatures; migrations, seeds and the `apply_*.py` patch
scripts (run once by hand, and they edit source text); tests, which were read as
documentation.
