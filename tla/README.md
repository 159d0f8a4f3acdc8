# Verification of tickets-back

TLA+ models of the parts of this backend where several people change the same
record, where money is counted, or where a record has a life of several steps;
TLC configurations that check them on small instances; and TLAPS proofs of what
must hold however many requests overlap.

- [The system](#the-system)
- [How the code runs, and how it is modelled](#how-the-code-runs-and-how-it-is-modelled)
- [Modules](#modules)
- [Runs](#runs)
- [What the code does not keep](#what-the-code-does-not-keep)
- [Proofs](#proofs)
- [Not modelled](#not-modelled)
- [Plan](#plan)

## The system

The backend of a law firm: about twenty FastAPI services behind one gateway,
each with a Postgres database of its own, about 95 000 lines of Python without
the tests. There is no design document; `tests/README.md` describes the test
layout only. Docstrings, error messages and comments say what is intended.

| Component | Keeps | Operations | Hard part |
|---|---|---|---|
| expenses: requests (`expenses/`) | a request with status, author, approver, payer; its status history and audit log | create, edit, submit, approve, reject, revise, pay, unpay, unapprove, close, withdraw, delete; approve and reject by a link in a mail; automatic payment of some authors' requests | handlers without row locks; a sweep that awaits another service between reading and writing; many ways back from a decision |
| expenses: cash desk | one balance row, movements, the reimbursements already in the balance | set the balance, record, edit and remove movements, show the page; every payment handler folds the paid requests in | queries that do not see the handler's own change; edits in the middle of a chain of balances |
| expenses: attachments, dictionaries, mails | files, reference tables | upload, delete, list | file and row written apart |
| vacation: leave requests | requests, two decisions each; a PDF | create, decide twice, withdraw, cancel, delete | a withdrawal against an approval; the calendar written with the decision |
| vacation: balance | nothing of its own; the entitlement is a setting | validate a new request | reservation against approval, years that share a request |
| vacation: schedule | an employee's year, marked days, manual entries | mark, change, unmark a day, manual entries, delete the year, import | one mark per day, two owners |
| time tracking: invoices | invoices, lines, payments, audit log, a counter of numbers | create, edit, send, unsend, view, pay, confirm, cancel, restore, delete; a status chosen in a registry | an entry billed once; payments that overlap; a status that can be reconstructed |
| time tracking: partner confirmations | requests to confirm a report, signatures, snapshots; remembered partners of a project | submit, sign, revoke, delete, edit a row, list; the gate of invoices; voiding, archiving and restoring entries | last partners who sign at once; partners that auth does not name in time; an invoice between check and commit |
| time tracking: entries, rates, projects, teams, reports, import | rows; rates with periods | CRUD, propagation of rates, statistics | overlapping periods |
| tickets | tickets with status, comments; websockets | CRUD, status changes, fan-out | missed and reordered pushes |
| correspondence | registers of letters with a counter per register and year, attachments with their files, shared links | register, draft, submit, approve, reject, patch, archive, delete, upload, remove files, share, sign tokens | one locked row, the letters unlocked; files written before and removed after a commit |
| todos | boards, columns, cards, members | CRUD, reorder, import, calendar | positions of cards |
| chat, Kosta Daily | rooms, members, messages, reading marks, pins, polls, task lists, push subscriptions | post, delete, read, manage members, pin, vote, tick; websockets, push | everything counted on rows the handler can see; ids taken before the commit; two copies of one program |
| gateway | nothing but caches | forward, merge, provision users | partial answers |
| auth | users, roles, tokens | sign in, administer | - |
| backend_common | counters in memory or Redis | rate limit, probes, schema patches | two counters, no expiry |
| backup | snapshots on disk, one state file | dump, archive, retain, by the scheduler, a request or a command | a process killed in the middle; a state file read at the start and written at the end |
| attendance, call schedule, file guard | events of cameras, mailboxes, agents | poll, ingest | external protocols |
| notifications, inventory, contacts, HR, legal hub, telegram bot | single rows | CRUD | - |

Services talk over HTTP through the gateway and never share a table. Four
couplings matter, and each is inside a model: expense handlers call the cash desk
inside their own transaction (`CashDesk`); decisions on leave write the calendar
inside theirs (`LeaveRequests`); an invoice is only created for work that all
partners of its project confirmed, and whether an entry is billed decides whether
it may be voided or archived (`PartnerConfirmations`); who the partners are is
asked of the auth service, which may not answer, and remembered for a while
(`PartnerConfirmations`).

What makes each component correct, and where the code is exposed, is listed
hazard by hazard, with the line, in `PROJECT.json`.

## How the code runs, and how it is modelled

Every service is one asynchronous process. A handler opens a session
(`autocommit=False, autoflush=False, expire_on_commit=False`), loads rows
without a lock, checks them, may await other services, changes the loaded
objects and commits once. Two handlers can both load a row before either
commits. At commit the ORM issues an `UPDATE` with the columns whose value the
handler changed; the other columns keep what the other handler wrote.

So each module splits a handler in two steps:

- the action named after the handler is everything up to the commit. Its guard
  is the handler's checks on what it loaded; it leaves in `session[s]` what it
  loaded (`snap`), what it wants (`tgt`), and what it inserts;
- `CommitWrite`, `CommitCreate` and `CommitDelete` apply that plan. `Merge` takes
  column by column the value in the table if the handler did not change it.
  Columns marked with `flag_modified` are written in any case (`force`).
  A row that was deleted meanwhile makes the commit fail: the plan can only be
  aborted. `Abort` also stands for a crash, an exception and a lost connection;
  nothing of the handler remains.

With one session the handlers do not overlap, and the runs called *serial* check
what a single user can rely on. With two sessions the runs called *race* check
what is left when they do. The later modules tell the two apart in one run: their
ghost variable `overlapped` is set by the first handler that begins while another
is under way and never reset, and a property that needs handlers one after the
other begins with `~overlapped =>`.

Two components run differently. The counter of a register of letters is the one
row that is loaded with a lock (`lock`, from `TakeNumber` to the end of the handler),
so two handlers never both hold a number. The backup has no database: `Backups` takes every write of the
state file and every folder as a step, and the process may be killed between any
two of them.

Ids are not reused: the rows deleted are remembered in `gone` (`used`, `born`).

Deadlock checking is off in every run: the counters are bounded, and a system in
which every request was deleted has nothing left to do.

### Fairness

Handlers start when somebody clicks, so no run assumes that any handler starts,
with two exceptions, each for one liveness property:

- `PartnerConfirmations.FairSpec`, for `CompleteIsFound`. A handler under way ends,
  one way or the other (weak fairness of commit or abort: the server's timeouts). A
  minute passes and remembered partners expire (weak fairness; clocks). The front
  end asks for the badge of open confirmations all the time, so a list that can be
  asked for is asked for again (strong fairness: a list asked while another handler
  runs or before the minute is over finds nothing to do), and not every commit of a
  list fails (strong fairness). No fairness for submitting, signing or anything a
  partner does.
- `Backups.FairSpec`, for `RunningIsCleared`. The daily trigger fires for a job that
  is not running (weak fairness of `Start(Cron)`), and a run goes on, since every
  dump it awaits has a timeout (weak fairness of `GoOn`). No fairness for requests
  and commands, and none against kills, which are bounded by `MaxKills`.

The automatic payment of expenses and the fold of the cash desk run when somebody
opens a page; that the next visit settles what is due is stated as a safety
property of that step (`PageSettles`).

## Modules

| Module | Models | State | Actions |
|---|---|---|---|
| `ExpenseLifecycle` | what the expenses service promises of a request: the abstract specification | `status`, `payment` | `Moves`, `IsPaid`, `EndsPayment`, `IsDeleted` |
| `ExpenseWorkflow` | `expenses/presentation/routes/expenses.py`, `expense_email_action.py` | `row` (the request), `hist` (status history with its audit action, each row with the time `at` it was stamped), `gone`, `session` (edits of several rows: the sweep changes many) | one per route, the sweep, `Stamp`, commits, `Abort` |
| `CashDesk` | `expenses/application/cash_ledger.py`, `presentation/routes/cash.py` | `req` (what the desk reads of a request), `desk`, `tracked`, `moves`, `handler` | one per route of the desk; `Load`, `Finish` and `Fail` of an expense handler |
| `VacationBalance` | `vacation/application/vacation_balance.py` | none: operators on a table of requests and a calendar | |
| `LeaveRequests` | `vacation/application/leave_request_service.py`, `manual_absence_service.py`, the routes of requests and schedule | `leave`, `day`, `entry`, `gone`, `session` | one per route, edits of the calendar, commits |
| `Invoices` | `time_tracking/application/invoice_service.py`, `repository_invoices.py`, the invoice routes | `inv`, `lines`, `received`, `gone`, `session` | one per route, the registry's statuses, commits |
| `PartnerConfirmations` | `partner_report_confirmation_service.py` and its repository, `project_partner_users.py`, `auth_directory_cache.py`, `entry_archive_service.py`, `duplicate_time_entries.py`, the gate and the patched drafts in `invoice_service.py`, voiding and deleting in `time_entries.py` | `request`, `sig`, `entry`, `bill`, `team`, `known` (remembered lists), `due` (the minute), `session`; the ghosts `signed`, `basis`, `passed`, `overlapped` | one per operation, `Minute`, `Expire`, `ChangeTeam`, commits |
| `Chat` | `chat/infrastructure/repositories.py` and the routes of rooms and messages | `role` of each member, `msg`, `mark`, `pins`, `votes`, `shut`, `tasks`, `done`, `session`; the ghosts `ahead`, `overlapped` | one per operation of a room, `Commit`, `Abort` |
| `Backups` | `backup/application/backup_runner.py`, `scheduler.py`, `cli.py`, its routes | `state` (the file), `dirs` (the folders), `call` (each caller's step and copy of the state) | `Start`, `Load`, `Announce`, `Dump`, `Report`, `Scan`, `Prune`, the error paths, `Kill` |
| `Correspondence` | `correspondence/infrastructure/repositories.py`, `presentation/routes/correspondence.py`, the files | `row`, `att`, `disk`, `counter` and `lock` of each register, `session`; the ghosts `issued`, `overlapped` | one per route that changes a letter, `TakeNumber`, `Commit`, `Clean`, `Abort` |
| `MC...` | instances of these for TLC: model values, symmetry, state constraints | | |
| `..._proofs` | proofs about them | | |

The line range each definition stands for is in `PROJECT.json` under `map`.

### What is abstracted

*ExpenseWorkflow.* Users are few and roles are constant sets. A history row and
the audit row written beside it are one event. The comment that marks an
automatic payment is a flag. A mail link may be used whenever its request waits
for approval: tokens are not consumed by the code. The sweep is one handler that reads every open request, then commits.
`changed_at` is taken when the row joins the session (`Stamp`), between the load and the
commit, and only its order within one request counts: the clock is one, two rows of a
request never have the same time, and `MaxStamp` bounds the times. The sweep reads its
requests in two queries; here it reads them in one moment, stamps the rows it writes one
by one, and commits them together.

*CashDesk.* A request is open, paid, closed or gone, in cash or not; the
conditions of the expense handlers are `ExpenseWorkflow`'s business. The order
of timestamps is the order in which handlers take them. Movements are a set with
ids that grow. `None` in `before` is an unset balance.

*VacationBalance, LeaveRequests.* Dates are numbers, years have `YearLength` of
them, so a period over a year end is as short as two dates. The decision by mail
link and the one in the application do the same and are one action. Edits of the
calendar by hand are single transactions of a few statements and single actions.

*Invoices.* Totals are chosen freely whenever the code recalculates them: rates,
taxes, discounts, packages and the amount given by hand can bring them anywhere.
Amounts below a cent count as nothing. Which entries a line bills is a set;
manual lines bill nothing. Payments are summed up in `received`. The due date only
decides whether an unpaid invoice shows as overdue, so a handler that asks may
find it passed or not. The gate of the partner confirmations, the currency and
the number are left out. The old status `client_paid` is written by no handler
and left out.

*PartnerConfirmations.* The entries are copies of one piece of work, as only copies
are treated differently from any other entry: the fingerprint that finds them is
given. A project's partners are a set that changes (`ChangeTeam`: rows of
`project_access`) and a list of them may lack those that only auth names
(`AuthOnly`) when it does not answer (`Outages`). A gate that may be passed early
(`MayDefer`) is a choice of the one who bills; a project that skips confirmations and a
combined invoice, which skip the gate, are that choice as well. Patching a draft's lines
passes no gate and may bill any entry that exists and no other invoice bills; which
billed entries stand on a draft is not tracked, so `Relines` may free any of them (it
is also the deletion of a draft). An entry that was voided or archived may be billed by
its id, by a new invoice or a patched draft, as in the code. `invalidate_confirmations_after_time_entry_change`
is called by nobody. Left out: patching an entry, the week lock, deleting a
snapshot, comments and priorities.

*Chat.* One room of each kind, of users who are known; a direct room is left out of
the run. A reader marks any number as read, one of a message that does not exist yet
included: the route takes the client's id as it comes. The ghost `ahead` remembers who
did so; ids below 1 and above `MaxId` are left out. Votes and
closing are possible on a message that was deleted meanwhile, as in the code. A vote
repeated on a single-choice poll fails at the unique key (`Accepted`). Left out:
edits, replies, reactions, attachments, push, opening rooms and the retention. Kosta
Daily is a second copy of the same code.

*Backups.* What a dump holds is left out; "partial" is treated by the code as
"completed" is. Removing a folder takes one step. The run at the start of the process is
a run by the scheduler. A state file read while it is rewritten counts as missing.

*Correspondence.* One year of each register, whose counter has its row: the first
letter of a year, which inserts that row, is left out. Files are names, either on disk or not; a PDF beside an office
document is removed and kept like one more file. Text columns, comments, codes and links under which a letter is
shown, notifications and previews are left out.

## Runs

Bounds are in the `.cfg` files. Every bound on a counter is a guard; two runs also have
a `CONSTRAINT`, described below the table.

| Run | Instance | Shows |
|---|---|---|
| `expense_serial` | one request, author, moderator, administrator, all four types, at most 5 history rows and 5 times, one handler | the history is a chain, in the order of its times; payer and approver columns fit the status; a person's cancellation of an automatic payment stands; the handlers implement `ExpenseLifecycle` |
| `expense_race` | one request, two users, self-moderation off, 4 history rows and 4 times, two handlers | the status is the one of the history row committed last; a payment by hand has an approval of an earlier time; nobody moderates an own request |
| `cash_desk` | two requests, amounts 1 and 2, two expense handlers, 3 timestamps, 5 movements | rows add up; a reimbursement is charged once; every change of the figure is explained by a movement; opening the page settles it; edits by hand keep the displayed chain |
| `leave_serial` | three requests over a year end, two dates a year and 3 in all, one handler | the calendar shows a request exactly while it may; entitlement and flexible days hold; an approval fills its period |
| `leave_race` | one request, one manual entry, two dates in two years, edits by hand, two handlers | approval only by a final decision; marks only after it; marks of an entry go with it |
| `leave_cancel_race` | one request, two handlers | *violated*: a withdrawn request keeps its marks |
| `invoice_serial` | two invoices, one entry, totals and payments up to 2, one note, one handler | status and paid amount follow the payments; writing lines never bills an entry twice; money keeps an invoice out of the drafts except out of a note; a paid invoice survives cancellation and restoring; no paid status, amount or payment document without its payment |
| `confirmations_serial` | one request, two partners of whom one may leave and one is named by auth only, auth may not answer, two copies of one entry, one handler | a confirmed report has its signatures; what a new invoice bills through the gate is confirmed; an entry that counts is not taken out and left on an invoice, also by way of a patched draft; the last signature leaves one copy |
| `confirmations_race` | the same without entries and outages, two handlers, fairness | a confirmation rests on signatures that were given; signatures that missed each other are found complete by a later list |
| `chat` | one room of each kind in turn, two users, two messages of all contents, one poll or list, two options, lists of one or two of three tasks, one pin, marks of any number, two handlers | who is in charge, what former members keep, pins, votes and tasks, what is unread |
| `backup` | three snapshots, a scheduler, a request, a command, one failing write, one kill, one snapshot to keep | the retention spares the newest; the state tells the truth; "running" does not stay |
| `correspondence` | two letters, two files, an author and a partner who manages, two numbers, two handlers, failures and kills at any step | registers without gaps; attachments with files; numbers kept |

`MCChat!SmallOverlaps` cuts the states in which handlers overlap, or somebody read
ahead, *and* there is a poll or list (or one is being posted), and those of both an
overlap and somebody ahead: every property but `AdminsInCharge` begins with
`~overlapped`, `AdminsInCharge` reads neither marks nor boards, and polls and lists ask
nobody what was read. It is a bound: polls, lists and `overlapped` only come, but who is
ahead is forgotten with a membership, so that rooms where somebody was ahead before a
poll are looked at without that poll only. `MCCorrespondence!SmallOffice` is a bound like the others: letters
share only the counters, so the run looks at one letter with all its attachments and
decisions, or at two without attachments on their way to a number. The proofs need
neither bound. No liveness property is checked under a constraint.

The symmetry sets permute model values that no configuration, action or property names;
none is used in a run with a liveness property.

Why these bounds are enough: a property of a race relates one row to its
history, its marks or its payments, and two handlers produce every pair of
steps the merge can confuse; a third only repeats one of them. The serial runs
have as many rows as their properties relate: one request with a history long
enough for payment, its cancellation and a second payment; three requests
because two may share the entitlement a third wants, and the third request over
the year end is in both years; two invoices because one entry can be wanted by
two. Amounts need a half and a whole, hence up to 2. Two
partners are the least that can miss each other's signature, two copies the least
that can be one too many. Three snapshots let a retention of one see an older one to
remove, a newer one to keep and one that a run takes back.

Every property has a mutant of the code under which it fails: the operators
next to a definition that are commented *Mutant* are plausible slips in
that code and are used by nothing else.

## What the code does not keep

One run is expected to be violated, against a text in the source: in
`leave_cancel_race`, `cancel_leave_request` clears the calendar only if the request
it loaded was approved; a withdrawal that overlaps the approval leaves the days its
docstring says must go.

More configurations show what is known and not claimed anywhere as
strongly; each is a counterexample of a few steps, checked with
`tlc -config <cfg> <module>`:

| Configuration | Module | Violates | What happens |
|---|---|---|---|
| `CashOwnPayment.cfg` | `MCCashDesk` | `HandlerFoldsItself` | a handler folds the desk from rows that do not show its own payment yet; the next visit of the page settles it |
| `InvoiceRestored.cfg` | `MCInvoices` | `BilledOnce` | a canceled invoice is restored after its entry was billed by another one |
| `ConfirmationsTeam.cfg` | `MCPartnerConfirmations` | `ConfirmedByTheTeam` | auth does not answer, and a report is confirmed without a partner |
| `ConfirmationsDuplicates.cfg` | `MCPartnerConfirmations` | `ConfirmedIsDeduplicated` | a report confirmed by a list keeps its duplicates |
| `BackupsOneAtATime.cfg` | `MCBackups` | `OneAtATime` | two runs pass the check of the state file before either writes it |
| `ChatPinLimit.cfg` | `MCChat` | `PinLimit` | two overlapping handlers pin one message too many |
| `ExpenseUnapproveRace.cfg` | `MCExpenseWorkflow` | `UnapproveLeavesApproved` | two overlapping handlers both leave "approved" |
| `ExpenseSweepRace.cfg` | `MCExpenseWorkflow` | `SweepRespectsCancel` | the automatic payment pays again what was cancelled while it waited |
| `ExpenseTimelineRace.cfg` | `MCExpenseWorkflow` | `NewestRowTells` | a handler stamps its history row, waits, and commits after one with a later stamp: the newest row of the timeline tells another status than the request has |
| `ExpenseUnpaySelf.cfg` | `MCExpenseWorkflow` | `QueuedPaymentWasAutomatic` | the sweep takes a payment its author made by hand for an automatic one |
| `CashListedTwice.cfg` | `MCCashDesk` | `ListedOnce` | a reimbursement is listed twice around a new balance |
| `CashCutoff.cfg` | `MCCashDesk` | `CutoffRespected` | a payment stamped before a balance and committed after it |
| `LeaveOverlap.cfg` | `MCLeaveRequests` | `ApprovedIsShown` | cancelling one of two overlapping leaves empties days of the other |
| `LeaveDeleteRace.cfg` | `MCLeaveRequests` | `DeletionTakesMarks` | a deletion overlaps an approval |
| `LeaveEntryLost.cfg` | `MCLeaveRequests` | `EntryIsShown` | cancelling a leave deletes days a manual entry took over |
| `LeaveDoubleRequest.cfg` | `MCLeaveRequests` | `WithinEntitlement` | two overlapping requests exceed the entitlement |
| `LeaveYearEnd.cfg` | `MCLeaveRequests` | `FlexibleInEveryYear` | a short leave over a year end spends the next year's flexible days unchecked |
| `InvoiceDraftPaid.cfg` | `MCInvoices` | `DraftUnpaid` | a note leads a paid invoice back to the drafts |

Two more hold and are kept beside the runs: `LeaveDecisions.cfg` (`MCLeaveRequests`:
`TwoStages`, `DecidedStays`, one handler, 684 688 states) and `InvoicesRace.cfg`
(`MCInvoices`: `MoneyIsBacked` with two overlapping handlers, 1 536 765 states; the
theorem covers it in general).

Three observations about letters have no configuration of their own, as nothing is
written about them: two overlapping approvals number a letter twice, and the first
number is lost; a manager's patch moves a draft to "progress" without a number; an
upload that overlaps the letter's deletion leaves a file nobody knows, as does the
removal of a single attachment.

## Proofs

Eight modules hold proofs. They are for any number of rows, users and sums and for any
bound, and unless a line says otherwise for any number of overlapping handlers:

| Module | Theorem | Says |
|---|---|---|
| `ExpenseWorkflow_proofs` | `StatusTold` | the status of a request is the one told by the history row committed last |
| | `PaidWasApproved` | a payment by hand has an approval of an earlier time |
| | `NobodyModeratesSelf` | with self-moderation off, no moderation event is its author's |
| | `WorkflowFollowsLifecycle` | *in turn*: the workflow implements `ExpenseLifecycle` |
| | `HistoryChains` | *in turn*: each row of a history starts where the one before it ended, and is younger |
| | `StampsFollowStatus` | *in turn*: approver and payer columns fit the status |
| | `CancellationStands` | *in turn*: the sweep never pays again what a person returned from paid |
| `CashDesk_proofs` | `HistoryAddsUp` | each movement's two balances differ by its amount |
| | `NothingChargedTwice` | a reimbursement is charged at most once since the balance was set, at the sum its cancellation returns |
| | `PageReflectsPayments` | opening the page settles exactly the paid requests |
| | `HandsKeepTheChain` | recording, editing and deleting by hand, and setting the balance, keep a chain of balances a chain |
| | `FigureIsExplained` | between two balance sets the figure changes by what the history says |
| `LeaveRequests_proofs` | `NoLeaveWithoutManaging` | an approved leave had its final decision, by the managing partner or nobody by name |
| | `CalendarIsOwned` | a mark of a request means the request exists and had its final decision; no mark outlives its manual entry |
| | `MarksFollowApproval` | *in turn*: a mark of a request means the request is approved now |
| | `BothConsent`, `DecisionsStand` | *in turn*: `TwoStages` and `DecidedStays` of `LeaveDecisions.cfg` |
| | `EntitlementKept` | *in turn*: nobody's annual leave of a year exceeds the entitlement |
| | `ApprovalIsShown` | *in turn, no edits by hand*: an approval leaves no date of its period unmarked |
| | `ShortStaysFlexible` | *in turn, no edits by hand*: a new short leave keeps the flexible days of the year it starts in |
| `Invoices_proofs` | `MoneyWasPaid` | an invoice never says more was paid than its payments amount to; a paid status or a payment document implies a payment |
| | `StatusFollowsMoney` | *in turn*: it knows exactly what was paid, and its status says so |
| | `LinesAreChecked` | *in turn*: only an invoice that takes its lines back can bill an entry twice |
| | `DraftsComeUnpaid` | *in turn*: money keeps an invoice out of the drafts, except out of a note |
| | `PaidStaysPaid` | *in turn*: paid stays paid until canceled or noted, and comes back paid |
| `PartnerConfirmations_proofs` | `ConfirmedOnce` | a confirmed report once had every signature its confirmation reckoned with |
| | `BilledOnConfirmation` | what a new invoice bills through the gate rests on a report its partners once confirmed; *unless overlapped*, on one that is confirmed now |
| | `ConfirmedStaysSigned`, `BilledEntryCounts` | *unless overlapped*: the signatures are there now; an entry that counts is not taken out and left on an invoice |
| | `FirstCopyStays` | *unless overlapped*: the signature that confirms leaves one copy to bill, the first |
| `Chat_proofs` | `CreatorInCharge` | a group or channel keeps its creator as administrator, and only administrators speak in a channel |
| | `NobodyElseReads`, `NewMessagesUnread` | *unless overlapped*: no mark outlives a membership; what appears is unread for whoever never read ahead |
| | `PinsStayLive`, `BoardsStaySound` | *unless overlapped*: pins show live messages, within the limit; votes and ticks fit their polls and lists |
| `Backups_proofs` | `NewestSpared` | a retention removes a snapshot only while `MinCount` newer ones stay, unless a run failed and took its own back |
| | `LastSnapshotIsThere` | *unless overlapped*: a state that tells of neither a run nor an error names the newest snapshot |
| `Correspondence_proofs` | `RegisterWithoutGaps` | the numbers of a register run from one to its counter and none is given twice, whatever fails or dies |
| | `FilesAreKept` | an attachment has its file; *unless overlapped* an incoming letter has a scan |
| | `NumberIsKept` | *unless overlapped*: a letter keeps its number and an archived letter rests |
| most | `TypeCorrect`, `Inductive` | the types of tables and plans; the inductive invariant |

*In turn* is the hypothesis `OneSession`: each handler commits or fails before the next
begins, for any number of handlers in all. It is what the serial runs check, and the
race configurations show that it cannot be dropped (`LeaveCancelRace.cfg`,
`LeaveDoubleRequest.cfg`, `ExpenseSweepRace.cfg`). *Unless overlapped* is the same as a
ghost in the property itself. *No edits by hand* is `NobodyByHand`: edits of the calendar
are single steps and would fall between the load and the commit of a handler that
read the calendar.

### Whatever overlaps

None of these properties is inductive: a commit applies a plan made in an earlier
state, possibly after other commits. `IInv` therefore adds what a plan promises until it is
committed (`EditsOK`, `PlanOK`): a planned payment is backed by the payments there are
plus its own; a plan to approve carries the final decision; an edit's event ends
in the status it writes; a planned number is the next of a register whose counter
the plan holds locked, and the files of a planned attachment are new and on disk.
Two facts make the promise last. What a plan relies on
only grows while the row exists (the history, the payments, the final decision, the
signatures ever given), or is out of reach of other plans (the locked counter, the
new files: `Apart`), and a deleted row does not come back under its id, so a
plan that outlives its row can never be committed. `Merge` then mixes two
rows column by column, and each column is covered by one of the two promises. Where
a property needs that nothing overlapped, `IInv` says that a plan which nothing
overlapped still describes the tables (`Alone`, or the plan's `snap` equal to the
row). Each module proves: `Init => IInv`; staging a plan that keeps its promises
preserves `IInv` (one lemma); each handler's plan keeps them (one step per
handler); each commit preserves `IInv`.

In `Backups` the plan is a caller's copy of the state and the snapshots it is about
to remove; the promise is that `MinCount` newer snapshots stay, which other
retentions, scanning the same folders, cannot break.

### In turn

The serial properties get an invariant of their own beside `IInv` (`SerialInv` in
`Invoices_proofs`, `TurnInv` in `ExpenseWorkflow_proofs` and `LeaveRequests_proofs`,
`SoundInv` in `Chat_proofs`, `DedupInv` in `PartnerConfirmations_proofs`): what a plan
loaded is what is in the table, and what its handler checked still holds, so that
`Merge` is the handler's row. In the expenses `TurnInv` adds what each status means for
the columns and for the last row of the history; a sweep is a plan of many edits, each
about a request of its own. In the leave the plan to approve owns no mark yet, and the
plan to cancel takes them all (`TurnInv`); what it fills and what is marked cover the
period (`ShownInv`).

The refinement maps a request to its row's status, to "deleted" once it is gone and to
"none" before, and its payment to whether the payer is recorded by hand; a
handler's load is a stutter and its commit the abstract step. With overlaps it does not hold,
as a payment may commit after the approval it read was taken back.

### Sums and numbers

`EntitlementKept` needs that a sum over a set of requests that gains one element grows by
it, and that it does not depend on what is outside the set; `FigureIsExplained` needs
the same about movements, and that a sum over a disjoint union is the sum of the sums.
The sums are `MapThenSumSet` of the community modules, a fold that chooses an element of
the set: that the order of the choice does not matter (`SumWithout`) needs an induction
over the subsets of a finite set. The library's induction theorems take an operator as a
parameter, which these provers cannot instantiate; `SubsetInduction` and `NatLeast`
say the same of a set of good subsets or numbers, and follow from the library's facts
on well-founded orders and intervals by a least counterexample. The lemmas stand in both
`LeaveRequests_proofs` and `CashDesk_proofs`, so that each proof module needs
its component and the library only.

`BalanceInv` says that a planned request, with what is in progress and approved,
stays within the entitlement of each year it touches, as only one handler is under way;
`CoveredInv` that a planned short leave is still covered by the flexible days of the year it
starts in, or by the continuous leave that was taken. `OneCopyLeft` picks the first copy by its number: `NatLeast` provides it.

### The cash desk

`IInv` says that requests and handlers under way were stamped in the past, and, in one
predicate over desk, tracked sums, movements and clock (`Sound`): rows add up, their ids and
times were given out and the ids are unique (`RowOK`); since the last set a reimbursement
has at most one row, at the sum tracked for it (`Charged`); rows typed in and balance
sets stand in the order of their ids (`InTime`). That a fold keeps it is
proved once, for `Fold` applied to any sound desk and any answer of the paid
query (`FoldedSound`): `SetBalance` folds a fresh desk, `Finish` the desk there
is with what the query of a handler returns.

The chain is proved on a form without CHOOSE: neighbours in the displayed order agree,
and the last row agrees with the desk (`Chain`, `Succ`). An edit shifts
every row from the edited one up to the next balance set, of which only the side
that was there before; `NeighboursShift` is that case split. A row recorded is the last
in the order since its time is new. A set is last unless the fold that follows it adds
rows, and then the tracked sums change and the property asks for nothing.

The figure is proved on `Surplus`, the desk less the last set and less the
effects since, for each step: a fold moves the desk by the sums of its new rows
and of the rows it drops, all since the last set, and the rest is the exception in the
property (`SurplusFolded`); an edit moves desk and sum alike if no set
lies between (`SurplusEdited`, `ReachesWhenCurrent`).

### Assumptions, and what is left

`IInv` of a module, and the invariants above, are ordinary state predicates: naming one as an
INVARIANT in a configuration checks it by TLC, which was done for each before it
was proved.

The assumptions are the named ASSUMEs of the modules: subsets of the sets of
users, numbers that are naturals, `None` is no value, and sets that are finite because
tables are (`Files`, `Tasks`, `Expenses`).

Only model-checked: the liveness properties `CompleteIsFound` and `RunningIsCleared`.
Liveness, ENABLED, and what a recursive definition computes for every input are out of
the prover's reach. Of `VacationBalance` the proofs use the sums and the days a period
has in a year; none of them expands `ContinuousTaken`, they hold whatever it finds.

## Not modelled

Mails and their delivery after a commit (no state depends on them); the
computing of amounts; HTTP, tokens and roles as the auth service hands them
out; everything marked `not_modelled` in `PROJECT.json`, with the reason. Most of
that code stores single rows, renders reports, imports workbooks or adapts
external systems: it has no state that several operations share, so that a model of
it would repeat it.

Known hazards outside the models: replacing the lines of an invoice checks them
against other invoices only, so the same entry may come twice in one request
(`time_tracking/application/invoice_service.py:1574`); a number given to an invoice by hand
may be the one the yearly counter reaches (`time_tracking/infrastructure/repository_invoices.py:54`);
files of expense attachments.

## Plan

The order is by how much a defect costs: approvals and money first. Done: expense
workflow and its abstract life, cash desk, leave and balance, invoices, partner
confirmations with the gate of invoices, chat, backups, correspondence. Next:

1. `InvoiceNumbers`: the yearly counter against numbers given by hand; whether an
   automatic number is eventually given.
2. `ExpenseFiles`: attachment rows and files with failures between them, as
   `Correspondence` does for letters.
3. Proofs: the continuous block of `VacationBalance` (what `ContinuousTaken` finds is a block
   of the length asked for); the refinement under a weaker hypothesis than `OneSession`.
4. `HourlyRates`: periods of rates that must not overlap and their propagation to
   entries.
5. `RateLimit`: a counter without expiry, in memory or Redis.
6. `Tickets` and `BoardOrder`: status changes against pushes; positions of cards.
