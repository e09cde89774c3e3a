# Verification of Ledger

TLA+ models, TLC runs and TLAPS proofs about the expense tracker in `src/`: a Go
server (`src/backend/`; the same files lie in `src/` itself) and a React page
(`src/frontend/src/`). The modules are translated from both and name the functions they
model; `PROJECT.json` maps every definition to its lines.

## 1. The system

| Component | State it keeps | Operations | Talks to |
|---|---|---|---|
| PIN and sessions (`auth.go`, `handlers_auth.go`) | owner PIN, guest PIN, session table, attempt counter in memory under one mutex; `pin.json`, `sessions.json` | SetupPIN, ChangePIN, SetGuestPIN, RemoveGuestPIN, Login, CreateUserSession, ValidateSession, Logout, hourly prune | request gate, registration |
| JSON stores (`store.go`, `generic_store.go`) | one map of all tenants' items under one mutex; one file each | Create, List, ListAll, Get, Update, Delete | every handler, the recurring sweep |
| Postgres stores (`pg_*.go`, `schema.go`, `storage.go`) | five tables | the same interface (`stores.go`), one statement each | alternative to the JSON stores |
| Accounts (`users.go`, `pg_user_store.go`) | users and an email index; `users.json` or a table | Register, Authenticate, HasAny, Get | registration, request gate |
| Request gate (`middleware.go`, `tenant.go`) | none | token to role and tenant; what a guest may do; open while nothing is set up | PIN and sessions, accounts |
| Goals (`handlers_goals.go`) | none beside the store | create, edit, contribute, delete | goal store, by several calls a request |
| Recurring (`recurring.go`, `handlers_recurring.go`, ticker in `main.go`) | none beside two stores | sweep at start-up, hourly and after a POST; edit; delete | rule store, transaction store |
| Budgets (`handlers_budgets.go`) | a limit and its history in each budget | create, edit, delete, progress | budget store |
| Transactions (`handlers.go`, `models.go`, `reports.go`) | none beside the store | create, PUT, PATCH, delete, reports | transaction store |
| Categories, import, export | none beside the stores | CRUD; row-by-row import; formatting | stores |
| Page (`App.jsx`) | lists, rows that wait for their deletion and their timers, alert maps, filters, the form's `submitting` | refresh, poll, create, edit, delayed delete, undo, alerts | the API |
| Page session (`useAuth.js`, `api.js`) | token and role in localStorage, status, role and `submitting` in React | status check, poll, set up, log in, register, lock, 401 and 403 handlers | the API |
| PIN pad (`LockScreen.jsx`) | digits, stage, error, `loading` | key, backspace, timers, submission | page session |
| Toasts (`useNotifications.js`, `ToastStack.jsx`) | toasts and their timers, the permission | notify, dismiss, act | page |
| Screenshot import (`ScanImportModal.jsx`, `useScreenshotOCR.js`, `bankParsers.js`) | step, drafts, worker | read, review, save row by row | page, a recognition worker |
| Editors in lists (`TransactionList.jsx`, `EditTransactionRow.jsx`, `BudgetManager.jsx`) | one editor, draft, error and saving row a list | edit, commit on Enter or blur, cancel | page |
| Forms (`TransactionForm.jsx`, `RecurringManager.jsx`, `CategoryManager.jsx`, `GoalsManager.jsx`, `Manage.jsx`, PIN sections) | fields, error, saving, what they know of the server | submit, choose, toggle, remove | page, the API |
| Reports and figures (`reportUtils.js`, `Reports.jsx`, `LedgerFilters.jsx`, `useAnimatedNumber.js`) | period, filters, an animation | choose, filter, animate | page |

What is hard to test in it, and where it bites, is the list `hazards` of
`PROJECT.json`. In short:

* **Memory before disk.** Every store operation changes its map, then rewrites a file
  in place, and on an error reports it and keeps the change. `RemoveGuestPIN` and
  `SetupPIN` write two files. A failed write, or a process that ends between two
  steps, leaves memory and files in different states.
* **Locks cover a call, not a request.** Contributions, edits and sweeps are several
  store calls; `Get` and `ListAll` return pointers to the stored structs.
* **Sweeps.** The ticker and every POST of a rule sweep, with no lock between them.
* **Time.** Expiry, the lockout, months that go by under a budget's history.
* **The page** applies answers in the order they arrive, whoever is signed in by then,
  and sends a delete five seconds after the click. A 401 clears whatever token is stored
  when it arrives. The page stays mounted while it is locked.
* **Its parts** keep a copy of what they were given when they were mounted (a category,
  whether a PIN is set, a start date), share one flag among several rows or requests,
  and move on by timers that keys, answers and unmounting fall between.
* **Dates** are UTC's in one place and the browser's in another; years are guessed.

What makes each component correct: a revoked session stays revoked and a set PIN
is never forgotten (PIN and sessions); what was acknowledged is shown and survives,
and tenants do not see or touch each other's items (stores); no amount is lost and
none goes below zero (goals); every occurrence is generated, once (recurring); each
month is compared against the limit it had (budgets); one account per email
(accounts); a request acts with the rights it has when it acts (gate); a delete
happens unless undone, and the page ends up showing what the server has (page); a tab
acts with the rights of its token, keeps a session that is live and leaves one that is
not (page session); a form sends what it shows, once, and says what was done (forms).

## 2. The modules

| Module | What it is |
|---|---|
| `AuthStore` | the PIN and session store with its two files, the clock, crashes |
| `AuthStoreProofs` | its theorems |
| `TenantStore` | abstract: what `stores.go` promises of a store |
| `FileStore` | one JSON store, shown to implement `TenantStore` |
| `FileStoreProofs` | its theorems, with the refinement |
| `Goals` | overlapping requests on one goal |
| `GoalsProofs` | its theorems |
| `Recurring` | overlapping sweeps, handlers and restarts over one rule |
| `RecurringProofs` | its theorems |
| `BudgetHistory` | the history of a budget's limit |
| `BudgetHistoryProofs` | its theorems |
| `Session` | the session of one browser tab: token, role, polls, sign-ins, late answers |
| `SessionProofs` | its theorems |
| `Ledger` | the page's list: overlapping refreshes, changes, the delete with its Undo |
| `LedgerProofs` | its theorems |
| `Alerts` | the budget and recurring alerts, over the same refreshes |
| `PinPad` | the pad with its timers |
| `Toasts` | toasts, their timers and actions |
| `ScanImport`, `BankParser` | a screenshot: the modal and its worker; from lines to drafts |
| `RowEdit` | editing in a list |
| `CategoryForms` | the forms that choose a category |
| `PinForms`, `ManageForms` | the forms of the Manage tab |
| `Reports`, `AnimatedNumber` | periods, reports, filters; the figures of the header |
| `Screens` | the parts of the page, `Alerts` to `AnimatedNumber`, composed: each behaviour is one part's |
| `ScreensProofs` | its theorems |
| `MCScreens` | the small instance of `Screens`, with the liveness of its parts |
| other `MC...` | what TLC needs beside the module: symmetry, owners and sets of amounts |

Variables after the line "what an observer knows" are not in the program: they
record what clients were told, so that properties can relate it to the state.

Operators marked `Mutant:` are not part of a specification. Each is a plausible slip
in the operation defined after it (a dropped check, a missing write, an off-by-one);
put in its place it makes the property named in `PROJECT.json` fail, which shows that
the property depends on that code.

**AuthStore.** One action per operation up to its first write (`SetupPIN`,
`RemoveGuestPIN`, `LoginOK`, `LoginWrong`, ...), then `PINWritten`, `SessionsWritten`
or `WriteFails`, which follow the order of the writes in the code. `phase` is not
"none" while the mutex is held, so no two operations overlap, and a crash can fall
between any two steps. A hash is the PIN it was made from. `Crash` empties memory;
`Restart` is `NewAuthStore`: it loads both files, drops expired sessions, and does not
happen when a file cannot be parsed, as `main.go` then ends the program. `pin.json`
cut short is unparsable; `sessions.json` cut to nothing loads as no sessions, which
`InterruptedSessionsFile` contains. `SetupPIN` runs under two names because
`HandleEnablePIN` throws the token it opens away. ValidateSession only reads:
`ValidSession`. Refused calls are stuttering.

**FileStore.** `Create`, `Update`, `Delete` change `items` and take the mutex (`op`);
`Persist` or `PersistFails` ends them. What an interrupted `os.WriteFile` leaves is the
constant `Remnants`: the old file, an empty one, an unparsable one. `Get` and `List`
read; their owner check is `Owns` and `List`. The Go code of `Store` and `FileStore[T]`
is the same but for the item type.

**Goals.** A request is a program counter and the struct it holds; `heap` makes the
sharing explicit: `ContributeGet` returns the stored struct, `ContributeWrite` writes
to it outside the lock, `EditCarry` makes a struct of its own. Reads and writes of
the shared struct race in Go; an amount is one aligned 64-bit word, so each is a step
that sees a whole value, and every order of these steps is explored. `goals.json`
itself is the business of `FileStore`: a failed write here only means that the client
was told of an error while memory changed.

**Recurring.** `sweep[s]` holds where a sweep stands and its local variables, read
when the code reads them: `today` and the struct pointers at `SweepList`, the rule's
fields at `SweepRead`, the loop's `due` and `created`. `SweepCreate` stores a
transaction, `SweepWrite` changes the shared struct, `SweepUpdate` stores the rule. At
start-up the ticker's goroutine sweeps before the server serves. The body of a PUT
carries the rule's current `next_due` or leaves it blank. Dates are day numbers and an
occurrence recurs after `Period` days: the calendar (months of different lengths, a
`start_date` that is no date) is left out.

**BudgetHistory.** `recordLimitChange` and `limitAtMonth` are translated as they are;
the loop that stops at the first later entry is `Takes`. Months before `since` (the
creation of a budget that has a history) show the first known limit and are not
claimed about. Requests come one at a time.

**Session.** `screen` is the state of `useAuth` and of the sign-in screens, `storage` the
two localStorage keys, `requests` what is under way, each with the token it carries. The
server is `grants` (which role each token was given with), `live`, `pinSet` and
`accountsMade`: what `auth.go` and `withAuth` let a client see, one step per request.
Answers arrive in any order, or are lost; `Resolved` is `handleResponse`, which clears
whatever token is stored when a 401 comes. `Reload` starts the tab again with what is in
localStorage. A deletion that waits when the page is locked is sent with the next
user's token (`Defer`, `FireDeferred`).

**Ledger.** A refresh is started, read by the server, and applied, in three steps that
any other may come between; `after` is the handler that waits for it. `Delete` hides the
row and arms a timer, `Fire` sends the DELETE with the token of now, `Undo` clears the
timer the map has for the row. The list is the transactions of one kind; the other five
GETs of a refresh are in `Alerts`, whose state is what it compares.

**The smaller parts.** Each keeps its state in one record `ui`, named as in the
component; fields after "what an observer knows" are the record's ghosts. They share no
state; `Screens` instantiates them over one `ui`, and `screen` says which part a behaviour
is of, so that one run and one invariant speak of all of them. The answers of the server
are steps of the environment.

`BankParser` and `Reports` are mostly operators: `parseTransactionLines`, `buildReport`,
`getPeriodRange`, `filteredTransactions` on what a state holds. Their actions build the
inputs step by step (one more transaction, half a day later; the parser's loop takes one
more line), and the properties compare the result with a definition that does not walk: an
entry's date is that of the nearest header above it; a report's totals are sums over a set.
A line is what the regular expressions find in it.

## 3. The runs

| Run | Bounds | Shows |
|---|---|---|
| `auth_crash` | 2 PINs, 1 account, 2 tokens, expiry after 2 of 3 ticks, 1 failed write, 1 crash | revoked stays revoked, the PIN is never forgotten, handed-out sessions are honoured, guests need a guest PIN, restarts lose nothing |
| `auth_live` | 2 PINs, 1 token, lock after 2 wrong PINs for 3 of 5 ticks, 1 failed write, 1 crash | guesses are slow; expired sessions are pruned |
| `store_faults` | 2 tenants, 3 ids, 2 values, 2 failed writes, 2 crashes, interrupted writes leave the old file | no step touches another tenant's items; what is acknowledged is shown and durable; implements `TenantStore` until a write is reported as failed |
| `goals_race` | 3 requests, contributions -1, 1, 2, PUTs of 0 and 3, 1 failed write | never negative, exact when sequential, deletion final |
| `goals_progress` | 3 requests, PUTs without an amount | *violation*: an edit resets progress |
| `recurring_sweeps` | 2 sweepers, 3 days, cap 2, 1 edit, 1 failed write, 1 crash | nothing skipped, once when alone, deletion and pause hold, sweeps catch up with the calendar |
| `budget_months` | 3 limits, 5 months, a legacy budget or none | past months keep their limit |
| `session` | 2 tokens, 1 request of each kind at a time, 1 lost answer, 1 revocation | the tab acts with its token's role, keeps a live session, leaves a revoked one, forms end |
| `session_wrong_pin` | the same | *violation*: a mistyped current PIN ends the session |
| `page` | 1 transaction of 2 users, 2 clicks, 1 failure, 1 sign-in | a row is hidden for a reason, an undone deletion is never sent, one that is not undone happens; no row stays hidden and the form does not stay disabled; fresh in the end |
| `screens` | of each part: 2 rows, 2 or 3 values, 1 lost answer, 2 to 4 clicks | what is sent is what was shown, once; what is shown is so; nothing outlives its use; alerts are news and all are given in the end; reports and drafts are right; nothing waits for ever |
| `entry_form` | 2 categories, 1 income category | *violation*: the form asks for a category although there are some |

Why the bounds are enough: the races involve two actors and one item; a third
request, id or struct shows that the others are left alone. One failure of each kind
reaches every failure point, as the run tries it at each; a second one (stores) covers
a failure during the recovery from the first. Two ticks past an expiry, one day past
the cap and two months past an edit reach the boundary and what follows it. On the
page, rows are deleted, hidden and undone by their own id and timer, so that one is
enough for `Ledger`, with two clicks for a second deletion of the same row; what rows do share
(one editor, one `savingId`) is in `RowEdit`, which has two. Two tokens are a session
and the next one. The parser
meets every sequence of up to four lines of twelve kinds.

Deadlock is not checked where the system may stop: tokens, ids, requests, clicks and the
clock are bounded, and a server whose file cannot be parsed does not start again.
In `screens` the pad may be locked for good, and every part's clicks are bounded.
`budget_months` checks it: a budget can always be edited.

Fairness. *AuthStore*: the clock goes on, a write
returns, a stopped server is started again if it can be; the hourly prune is strongly
fair, because it asks for the mutex every hour and a Go mutex is handed to a waiter
that has starved for a millisecond. A server that cannot start has no live session, so
the property holds there too. *Recurring*: the ticker keeps sweeping, a sweep once
begun goes on, days pass, a stopped server is started again. Clients are never assumed
to do anything. The clock is bounded, so "catches up" means: once days have stopped
passing, the backlog is worked off. *Session, Ledger*: the polls of the page go on
(`setInterval`), timers fire, and a request that was sent is served and answered, or
fails: `fetch` has no timeout in this code, so that a connection that hangs for ever is
excluded. *Screens*: timers fire (`Timers`) and what was sent is answered or lost
(`Answers`), for the one part a behaviour is of. The person is never assumed to do
anything.

Each property of `screens` is a CASE over the parts: `SentAsShown`, `SentOnce`,
`ShownIsSo`, `NothingOutlivesItsUse`, `AlertsAreNews`, `ReportsAreRight`,
`DraftsAreTheScreens`, `AwareInTheEnd` and `WaitsEnd` name, for the part a behaviour is
of, the property of its module. The type invariants of the server modules, of `Session`
and of `Ledger`, and what three theorems of section 5 say beside them (items never
change hands, a history is sorted, an edit keeps the past) are in no run: they are proved.

## 4. What disagrees with the documentation

* `goals_progress`: "Editing a goal's name/target shouldn't reset progress already
  made", yet an edit that overlaps a contribution puts the older amount back.
* `session_wrong_pin`: `api.js` drops the user to the lock screen on every 401, "session
  expired, PIN changed elsewhere, etc."; a mistyped current PIN is answered 401 as well,
  and logs the owner out of a session that the server still honours.
* `entry_form`: the entry form takes its category from the categories there are when it
  is mounted; if they come later, its select shows one and Submit asks for one to be
  added first.

Seen while modelling, with no run of their own. In the server:

* Turning guest access off "immediately invalidates any guest session" (`src/README.md:356`);
  a process that ends between the writes of `pin.json` and `sessions.json` brings
  them back (`GuestsNeedGuestPIN` holds until such a crash).
* `store.go:13` says that every mutation is written "so the app survives restarts"; the
  file is truncated in place first (`FileStore` with `Remnants = {"empty"}`).
* Two sweeps that overlap generate an occurrence twice (`recurring.go:24`, no lock).
* A PUT of a goal takes a negative amount (`handlers_goals.go:76`), which `goals_race`
  excludes by its set `PutAmounts`; `validateRecurringRule` takes a start date that is
  no date, which `advanceDate` never advances, so each sweep generates up to 60 more.
* An import row whose write failed is told as skipped and is in the ledger all the same.

In the page; where a property has an "unless", this is it:

* On a fresh install PIN setup is "still one link away" (`App.jsx:65`), but the link of
  the register form leads to a login form that has none.
* A 401 or a logout's answer that comes late signs out whoever is signed in by then. A
  deletion that waits when the page is locked goes out without a token, or with the next
  user's, and the lists of one user are shown to the next until their first refresh.
* Refreshes applied out of order show an older list until the next poll, and announce
  an alert again.
* A PIN completed a second time within 150 ms is submitted twice.
* A recognition worker that loads after its timeout is never ended. "Scan another" while
  rows are being saved, or a retry after a lost answer, stores rows twice.
* The parser takes a row with its date on the same line for a header and loses the entry;
  noise lines count for the date of a receipt.
* A save that ends closes the editor another row has opened meanwhile.
* The budget form still holds a category that its select no longer offers and submits it.
* Status, change and removal of the guest PIN may overlap; the section then shows
  another state than the server's. A contribution retried after a lost answer counts
  twice, and its field is cleared whatever was typed meanwhile.
* A figure whose target returns to where a cancelled animation began stays in between.
* `isoMonthsAgo` and `todayISO` are UTC's: around local midnight on the first of a month
  "this month" is empty, or misses today, and "last 3 months" starts a day off.
* The strip of a budget's history is loaded once; reports count rows that wait for
  their deletion; an import of a file with a header only says nothing.

## 5. The proofs

The proofs hold for all values of the constants that satisfy the modules' `ASSUME`s:
distinct sentinels, positive limits, natural bounds. The bounds are arbitrary there, so
they bound nothing.

* **AuthStore.** `TypeCorrect`. `RevokedStays` needs that a removed token is in
  no place it could return from: neither memory nor a file a restart accepts
  (`RevocationInv`); a token on its way out is out of memory while the file is written.
  `PINIsNeverForgotten` needs the same of the PIN in `pin.json`, and that no write of
  it starts without one (`PINInv`). `RestartIsLossless` and `GuestsHaveAGuestPIN` rest
  on what memory and files agree on in each phase (`DurableInv`), guests included;
  `SessionsAreHonoured` on that and on where a session that was handed out is (`Kept`).
  `GuessesStaySlow`: the last `failedAttempts` rejections came after the lock that the one
  before them brought (`GuessInv`).
* **FileStore.** `TypeCorrect`; `ItemsNeverChangeHands` and `OneTenantAtATime` (with: ids not
  yet given out hold nothing). `AcknowledgedSurvives`, `AcknowledgedIsDurable` and
  `Implements` assume that an interrupted write leaves the old file (with an empty one they
  fail); `Implements` holds until a write is reported as failed. `RefinementInv` says that memory and file differ in the item
  at work at most, and how, which makes each `Persist` one whole abstract operation.
* **BudgetHistory.** `HistoryStaysSorted`, `PastIsKept`, `EditsLeaveThePast`, from
  `HistoryInv`: sorted entries, the first no later than the first known month, and for
  every known month the place where the loop of `limitAtMonth` stops and the limit it
  stops with, which a lemma shows to be unique.
* **Goals.** `NeverBelowZero` needs every struct there is to hold a natural amount, the
  one a request is about to write and the one an edit carries included (`AmountsInv`); it
  assumes that PUTs carry no negative amount. `DeletionIsFinal` is an action property and
  rests on requests holding structs that exist (`HeldInv`). `ExactAlone`: while no two
  requests have overlapped, one is under way at most, and `ExactInv` says for each step it
  can be at what its struct and the stored one hold of the observer's sum.
* **Recurring.** `NothingIsSkipped`: every `next_due` there is (in a struct that is current
  or was replaced, in `recurring.json`, in the loop of a sweep) is covered, i.e. each occurrence
  before it is in memory and in the file (`SkipInv`); a sweep moves its own past a day only
  after `Create` of that day returned, whatever the others do. `PausedIsQuiet`: once a rule
  was paused between sweeps, no place a sweep could take it from has it active (`PausedInv`). `DeletionIsFinal`: nothing brings the one rule back (`DeletionInv`). A new
  struct finds a free place by counting: sweepers and the map hold fewer than there are.
  `OnceAlone`: while no two sweeps overlap and nothing fails, no occurrence from the
  `next_due` of the loop on has been generated, nor from one that a sweep may still read
  (`OnceInv`); an edit may put an older one back, but the `Update` of the sweep at work
  replaces it.
* **Session.** `TheRoleIsRight` needs what localStorage, React's state and each request
  carry to agree with what the server granted (`GrantInv`); `GuestsReadOnly` that no
  change was sent with a guest's token (`WritesInv`); `LiveSessionsStay` that a 401 is
  about a token that is not live, a wrong current PIN excepted (`RefusalInv`).
* **Ledger.** `UndoHolds`: while no DELETE of a row was sent, no timer waits for it but
  the one the map knows, and that row is hidden and not undone (`WaitingInv`).
  `RowsAreHiddenForAReason` is inductive with the types.

* **Screens.** `IInv` is the invariant of the part on screen. What each needs to be
  inductive:
  * pad: a timer or a submission carries a PIN that was typed, and between two keys there is
    one of them; toasts: ids are given out once, and each toast has its timer;
  * scan: rows under way were ticked when Add was clicked, and the rows of two saves are
    disjoint until the modal is left; row editor: it holds the draft of its own row;
  * category forms: the lists name a category once, and the one a budget is chosen for has
    none yet; PIN forms: what a request that is alone will tell of what is known; Manage: what
    was told and what is under way add up to what the server did;
  * alerts: `Enough`. Refreshes that wait are numbered in the order the server read them, and
    a bound on the alerts that any order-keeping application of them can give is not above
    what is still to be alerted about;
  * reports: `AddUp` says of the loop's figures after k entries that net, categories, counts
    and months are the sums over the entries in range among these. That a sum does not
    depend on the order in which a set is taken is `SumPicks`;
  * parser: `WalkInv` says that there is a draft for each entry, in the order of the lines,
    with the date of the nearest header above it, a title of its own, and a guess the
    person's categories have; the date the walk holds is the one a next entry would get.

  `ReportsAreRightAlways` and `DraftsAreTheScreensAlways` are about loops over data. Their
  loop is a step of the module (parser) or a recursive function (reports), and the
  induction is on the least counterexample: of a non-empty set of naturals, or of finite
  sets, one is least (`SomeFirst`, `SomeSmallest`), from the well-foundedness of `<`.

The assumptions of `Screens` are that bounds are numbers (`BoundsAreNatural`), that no row
or category has the name of none and amounts are positive (`RowsAreNamed`), that fields hold
numbers (`ValuesAreNumbers`), that transactions have a day and a positive amount
(`TransactionsAreDated`; `handlers.go:164` refuses any other amount), that the page is
opened at some time (`ClockHasAStart`), and that a year lies behind the day a screenshot is
read on (`AYearIsBehind`).

What the proofs changed. Two properties held on the small instances only, and say now what the
code does:

* `BudgetsAreDistinct` failed with three categories: a form that was left as it was sends a
  category that has a budget by now. It is about categories the person chose;
* `DatesAreGuessedNear` had a bound for guesses of the year that fails when the screenshot is
  read on other days of the year. The bound is a year.

And the models were too coarse in two places: a budget or a rule that is deleted is not the
one that is made later (`Alerts`), and an answer of the server holds what it tells of a guest
PIN (`PinForms`).

Only model-checked: the liveness properties (`ExpiredArePruned`, `CatchesUp`,
`RevokedIsBounced`, `SubmittingEnds`, `DeletionHappens`, `ReleasedInTheEnd`, `FreshInTheEnd`,
`AwareInTheEnd`, `WaitsEnd`), which rest on fairness and are out of the provers' reach, and
what the three violations show. Every safety property of a passing run is proved.

## 6. What is left, and in which order

More of the server: registration with its rollback and the email index (`users.go`);
`withAuth` against what changes before the handler acts; overlapping PUTs in
`BudgetHistory`; PATCHes of two clients; the lengths of months in `advanceDate`.

More about the stores: what `Implements` promises after a write was reported as failed.

## 7. Not modelled

* File formats of import and export, HTML and XLSX output, text recognition itself,
  regular expressions, hashing, routing: parsing, pure formatting, libraries.
* The Postgres stores: each operation is one statement of the database, so that there
  are no steps of their own to interleave; that their reads are copies, which makes `Goals`
  harmless in part, is noted in no run.
* Rendering, styling, themes, icons and charts; the layout of `Reports.jsx` and
  `BudgetManager.jsx`; two tabs that share localStorage.
* `Session` and `Ledger` are not composed: each has the other's part as a step of its
  environment (`Lock`, `SignIn`; `Defer`, `FireDeferred`). One product of the two is beyond
  what TLC explores with the bounds that make either interesting.
