------------------------------- MODULE Screens -------------------------------
(***************************************************************************)
(* The parts of the page that keep their own state, one at a time: each    *)
(* behaviour is one of `screen`, and `ui` is the state of that part.  They *)
(* share nothing, and are composed so that one run and one inductive       *)
(* invariant speak of all of them.                                         *)
(***************************************************************************)
EXTENDS Integers, FiniteSets

CONSTANTS
    Digits, PIN_LENGTH, MaxKeys,                 \* PinPad
    MaxToasts,                                   \* Toasts
    MaxSpends, MaxDue, MaxChanges,               \* Alerts
    MaxRows, MaxScans,                           \* ScanImport
    Rows, Amounts, MaxEdits,                     \* RowEdit
    Expense, Income, MaxForms,                   \* CategoryForms
    MaxSubmits,                                  \* PinForms
    Targets, Between, MaxTargets,                \* AnimatedNumber
    Categories, Dates, Prices, Clock, MaxTransactions,   \* Reports
    Today, Screenshots,                          \* BankParser
    Values, MaxClicks,                           \* ManageForms
    None, MaxFailures                            \* several

\* Bounds are numbers.
ASSUME BoundsAreNatural ==
    /\ PIN_LENGTH \in Nat \ {0} /\ MaxKeys \in Nat
    /\ MaxToasts \in Nat /\ MaxRows \in Nat /\ MaxScans \in Nat
    /\ MaxDue \in Nat /\ MaxClicks \in Nat

\* No row is without a name, and no category.
ASSUME RowsAreNamed ==
    /\ None \notin Rows /\ Amounts \subseteq Nat \ {0}
    /\ None \notin Expense \cup Income

\* What a form of the Manage tab takes are numbers, an empty field among them.
ASSUME ValuesAreNumbers == Values \subseteq Int /\ 0 \in Values

\* Transactions have a date and an amount.
ASSUME TransactionsAreDated == Dates \subseteq Int /\ Prices \subseteq Nat \ {0}

\* The page is opened at some time, in half days of UTC.
ASSUME ClockHasAStart ==
    Clock \subseteq Int /\ \E first \in Clock : \A time \in Clock : first <= time

VARIABLES screen, ui
vars == <<screen, ui>>

Pin      == INSTANCE PinPad
Toast    == INSTANCE Toasts
Alert    == INSTANCE Alerts
Scan     == INSTANCE ScanImport
Row      == INSTANCE RowEdit
Category == INSTANCE CategoryForms WITH NoCategory <- None, MaxEdits <- MaxForms
PinForm  == INSTANCE PinForms
Number   == INSTANCE AnimatedNumber WITH MaxChanges <- MaxTargets
Report   == INSTANCE Reports WITH Amounts <- Prices
Parser   == INSTANCE BankParser
Manage   == INSTANCE ManageForms

\* Screenshots are read when there has been a year before this one.
ASSUME AYearIsBehind == Today \in Nat /\ Today >= Parser!DaysPerYear

Init ==
    \/ screen = "pin"      /\ Pin!Init
    \/ screen = "toast"    /\ Toast!Init
    \/ screen = "alert"    /\ Alert!Init
    \/ screen = "scan"     /\ Scan!Init
    \/ screen = "row"      /\ Row!Init
    \/ screen = "category" /\ Category!Init
    \/ screen = "pinform"  /\ PinForm!Init
    \/ screen = "number"   /\ Number!Init
    \/ screen = "report"   /\ Report!Init
    \/ screen = "parser"   /\ Parser!Init
    \/ screen = "manage"   /\ Manage!Init

Step ==
    \/ screen = "pin"      /\ Pin!Next
    \/ screen = "toast"    /\ Toast!Next
    \/ screen = "alert"    /\ Alert!Next
    \/ screen = "scan"     /\ Scan!Next
    \/ screen = "row"      /\ Row!Next
    \/ screen = "category" /\ Category!Next
    \/ screen = "pinform"  /\ PinForm!Next
    \/ screen = "number"   /\ Number!Next
    \/ screen = "report"   /\ Report!Next
    \/ screen = "parser"   /\ Parser!Next
    \/ screen = "manage"   /\ Manage!Next

Next == Step /\ UNCHANGED screen

\* The browser's timers, and the answers of the server.
Timers ==
    /\ \/ screen = "pin"   /\ Pin!Timers
       \/ screen = "toast" /\ Toast!Timers
       \/ screen = "alert" /\ Alert!Poll
       \/ screen = "scan"  /\ Scan!Timers
    /\ UNCHANGED screen
Answers ==
    /\ \/ screen = "pin"     /\ Pin!Answers
       \/ screen = "alert"   /\ Alert!Answers
       \/ screen = "scan"    /\ Scan!Answers
       \/ screen = "row"     /\ Row!Answers
       \/ screen = "pinform" /\ PinForm!Network
       \/ screen = "manage"  /\ Manage!Network
    /\ UNCHANGED screen

Spec == Init /\ [][Next]_vars /\ WF_vars(Timers) /\ WF_vars(Answers)

-----------------------------------------------------------------------------

\* The state of every part has its type.
TypeOK ==
    CASE screen = "pin"      -> Pin!TypeOK
      [] screen = "toast"    -> Toast!TypeOK
      [] screen = "alert"    -> Alert!TypeOK
      [] screen = "scan"     -> Scan!TypeOK
      [] screen = "row"      -> Row!TypeOK
      [] screen = "category" -> Category!TypeOK
      [] screen = "pinform"  -> PinForm!TypeOK
      [] screen = "number"   -> Number!TypeOK
      [] screen = "report"   -> Report!TypeOK
      [] screen = "parser"   -> Parser!TypeOK
      [] screen = "manage"   -> Manage!TypeOK

\* What reaches the server is what the person saw and confirmed: the PIN typed in both
\* stages of a set-up (LockScreen.jsx), rows of a screenshot that were ticked when Add was
\* clicked (ScanImportModal.jsx), a row's own draft (TransactionList.jsx, BudgetManager.jsx,
\* EditTransactionRow.jsx), the category a recurring entry's form shows (RecurringManager.jsx).
SentAsShown ==
    CASE screen = "pin"      -> Pin!SetupIsConfirmed
      [] screen = "scan"     -> Scan!OnlyAddedIsStored
      [] screen = "row"      -> Row!OwnDraftIsSaved
      [] screen = "category" -> Category!RecurringSendsWhatItShows
      [] OTHER               -> TRUE

\* And it reaches it once: a scanned row over retries, an amount however often its input
\* blurs, a budget for a category that was chosen, a form of the Manage tab.
SentOnce ==
    CASE screen = "scan"     -> Scan!StoredOnce
      [] screen = "row"      -> Row!SavedOneAtATime
      [] screen = "category" -> Category!BudgetsAreDistinct
      [] screen = "manage"   -> Manage!OneAtATime
      [] OTHER               -> TRUE

\* What the person is shown or told is so: an error is about the PIN in the pad, the PIN
\* sections know whether a PIN is set (ChangePinSection.jsx, GuestAccessSection.jsx), what
\* Manage told of is what was done (GoalsManager.jsx, App.jsx), and a figure at rest is its
\* target (useAnimatedNumber.js).
ShownIsSo ==
    CASE screen = "pin"     -> Pin!ErrorIsForThisPIN
      [] screen = "pinform" -> PinForm!KnownIsServers /\ PinForm!EnablesOnce
      [] screen = "manage"  -> Manage!ToldIsDone
      [] screen = "number"  -> Number!StopsAtTheTarget
      [] OTHER              -> TRUE

\* Nothing the page starts outlives what it is for: a toast is there exactly as long as
\* its timer runs (useNotifications.js), a recognition worker as long as its scan
\* (useScreenshotOCR.js).
NothingOutlivesItsUse ==
    CASE screen = "toast" -> Toast!ShownWhileItsTimerRuns
      [] screen = "scan"  -> Scan!WorkersEnd
      [] OTHER            -> TRUE

\* App.jsx: no alert is given twice, or for what the first load found.
AlertsAreNews == screen = "alert" => Alert!AlertsAreNews
\* App.jsx: the page gets to know of all there is to alert about, whatever was lost.
AwareInTheEnd == <>[](screen = "alert" => Alert!Aware)

\* reportUtils.js, App.jsx: the figures of a report agree with each other, its period is
\* the one that it names, and no row is hidden without saying that there are filters.
ReportsAreRight ==
    screen = "report" =>
        /\ Report!FiguresAgree
        /\ Report!TodayIsReported /\ Report!PeriodsAreWhole
        /\ Report!NothingHiddenSilently

\* bankParsers.js: every entry of a screenshot, and nothing else, is a draft, with the date
\* and the title that stand above it, and with guesses that are close.
DraftsAreTheScreens ==
    screen = "parser" =>
        /\ Parser!EntriesAreDrafts
        /\ Parser!DatesAreFromAbove /\ Parser!TitlesAreOfTheirEntry
        /\ Parser!DatesAreGuessedNear /\ Parser!TypesOnlyRefine

\* TransactionForm.jsx:50: the form asks for a category only when there is none.
EntryAsksOnlyWhenNone == screen = "category" => Category!AsksOnlyWhenNone

=============================================================================
