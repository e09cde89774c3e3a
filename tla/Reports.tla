------------------------------ MODULE Reports ------------------------------
(***************************************************************************)
(* What the page computes from the transactions it holds: the Reports tab  *)
(* (src/frontend/src/reportUtils.js, components/Reports.jsx) and the       *)
(* ledger's filters (App.jsx, components/LedgerFilters.jsx).  Dates are    *)
(* numbered days; the clock is in half days of UTC, and the browser's zone *)
(* is a half day ahead of it, behind it, or the same.  Rows that wait for  *)
(* their deletion are in the module Ledger.                                *)
(***************************************************************************)
EXTENDS Integers, Sequences, FiniteSetsExt, Functions

CONSTANTS
    Categories,
    Dates,            \* days transactions may have
    Amounts,
    Clock,            \* half days of UTC during which the page is used
    MaxTransactions   \* bound: transactions on the Reports tab

VARIABLE ui

\* The calendar: every month and year is as long as the others.
DaysPerMonth == 2
DaysPerYear == 4
FirstOf(day, length) == day - (day % length)

Periods == {"this-month", "last-3-months", "this-year", "all-time", "custom"}
Description == "description"
Missing == -1
Any == "all"
Blank == "blank"    \* a query of spaces

Transaction == [type : {"income", "expense"}, category : Categories, date : Dates,
                amount : Amounts]

NoFilters == [query |-> "", type |-> Any, category |-> Any, dateFrom |-> Missing, dateTo |-> Missing]

Init ==
    \E offset \in {-1, 0, 1}, tab \in {"reports", "ledger"} :
        LET time == CHOOSE t \in Clock : \A u \in Clock : t <= u IN
        ui = [tab |-> tab, transactions |-> <<>>, time |-> time, offset |-> offset,
              period |-> "this-month", customFrom |-> time \div 2, customTo |-> time \div 2,
              filters |-> NoFilters]

TypeOK ==
    /\ ui.transactions \in Seq(Transaction)
    /\ ui.period \in Periods /\ ui.time \in Clock
    /\ ui.filters.type \in {Any, "income", "expense"}

-----------------------------------------------------------------------------
(* Periods                                                                  *)

todayISO == ui.time \div 2
LocalDay == (ui.time + ui.offset) \div 2

\* The first of the month n months ago, at this time of the day, in UTC.
isoMonthsAgo(n) ==
    LET first == FirstOf(LocalDay, DaysPerMonth) - n * DaysPerMonth
        time  == 2 * first + ((ui.time + ui.offset) % 2)
    IN  (time - ui.offset) \div 2

\* Mutant: the day of the month is not reset.
isoSameDayMonthsAgo(n) ==
    (2 * (LocalDay - n * DaysPerMonth) + ((ui.time + ui.offset) % 2) - ui.offset) \div 2

firstOfMonthISO == FirstOf(LocalDay, DaysPerMonth)
firstOfYearISO == FirstOf(LocalDay, DaysPerYear)

PeriodRange(period, today, threeMonths) ==
    CASE period = "this-month"    -> [from |-> firstOfMonthISO, to |-> today]
      [] period = "last-3-months" -> [from |-> threeMonths, to |-> today]
      [] period = "this-year"     -> [from |-> firstOfYearISO, to |-> today]
      [] period = "custom"        ->
             [from |-> ui.customFrom,
              to |-> IF ui.customTo = Missing THEN today ELSE ui.customTo]
      [] period = "all-time"      -> [from |-> Missing, to |-> Missing]

\* Mutant: ends with the browser's day.
PeriodRangeLocal(period) == PeriodRange(period, LocalDay, isoMonthsAgo(2))
\* Mutant: starts today two months ago.
PeriodRangeToday(period) == PeriodRange(period, todayISO, isoSameDayMonthsAgo(2))

getPeriodRange(period) == PeriodRange(period, todayISO, isoMonthsAgo(2))

InRange(day, range) ==
    /\ range.from # Missing => day >= range.from
    /\ range.to # Missing => day <= range.to

-----------------------------------------------------------------------------
(* Figures                                                                  *)

Month(t) == t.date \div DaysPerMonth
Nothing == [type \in {"income", "expense"} |-> 0]
Effect(t) == IF t.type = "expense" THEN -t.amount ELSE t.amount

Empty == [total |-> Nothing, months |-> {}, categories |-> {},
          month |-> [m \in {d \div DaysPerMonth : d \in Dates} |-> Nothing],
          category |-> [c \in Categories |-> [total |-> 0, count |-> 0]]]

\* Mutant: as if a category were an expense or an income altogether.
TakeUnsigned(t, report) ==
    [report EXCEPT
        !.total[t.type] = @ + t.amount,
        !.months = @ \cup {Month(t)}, !.month[Month(t)][t.type] = @ + t.amount,
        !.categories = @ \cup {t.category},
        !.category[t.category] = [total |-> @.total + t.amount, count |-> @.count + 1]]

\* The body of the loop of buildReport; maps are total here.
Take(t, report) ==
    [report EXCEPT
        !.total[t.type] = @ + t.amount,
        !.months = @ \cup {Month(t)}, !.month[Month(t)][t.type] = @ + t.amount,
        !.categories = @ \cup {t.category},
        !.category[t.category] = [total |-> @.total + Effect(t), count |-> @.count + 1]]

\* The loop, over the transactions that filterTransactionsByRange leaves.
buildReport(range) ==
    LET upTo[n \in 0..Len(ui.transactions)] ==
            IF n = 0 THEN Empty
            ELSE IF InRange(ui.transactions[n].date, range)
            THEN Take(ui.transactions[n], upTo[n - 1])
            ELSE upTo[n - 1]
    IN  upTo[Len(ui.transactions)]

report == buildReport(getPeriodRange(ui.period))
Net(total) == total["income"] - total["expense"]

\* The running net, by month, in the header.
monthlyTrend(rep) ==
    [m \in rep.months |-> SumFunctionOnSet([n \in rep.months |-> Net(rep.month[n])],
                                           {n \in rep.months : n <= m})]

-----------------------------------------------------------------------------
(* The ledger's filters                                                     *)

Matches(t, query) == query \in {t.category, Description}

Passes(t, noQuery) ==
    LET f == ui.filters IN
    /\ f.type # Any => t.type = f.type
    /\ f.category # Any => t.category = f.category
    /\ f.dateFrom # Missing => t.date >= f.dateFrom
    /\ f.dateTo # Missing => t.date <= f.dateTo
    /\ f.query \notin noQuery => Matches(t, f.query)

\* Mutant: the query is not trimmed.
filteredUntrimmed == {i \in DOMAIN ui.transactions : Passes(ui.transactions[i], {""})}

\* The rows that are shown, by their places in the list.
filteredTransactions ==
    {i \in DOMAIN ui.transactions : Passes(ui.transactions[i], {"", Blank})}

isFiltering ==
    \/ ui.filters.query \notin {"", Blank} \/ ui.filters.type # Any
    \/ ui.filters.category # Any \/ ui.filters.dateFrom # Missing \/ ui.filters.dateTo # Missing

hasActiveFilters ==
    \/ ui.filters.type # Any \/ ui.filters.category # Any
    \/ ui.filters.dateFrom # Missing \/ ui.filters.dateTo # Missing

-----------------------------------------------------------------------------
(* The person                                                               *)

\* A transaction is added, here or by anyone.  Bound: one on the ledger's tab, where
\* each row is looked at by itself.
Add(t) ==
    /\ Len(ui.transactions) < IF ui.tab = "ledger" THEN 1 ELSE MaxTransactions
    /\ ui' = [ui EXCEPT !.transactions = Append(@, t)]

\* The page stays open.  The clock matters to the Reports tab only.
Tick == ui.tab = "reports" /\ ui.time + 1 \in Clock /\ ui' = [ui EXCEPT !.time = @ + 1]

Choose(period) == ui.tab = "reports" /\ ui' = [ui EXCEPT !.period = period]

\* The custom dates, each within its input's min and max; an input can be cleared.
ChooseCustom(from, to) ==
    /\ ui.period = "custom" /\ (from # Missing /\ to # Missing => from <= to)
    /\ ui' = [ui EXCEPT !.customFrom = from, !.customTo = to]

\* update of LedgerFilters.
update(f) == ui.tab = "ledger" /\ ui' = [ui EXCEPT !.filters = f]

clearAll == hasActiveFilters /\ update([NoFilters EXCEPT !.query = ui.filters.query])

Filter ==
    \/ \E q \in Categories \cup {"", Blank, Description} : update([ui.filters EXCEPT !.query = q])
    \/ \E t \in {Any, "income", "expense"} : update([ui.filters EXCEPT !.type = t])
    \/ \E c \in Categories \cup {Any} : update([ui.filters EXCEPT !.category = c])
    \/ \E d \in Dates \cup {Missing} :
          update([ui.filters EXCEPT !.dateFrom = d]) \/ update([ui.filters EXCEPT !.dateTo = d])

Next ==
    \/ \E t \in Transaction : Add(t)
    \/ Tick
    \/ \E p \in Periods : Choose(p)
    \/ \E from, to \in Dates \cup {Missing} : ChooseCustom(from, to)
    \/ Filter \/ clearAll

-----------------------------------------------------------------------------
(* What makes it correct                                                    *)

\* The figures of a report agree: its categories, its months and the header's trend all
\* add up to its net, and its counts to the entries in its range.
FiguresAgree ==
    LET r == report
        effect == [i \in DOMAIN ui.transactions |-> Effect(ui.transactions[i])]
        inRange == {i \in DOMAIN ui.transactions :
                       InRange(ui.transactions[i].date, getPeriodRange(ui.period))}
        net == SumFunctionOnSet(effect, inRange)
    IN  /\ Net(r.total) = net
        /\ SumFunction([c \in r.categories |-> r.category[c].total]) = net
        /\ SumFunction([c \in r.categories |-> r.category[c].count]) = Cardinality(inRange)
        /\ \A c \in r.categories :
              r.category[c].total
                  = SumFunctionOnSet(effect, {i \in inRange : ui.transactions[i].category = c})
        /\ r.months # {} => monthlyTrend(r)[Max(r.months)] = net

\* An entry that the form has just dated is in every period but a custom one, unless the
\* browser's month is not that of UTC: "this month" then is another one than today's.
TodayIsReported ==
    FirstOf(LocalDay, DaysPerMonth) = FirstOf(todayISO, DaysPerMonth) =>
        \A p \in Periods \ {"custom"} : InRange(todayISO, getPeriodRange(p))

\* Periods are whole months and reach as far back as they say, while the browser and
\* UTC agree on the day.
PeriodsAreWhole ==
    LocalDay = todayISO =>
        /\ getPeriodRange("this-month").from = FirstOf(todayISO, DaysPerMonth)
        /\ getPeriodRange("last-3-months").from
               = FirstOf(todayISO, DaysPerMonth) - 2 * DaysPerMonth
        /\ getPeriodRange("this-year").from % DaysPerYear = 0

\* The ledger hides no row without saying that it filters.
NothingHiddenSilently ==
    ~isFiltering => filteredTransactions = DOMAIN ui.transactions
=============================================================================
