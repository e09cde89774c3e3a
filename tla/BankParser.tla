----------------------------- MODULE BankParser -----------------------------
(***************************************************************************)
(* src/frontend/src/scanImport/bankParsers.js: the walk over the lines of  *)
(* a screenshot that makes draft transactions of them.  A line is what the *)
(* regular expressions find in it; a date is a numbered day; a word of a   *)
(* title is one that a keyword hint knows, or none does.                   *)
(***************************************************************************)
EXTENDS Integers, Sequences, FiniteSetsExt

CONSTANTS
    Today,          \* the day on which the screenshot is read
    Screenshots     \* bound: lines of a screenshot

VARIABLE ui

DaysPerYear == 6
ThisYear == Today \div DaysPerYear
Missing == -1     \* no year, no date

\* A date on the screen: its day of the year, and its year where it says one.
Stamp(day, year) == [day |-> day, year |-> year]
Unresolved == Stamp(-1, Missing)      \* a bare weekday
NoDate == Stamp(-2, Missing)

\* Titles: the merchants, whose names a hint knows or not; a line of less than three
\* characters; the value of "Transaction type"; nothing.
Titles == {"", "uber", "bob", "ab", "airtime"}

\* noise: cashback or reward.
Line == [noise : BOOLEAN,
         date : {NoDate, Unresolved} \cup [day : 0..DaysPerYear - 1, year : {Missing, ThisYear - 1}],
         amount : {"", "plain", "-", "+"}, title : Titles, typeLine : BOOLEAN]

Text(title) == [noise |-> FALSE, date |-> NoDate, amount |-> "", title |-> title,
                typeLine |-> FALSE]
On(stamp) == [Text("") EXCEPT !.date = stamp]
Paid(title, sign) == [Text(title) EXCEPT !.amount = sign]

\* The lines that the applications' lists and receipts are made of.
Lines ==
    {Text(t) : t \in {"uber", "ab"}} \cup {[Text("airtime") EXCEPT !.typeLine = TRUE]}
    \cup {On(d) : d \in {Unresolved, Stamp(1, Missing), Stamp(5, Missing), Stamp(2, ThisYear - 1)}}
    \cup {Paid("", "plain")} \cup {Paid("bob", s) : s \in {"-", "+"}}
    \cup {[Paid("bob", "+") EXCEPT !.noise = TRUE],
          [Paid("uber", "-") EXCEPT !.date = Stamp(2, Missing)]}

-----------------------------------------------------------------------------
(* Dates                                                                    *)

\* Mutant: this year, whatever the day.
DateThisYear(stamp) ==
    IF stamp.day < 0 THEN Missing
    ELSE (IF stamp.year # Missing THEN stamp.year ELSE ThisYear) * DaysPerYear + stamp.day

\* Without a year on the screen: this one, unless that is over two days ahead.
parseDateHeader(stamp) ==
    LET date(year) == year * DaysPerYear + stamp.day IN
    IF stamp.day < 0 THEN Missing
    ELSE IF stamp.year # Missing THEN date(stamp.year)
    ELSE IF date(ThisYear) > Today + 2 THEN date(ThisYear - 1)
    ELSE date(ThisYear)

isHeaderLike(line) == line.date # NoDate

\* The last date on the screen, those of noise lines included.
findDocumentDate(lines) ==
    LET dated == {i \in DOMAIN lines : lines[i].date.day >= 0}
    IN  IF dated = {} THEN Missing ELSE parseDateHeader(lines[Max(dated)].date)

-----------------------------------------------------------------------------
(* Categories                                                               *)

CategoryNames == {"Data & Airtime", "Transport", "Other"}

\* KEYWORD_HINTS in their order; titles are a set: those that the text contains.
Hints == <<[title |-> "airtime", category |-> "Data & Airtime"],
           [title |-> "uber", category |-> "Transport"]>>

guessCategory(titles) ==
    LET hints == {i \in DOMAIN Hints : /\ Hints[i].title \in titles
                                      /\ Hints[i].category \in ui.categories}
    IN  IF hints # {} THEN Hints[Min(hints)].category
        ELSE IF "Other" \in ui.categories THEN "Other" ELSE ""

-----------------------------------------------------------------------------
(* parseTransactionLines                                                    *)

\* The variables of the walk.
Start == [drafts |-> <<>>, currentDate |-> Today, pendingTitle |-> ""]

Draft(date, title, amount) ==
    [date |-> date, description |-> title,
     type |-> IF amount = "+" THEN "income" ELSE "expense",
     category |-> guessCategory({title})]

\* A line with an amount.
Entry(walk, line) ==
    LET title == IF line.title # "" THEN line.title
                 ELSE IF walk.pendingTitle # "" THEN walk.pendingTitle ELSE "Transaction"
    IN  [walk EXCEPT !.pendingTitle = "",
                     !.drafts = Append(@, Draft(walk.currentDate, title, line.amount))]

\* The loop: noise, a date, a header without one, a title, an entry.
Walked(walk, line, noise, titleKept) ==
    IF noise THEN walk
    ELSE IF parseDateHeader(line.date) # Missing
    THEN [walk EXCEPT !.currentDate = parseDateHeader(line.date), !.pendingTitle = titleKept]
    ELSE IF isHeaderLike(line) THEN walk
    ELSE IF line.amount = ""
    THEN [walk EXCEPT !.pendingTitle = IF line.title # "ab" THEN line.title ELSE @]
    ELSE Entry(walk, line)

\* Mutant: reward lines are lines.
WalkNoise(walk, line) == Walked(walk, line, FALSE, "")
\* Mutant: a title is kept over a date.
WalkTitle(walk, line) == Walked(walk, line, line.noise, walk.pendingTitle)

Walk(walk, line) == Walked(walk, line, line.noise, "")

\* The value of the line that names the type of a receipt's transaction, or nothing.
typeLine(lines) ==
    LET types == {i \in DOMAIN lines : lines[i].typeLine}
    IN  IF types = {} THEN "" ELSE lines[Min(types)].title

\* Mutant: as if a receipt's type were all that is known of it.
ReceiptType(draft, lines) ==
    [draft EXCEPT !.category = IF typeLine(lines) = "" THEN @ ELSE guessCategory({typeLine(lines)})]

\* A receipt shows its date anywhere, and the type of its transaction.
Receipt(draft, lines) ==
    LET date == findDocumentDate(lines)
        improved == IF typeLine(lines) = "" THEN ""
                    ELSE guessCategory({draft.description, typeLine(lines)})
    IN  [draft EXCEPT !.date = IF @ = Today /\ date # Missing THEN date ELSE @,
                      !.category = IF improved # "" THEN improved ELSE @]

\* Mutant: lists are receipts.
ParseReceipts(lines, drafts) == [k \in DOMAIN drafts |-> Receipt(drafts[k], lines)]

\* What the walk over the lines returns: one entry is a receipt, several are a list.
parseTransactionLines(lines, drafts) ==
    IF Len(drafts) = 1 THEN <<Receipt(drafts[1], lines)>> ELSE drafts

Init == \E names \in {CategoryNames, {"Transport", "Other"}, {}} :
            ui = [lines |-> <<>>, categories |-> names, walk |-> Start]

\* The walk takes the next line: screenshots are all sequences of lines.
Read(line) ==
    /\ Len(ui.lines) < Screenshots
    /\ ui' = [ui EXCEPT !.lines = Append(@, line), !.walk = Walk(@, line)]

Next == \E line \in Lines : Read(line)

-----------------------------------------------------------------------------
(* What makes it correct                                                    *)

Drafts == parseTransactionLines(ui.lines, ui.walk.drafts)

TypeOK ==
    /\ ui.lines \in Seq(Line) /\ ui.categories \subseteq CategoryNames
    /\ ui.walk.drafts \in Seq([date : Int, description : Titles \cup {"Transaction"},
                               type : {"income", "expense"}, category : CategoryNames \cup {""}])
    /\ ui.walk.currentDate \in Int /\ ui.walk.pendingTitle \in Titles

\* Where the entries are, and the headers with a date.
IsEntry(i) == LET l == ui.lines[i] IN ~l.noise /\ l.date = NoDate /\ l.amount # ""
IsDate(i) == LET l == ui.lines[i] IN ~l.noise /\ l.date.day >= 0
Entries == {i \in DOMAIN ui.lines : IsEntry(i)}

\* The draft that was made of the entry on line i, among all drafts.
DraftOf(i, drafts) == drafts[Cardinality({j \in Entries : j <= i})]

\* Every entry of the screen, and nothing else, is a draft: a reward beside it is none.
EntriesAreDrafts == Len(Drafts) = Cardinality(Entries)

\* The date of the nearest header above line i, today's without one.
DateAbove(i) ==
    LET dates == {j \in DOMAIN ui.lines : j < i /\ IsDate(j)}
    IN  IF dates = {} THEN Today ELSE parseDateHeader(ui.lines[Max(dates)].date)

\* In a list, an entry has the date that stands above it.
DatesAreFromAbove ==
    Cardinality(Entries) > 1 => \A i \in Entries : DraftOf(i, Drafts).date = DateAbove(i)

\* The title stands on a line of its own above line i, and no entry or date since.
StandsAbove(title, i) ==
    \E j \in 1..i - 1 :
        /\ ~ui.lines[j].noise /\ ui.lines[j].title = title
        /\ \A k \in j..i - 1 : ~IsEntry(k) /\ ~IsDate(k)

\* A title on a line of its own only names the entry that comes next under the same date.
TitlesAreOfTheirEntry ==
    \A i \in Entries :
        LET title == DraftOf(i, Drafts).description
        IN  ui.lines[i].title = "" => title = "Transaction" \/ StandsAbove(title, i)

\* No draft is dated more than two days ahead, a guess of the year is never more than a
\* year behind.
Near(date) ==
    /\ date <= Today + 2
    /\ (\A i \in DOMAIN ui.lines : ui.lines[i].date.year = Missing) => date > Today - DaysPerYear
DatesAreGuessedNear == \A k \in DOMAIN Drafts : Near(Drafts[k].date)

\* A receipt's type only refines what its description tells: a draft does not go back to
\* "Other" on its account, and no category is one the person does not have.
TypesOnlyRefine ==
    \A k \in DOMAIN Drafts :
        /\ Drafts[k].category \in ui.categories \cup {""}
        /\ guessCategory({Drafts[k].description}) \notin {"Other", ""}
               => Drafts[k].category \notin {"Other", ""}
=============================================================================
