---------------------------- MODULE CategoryForms ----------------------------
(***************************************************************************)
(* The forms that ask for a category: a new entry (TransactionForm.jsx), a *)
(* budget (BudgetManager.jsx), a recurring entry (RecurringManager.jsx)    *)
(* and an entry being edited (EditTransactionRow.jsx), while categories    *)
(* are added and removed (CategoryManager.jsx) and lists are loaded.       *)
(*                                                                         *)
(* A form keeps a category in its state, and its select shows it if it is  *)
(* among the options, else the first option; choosing what is shown        *)
(* already changes nothing.                                                *)
(***************************************************************************)
EXTENDS Naturals, Sequences, SequencesExt, Functions

CONSTANTS
    Expense, Income,   \* the names categories may have
    NoCategory,
    MaxEdits           \* bound: categories added or removed, forms submitted

VARIABLE ui

Types == {"expense", "income"}
Names == Expense \cup Income
Forms == {"entry", "budget", "recurring", "row"}
\* Lists name no category twice.
Lists(names) == {s \in SeqOf(names, Cardinality(names)) : IsInjective(s)}

First(list) == IF list = <<>> THEN NoCategory ELSE list[1]

\* The form is mounted: the entry form before the first answer too, the others once
\* there is one.  `loaded` is what the server has.
Mounted(form, loaded, lists, type, category) ==
    [form |-> form, loaded |-> loaded, lists |-> lists, type |-> type, category |-> category,
     budgeted |-> {}, saving |-> FALSE, edits |-> 0,
     \* what an observer knows: the submission under way, what its select showed and
     \* whether that had been chosen, what was asked for without need, whether the user
     \* has chosen since the last one ended, whether a category has been removed
     sent |-> NoCategory, shown |-> NoCategory, sentChosen |-> FALSE, asked |-> FALSE,
     chosen |-> FALSE, removed |-> FALSE]

Init ==
    \E expense \in Lists(Expense), income \in Lists(Income) :
        LET loaded == [expense |-> expense, income |-> income]
            none == [expense |-> <<>>, income |-> <<>>]
        IN  \/ \E lists \in {none, loaded} :
                  ui = Mounted("entry", loaded, lists, "expense", First(lists.expense))
            \/ ui = Mounted("budget", loaded, loaded, "expense", First(expense))
            \/ ui = Mounted("recurring", loaded, loaded, "expense", NoCategory)
            \/ \E type \in Types :
                  \E c \in IF type = "expense" THEN Expense ELSE Income :
                     ui = Mounted("row", loaded, loaded, type, c)

TypeOK ==
    /\ ui.form \in Forms /\ ui.type \in Types
    /\ ui.category \in Names \cup {NoCategory}
    /\ \A t \in Types : /\ ui.lists[t] \in Seq(Names) /\ IsInjective(ui.lists[t])
                        /\ ui.loaded[t] \in Seq(Names) /\ IsInjective(ui.loaded[t])
    /\ ui.budgeted \subseteq Names
    /\ (ui.form = "budget" => ui.type = "expense")

\* Mutant: budgets do not matter.
OptionsAll(u) == ToSet(u.lists[u.type])

\* activeCategories, availableCategories, options.
Options(u) == {c \in ToSet(u.lists[u.type]) : u.form = "budget" => c \notin u.budgeted}

FirstOption ==
    LET list == ui.lists[ui.type]
        at == {i \in DOMAIN list : list[i] \in Options(ui)}
    IN  IF at = {} THEN NoCategory ELSE list[CHOOSE i \in at : \A j \in at : i <= j]

\* What the select shows.
Shown == IF ui.category \in Options(ui) THEN ui.category ELSE FirstOption

\* A refresh has ended.
Arrive ==
    /\ ui.lists # ui.loaded
    /\ ui' = [ui EXCEPT !.lists = ui.loaded]

\* CategoryManager's form and its chips; the list is loaded again afterwards.
AddCategory(type, c) ==
    /\ ui.edits < MaxEdits /\ c \notin ToSet(ui.loaded[type])
    /\ c \in IF type = "expense" THEN Expense ELSE Income
    /\ ui' = [ui EXCEPT !.loaded[type] = Append(@, c), !.edits = @ + 1]

RemoveCategory(type, i) ==
    /\ ui.edits < MaxEdits
    /\ ui' = [ui EXCEPT !.loaded[type] = RemoveAt(@, i),
                        !.edits = @ + 1, !.removed = TRUE]

\* The select's onChange.
Choose(c) ==
    /\ c \in Options(ui) \ {Shown}
    /\ ui' = [ui EXCEPT !.category = c, !.chosen = TRUE]

\* The two buttons: handleTypeChange, RecurringManager's and EditTransactionRow's.
ToggleType(type) ==
    LET first == First(ui.lists[type]) IN
    /\ ui.form # "budget"
    /\ ui' = [ui EXCEPT !.type = type,
                        !.category = CASE ui.form = "entry"     -> first
                                       [] ui.form = "recurring" -> NoCategory
                                       [] ui.form = "row"       ->
                                            IF first = NoCategory THEN @ ELSE first]

\* Mutant: the first option does not stand in for a category not chosen.
WantedInState == ui.category

\* The category that handleSubmit goes on with.
Wanted ==
    IF ui.form = "recurring" /\ ui.category = NoCategory THEN FirstOption ELSE ui.category

\* handleSubmit, with an amount above zero, up to its await; without a category the
\* form asks for one.  A budget's form is only there while it has options.
Submit ==
    /\ ~ui.saving /\ ui.edits < MaxEdits
    /\ ui.form = "budget" => Options(ui) # {}
    /\ ui' = IF Wanted = NoCategory
             THEN [ui EXCEPT !.asked = (Options(ui) # {}), !.edits = @ + 1]
             ELSE [ui EXCEPT !.saving = TRUE, !.edits = @ + 1, !.sent = Wanted, !.shown = Shown,
                             !.sentChosen = ui.chosen]

\* The rest: the amount is cleared, the category stays.  Budgets are loaded again.
Submitted(done) ==
    /\ ui.saving
    /\ ui' = [ui EXCEPT !.saving = FALSE, !.sent = NoCategory, !.shown = NoCategory,
                        !.chosen = FALSE,
                        !.budgeted = IF done /\ ui.form = "budget" THEN @ \cup {ui.sent}
                                     ELSE @]

Next ==
    \/ Arrive \/ Submit
    \/ \E done \in BOOLEAN : Submitted(done)
    \/ \E c \in Names : Choose(c)
    \/ \E type \in Types : \/ ToggleType(type)
                           \/ \E c \in Names : AddCategory(type, c)
                           \/ \E i \in DOMAIN ui.loaded[type] : RemoveCategory(type, i)

-----------------------------------------------------------------------------
(* What makes it correct                                                    *)

\* A recurring entry gets the category its form shows, whatever arrived, was chosen
\* or toggled before, unless a category has been removed meanwhile.
RecurringSendsWhatItShows ==
    ui.form = "recurring" /\ ~ui.removed => ui.sent = ui.shown /\ ~ui.asked

\* A category gets a second budget only through a select that was left as it was: the
\* form then still holds a category that its select does not offer any more.
BudgetsAreDistinct == ui.saving /\ ui.sentChosen => ui.sent \notin ui.budgeted

\* The entry form asks for a category to be added only when there is none to choose.
AsksOnlyWhenNone == ui.form = "entry" => ~ui.asked
=============================================================================
