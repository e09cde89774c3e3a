---------------------------- MODULE BudgetHistory ----------------------------
(***************************************************************************)
(* The effective-dated limit of a budget (recordLimitChange and            *)
(* limitAtMonth, src/backend/handlers_budgets.go) under the handlers that  *)
(* create, edit and delete the budget while months go by.                  *)
(*                                                                         *)
(* A month is a number, and 0 is the blank "since the beginning" month,    *)
(* which compares before every other.  Requests on one budget come one at  *)
(* a time here.  The rest of a budget (category, icon) does not matter.    *)
(***************************************************************************)
EXTENDS Integers, Sequences

CONSTANTS
    Limits,     \* the positive amounts a client may set
    Nil,
    MaxMonth    \* bound: the last month

Months == 1 .. MaxMonth
Beginning == 0
Change == [month : Months \cup {Beginning}, limit : Limits]
Budget == [monthlyLimit : Limits, history : Seq(Change)]

ASSUME BudgetAssumption == MaxMonth \in Nat \ {0} /\ Nil \notin Budget

VARIABLES
    month,      \* the current month
    budget,     \* the stored budget, or Nil
    since,      \* observer: the first month the budget's limit is known for
    inEffect    \* observer: the limit that was last in effect in each month

vars == <<month, budget, since, inEffect>>

TypeOK ==
    /\ month \in Months
    /\ budget \in Budget \cup {Nil}
    /\ since \in Months
    /\ inEffect \in [Months -> Limits]

\* Nothing, or a budget stored before histories were introduced.
Init ==
    /\ month = 1 /\ since = 1
    /\ inEffect \in {[m \in Months |-> l] : l \in Limits}
    /\ budget \in {Nil, [monthlyLimit |-> inEffect[1], history |-> <<>>]}

-----------------------------------------------------------------------------
\* Mutant: no baseline for a budget that has no history yet.
recordWithoutBaseline(history, oldLimit, newLimit) ==
    IF newLimit = oldLimit THEN history
    ELSE IF history # <<>> /\ history[Len(history)].month = month
      THEN [history EXCEPT ![Len(history)].limit = newLimit]
    ELSE Append(history, [month |-> month, limit |-> newLimit])

\* The history a budget carries after its limit changes.
recordLimitChange(history, oldLimit, newLimit) ==
    LET full == IF history = <<>> THEN <<[month |-> Beginning, limit |-> oldLimit]>>
                                  ELSE history
        last == Len(full)
    IN  IF newLimit = oldLimit THEN history
        ELSE IF full[last].month = month THEN [full EXCEPT ![last].limit = newLimit]
        ELSE Append(full, [month |-> month, limit |-> newLimit])

\* How many leading entries the loop of limitAtMonth takes before it breaks.
Takes(history, m, k) ==
    /\ k \in 0 .. Len(history)
    /\ \A i \in 1 .. k : history[i].month <= m
    /\ k < Len(history) => history[k + 1].month > m

limitAtMonth(b, m) ==
    LET k == CHOOSE n \in 0 .. Len(b.history) : Takes(b.history, m, n)
    IN  IF k = 0 THEN b.monthlyLimit ELSE b.history[k].limit

-----------------------------------------------------------------------------
\* POST: the limit is true since this month.
CreateBudget(limit) ==
    /\ budget = Nil
    /\ budget' = [monthlyLimit |-> limit,
                  history |-> <<[month |-> month, limit |-> limit]>>]
    /\ since' = month
    /\ inEffect' = [inEffect EXCEPT ![month] = limit]
    /\ UNCHANGED month

\* PUT: whatever history the body carries, it is derived from the stored one.
EditBudget(limit) ==
    /\ budget # Nil
    /\ budget' = [monthlyLimit |-> limit,
                  history |-> recordLimitChange(budget.history,
                                                budget.monthlyLimit, limit)]
    /\ inEffect' = [inEffect EXCEPT ![month] = limit]
    /\ UNCHANGED <<month, since>>

DeleteBudget ==
    /\ budget # Nil
    /\ budget' = Nil
    /\ UNCHANGED <<month, since, inEffect>>

\* The limit stays in effect in the new month until it is edited.
NextMonth ==
    /\ month < MaxMonth
    /\ month' = month + 1
    /\ inEffect' = IF budget = Nil THEN inEffect
                   ELSE [inEffect EXCEPT ![month + 1] = budget.monthlyLimit]
    /\ UNCHANGED <<budget, since>>

Next ==
    \/ \E limit \in Limits : CreateBudget(limit) \/ EditBudget(limit)
    \/ DeleteBudget
    \/ NextMonth

Spec == Init /\ [][Next]_vars

-----------------------------------------------------------------------------
(* What makes it correct                                                   *)

\* Every month since the budget exists, the current one included, is compared
\* against the limit that was last in effect in it, whatever edits followed in
\* this month or in later ones.
PastMonthsKeepTheirLimit ==
    budget # Nil => \A m \in since .. month : limitAtMonth(budget, m) = inEffect[m]

\* The history is what the loop of limitAtMonth, which stops at the first later
\* month, relies on: sorted, one entry a month, none in the future, and ending
\* with the limit in force.
HistoryIsSorted ==
    budget # Nil =>
        LET h == budget.history IN
        /\ \A i, j \in 1 .. Len(h) : i < j => h[i].month < h[j].month
        /\ \A i \in 1 .. Len(h) : h[i].month <= month
        /\ h # <<>> => h[Len(h)].limit = budget.monthlyLimit

\* An edit rewrites the current month only: what the other months were compared
\* against stays the same (the creation month is the first that is known).
EditsKeepThePast ==
    [][budget # Nil /\ budget' # Nil =>
          \A m \in since .. month - 1 :
              limitAtMonth(budget', m) = limitAtMonth(budget, m)]_vars
=============================================================================
