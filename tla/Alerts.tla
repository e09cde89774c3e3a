------------------------------- MODULE Alerts -------------------------------
(***************************************************************************)
(* The alerts of src/frontend/src/App.jsx: what a refresh says about one   *)
(* budget and one recurring rule is compared with what the page has seen   *)
(* last.  Refreshes overlap: the poll, the first one, and the one at the   *)
(* end of every change made on the Manage tab.  Locking the page, and      *)
(* deletions with their Undo, are in the module Ledger.                    *)
(***************************************************************************)
EXTENDS Integers, FiniteSets

CONSTANTS
    MaxSpends,     \* bound: how often spending changes the budget's tier
    MaxDue,        \* bound: due dates the rule goes through
    MaxChanges,    \* bound: changes made on the page
    MaxFailures    \* bound: requests the network fails

\* The server's budget and rule, the page's maps, changes and refreshes under way.
VARIABLE ui

Tiers == {"ok", "warning", "over"}
NoBudget == "none"
\* Deleted; another one would have an id of its own.
GoneBudget == "gone"
GoneRule == MaxDue + 1
Dues == 1..MaxDue
\* What a refresh reads: the budget's tier and the rule's next_due, if they exist.
Data == [budget : Tiers \cup {NoBudget, GoneBudget}, due : 0..GoneRule]
Unread == [budget |-> "unread", due |-> 0]

Operation == {"createBudget", "updateBudget", "deleteBudget", "createRecurring",
              "deleteRecurring", "other"}
\* `n` counts those whose answers have come, `late` says that newer data was applied.
Refresh == [n : Nat, late : BOOLEAN, silent : BOOLEAN, data : Data \cup {Unread}]
Started(silent) == [n |-> 0, late |-> FALSE, silent |-> silent, data |-> Unread]

Init ==
    \E server \in [budget : {NoBudget, "ok", "over"}, due : {0, 1}] :
        ui = [server |-> server,
              budgetTiers |-> NoBudget, recurringDue |-> 0, hasSeen |-> FALSE,
              changes |-> {}, refreshes |-> {Started(FALSE)},
              spends |-> 0, made |-> 0, failures |-> 0,
              \* what an observer knows: the crossings and the entries that were not
              \* alerted to, and whether older data was applied after newer
              crossed |-> 0, ran |-> 0, reordered |-> FALSE]

TypeOK ==
    /\ ui.server \in Data
    /\ ui.budgetTiers \in Tiers \cup {NoBudget, GoneBudget}
    /\ ui.recurringDue \in 0..GoneRule
    /\ ui.hasSeen \in BOOLEAN /\ ui.reordered \in BOOLEAN
    /\ ui.changes \subseteq Operation
    /\ \A r \in ui.refreshes : r \in Refresh
    /\ ui.crossed \in Int /\ ui.ran \in Int

-----------------------------------------------------------------------------
(* The server                                                               *)

Crossing(tier) == IF tier = "over" /\ ui.server.budget # "over" THEN 1 ELSE 0

\* Transactions are added, edited or deleted, or a month ends.
Spend(tier) ==
    /\ ui.spends < MaxSpends /\ ui.server.budget \in Tiers \ {tier}
    /\ ui' = [ui EXCEPT !.server.budget = tier, !.spends = @ + 1,
                        !.crossed = @ + Crossing(tier)]

\* The ticker generates the rule's transaction.
RunRule ==
    /\ ui.server.due \in 1..MaxDue - 1
    /\ ui' = [ui EXCEPT !.server.due = @ + 1, !.ran = @ + 1]

\* The change that a handler asks for; the tier of a budget depends on its limit.
Done(op) ==
    CASE op \in {"createBudget", "updateBudget"} ->
             {[ui.server EXCEPT !.budget = tier] : tier \in Tiers}
      [] op = "deleteBudget"    -> {[ui.server EXCEPT !.budget = GoneBudget]}
      [] op = "createRecurring" -> {[ui.server EXCEPT !.due = d] : d \in Dues}
      [] op = "deleteRecurring" -> {[ui.server EXCEPT !.due = GoneRule]}
      [] op = "other"           -> {ui.server}

-----------------------------------------------------------------------------
(* The page                                                                 *)

Refreshed(silent) == [ui EXCEPT !.refreshes = @ \cup {Started(silent)}]

\* Polling.  Bound: one silent refresh at a time.
Poll ==
    /\ \A r \in ui.refreshes : ~r.silent
    /\ ui' = Refreshed(TRUE)

\* The handlers of the Manage tab, up to their await.  There is one budget and one
\* rule to make, and a row to click on once the page has shown them.
Maintain(op) ==
    /\ ui.made < MaxChanges /\ ui.changes = {} /\ ui.hasSeen
    /\ op = "createBudget" => ui.server.budget = NoBudget /\ ui.budgetTiers = NoBudget
    /\ op \in {"updateBudget", "deleteBudget"} =>
          ui.server.budget \in Tiers /\ ui.budgetTiers \in Tiers
    /\ op = "createRecurring" => ui.server.due = 0 /\ ui.recurringDue = 0
    /\ op = "deleteRecurring" => ui.server.due \in Dues /\ ui.recurringDue \in Dues
    /\ ui' = [ui EXCEPT !.changes = {op}, !.made = @ + 1]

\* Done, and the handler refreshes.
MaintainDone(op) ==
    \E after \in Done(op) :
        ui' = [Refreshed(FALSE) EXCEPT !.server = after, !.changes = {},
                                       !.crossed = @ + Crossing(after.budget)]

\* withFeedback says that it failed; if only the answer was lost, it was done.
MaintainLost(op) ==
    /\ ui.failures < MaxFailures
    /\ \E after \in Done(op) \cup {ui.server} :
          ui' = [ui EXCEPT !.server = after, !.changes = {}, !.failures = @ + 1,
                           !.crossed = @ + Crossing(after.budget)]

\* The server's answers to one refresh.
Read(r) ==
    /\ r.data = Unread
    /\ LET n == 1 + Cardinality({x \in ui.refreshes : x.n # 0}) IN
       ui' = [ui EXCEPT !.refreshes = (@ \ {r}) \cup {[r EXCEPT !.data = ui.server, !.n = n]}]

\* The others, when r is gone.
Without(r, applied) ==
    {[x EXCEPT !.late = @ \/ (applied /\ x.n \in 1..r.n),
               !.n = IF r.n # 0 /\ @ > r.n THEN @ - 1 ELSE @] : x \in ui.refreshes \ {r}}

\* Mutant: the tier is remembered when there is an alert only.
checkBudgetAlertsKept(tier) ==
    [seen |-> IF tier = "ok" THEN ui.budgetTiers ELSE tier,
     alerts |-> IF tier = "over" /\ ui.budgetTiers # "over" THEN 1 ELSE 0]

\* checkBudgetAlerts: what is remembered of the budget, and the "over" alerts.
checkBudgetAlerts(tier) ==
    [seen |-> tier,
     alerts |-> IF tier = "over" /\ ui.budgetTiers # "over" THEN 1 ELSE 0]

\* Mutant: a rule seen for the first time is announced.
checkRecurringFiresNew(due) ==
    [seen |-> due, alerts |-> IF due \in Dues \ {ui.recurringDue} THEN 1 ELSE 0]

\* checkRecurringFires.
checkRecurringFires(due) ==
    [seen |-> due,
     alerts |-> IF ui.recurringDue \in Dues /\ due \in Dues \ {ui.recurringDue} THEN 1 ELSE 0]

\* The first load fills the maps and says nothing.
SeenAtFirst(data) ==
    [ui EXCEPT !.hasSeen = TRUE, !.budgetTiers = data.budget, !.recurringDue = data.due]

Compared(data) ==
    LET budget == checkBudgetAlerts(data.budget)
        rule == checkRecurringFires(data.due)
    IN  [ui EXCEPT !.budgetTiers = budget.seen, !.crossed = @ - budget.alerts,
                   !.recurringDue = rule.seen, !.ran = @ - rule.alerts]

\* refresh, once it has every answer.
Apply(r) ==
    /\ r.data # Unread
    /\ ui' = [(IF ui.hasSeen THEN Compared(r.data) ELSE SeenAtFirst(r.data))
                 EXCEPT !.refreshes = Without(r, TRUE), !.reordered = @ \/ r.late]

\* refresh, when a request of it fails.
RefreshFails(r) ==
    /\ ui.failures < MaxFailures
    /\ ui' = [ui EXCEPT !.refreshes = Without(r, FALSE), !.failures = @ + 1]

Next ==
    \/ \E tier \in Tiers : Spend(tier)
    \/ RunRule \/ Poll
    \/ \E op \in Operation : Maintain(op)
    \/ \E op \in ui.changes : MaintainDone(op) \/ MaintainLost(op)
    \/ \E r \in ui.refreshes : Read(r) \/ Apply(r) \/ RefreshFails(r)

\* What the browser and the server do by themselves.
Answers == \/ \E op \in ui.changes : MaintainDone(op)
           \/ \E r \in ui.refreshes : Read(r) \/ Apply(r)

-----------------------------------------------------------------------------
(* What makes it correct                                                    *)

\* An "over" alert stands for a crossing that has happened since the page was opened,
\* and the announcement of an entry for one that was added: none is given twice, and
\* none for what the first load found, unless refreshes were applied out of order.
AlertsAreNews ==
    ~ui.reordered => ui.crossed >= 0 /\ ui.ran >= 0

\* The page knows of everything there is to alert about.
Aware == ui.budgetTiers = ui.server.budget /\ ui.recurringDue = ui.server.due
=============================================================================
