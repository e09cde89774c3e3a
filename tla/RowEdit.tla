------------------------------- MODULE RowEdit -------------------------------
(***************************************************************************)
(* Editing in a list: the amount of an entry (TransactionList.jsx), the    *)
(* limit of a budget (BudgetManager.jsx), and the whole entry              *)
(* (EditTransactionRow.jsx).  A list keeps one editor, one draft, one      *)
(* error and one row that is being saved, whatever the number of saves     *)
(* under way.  The inline editors save when they lose focus.               *)
(***************************************************************************)
EXTENDS Naturals, FiniteSets

CONSTANTS
    Rows, None,
    Amounts,       \* amounts that can be entered, all above zero
    MaxEdits,      \* bound: editors opened
    MaxFailures    \* bound: saves that fail

VARIABLE ui

Empty == 0         \* what the input has when it has no amount above zero
Save == [row : Rows, value : Amounts, typedIn : Rows]

Init ==
    \E form \in {"inline", "row"}, amount \in Amounts :
        ui = [form |-> form, amount |-> [r \in Rows |-> amount],
              editId |-> None, draft |-> Empty, error |-> FALSE, savingId |-> None,
              focused |-> FALSE, saves |-> {}, edits |-> 0, failures |-> 0,
              \* what an observer knows: whose editor the draft was typed in, rows
              \* saved while a save of theirs was under way, and whether two rows'
              \* saves have overlapped
              typedIn |-> None, doubled |-> {}, crossed |-> FALSE]

TypeOK ==
    /\ ui.form \in {"inline", "row"} /\ ui.amount \in [Rows -> Amounts]
    /\ ui.editId \in Rows \cup {None} /\ ui.savingId \in Rows \cup {None}
    /\ ui.draft \in Amounts \cup {Empty} /\ ui.saves \subseteq Save
    /\ ui.error \in BOOLEAN /\ ui.focused \in BOOLEAN
    /\ (ui.editId = None /\ ui.form = "inline" => ui.draft = Empty /\ ~ui.error)

\* Mutant: the draft is left as it is.
StartEditBlank(r) ==
    /\ ui.editId # r /\ ~ui.focused /\ ui.edits < MaxEdits
    /\ ui' = [ui EXCEPT !.edits = @ + 1, !.editId = r, !.error = FALSE, !.focused = TRUE]

\* startAmountEdit, startLimitEdit and the pencil of a row, which mounts a form with
\* the entry's values.  A click takes the focus from another editor first.
StartEdit(r) ==
    /\ ui.editId # r /\ ~ui.focused /\ ui.edits < MaxEdits
    /\ ui' = [ui EXCEPT !.edits = @ + 1, !.editId = r, !.draft = ui.amount[r],
                        !.typedIn = r, !.error = FALSE, !.focused = TRUE]

Disabled == ui.savingId = ui.editId

Type(v) ==
    /\ ui.editId # None /\ ui.focused /\ v # ui.draft
    /\ ui' = [ui EXCEPT !.draft = v, !.typedIn = ui.editId,
                        !.error = @ /\ ui.form = "row"]

Focus ==
    /\ ui.editId # None /\ ~ui.focused /\ ~Disabled
    /\ ui' = [ui EXCEPT !.focused = TRUE]

\* A form, unlike the inline editors, does nothing when it loses the focus.
LeaveRow ==
    /\ ui.form = "row" /\ ui.focused
    /\ ui' = [ui EXCEPT !.focused = FALSE]

Cancelled(s) == [s EXCEPT !.editId = None, !.draft = Empty, !.error = FALSE, !.focused = FALSE]

\* Escape, which only a focused input gets, or the form's Cancel.
Cancel ==
    /\ ui.editId # None /\ (ui.focused \/ ui.form = "row") /\ ~Disabled
    /\ ui' = Cancelled(ui)

Sent(r, s) ==
    [s EXCEPT !.savingId = r,
              !.saves = @ \cup {[row |-> r, value |-> ui.draft, typedIn |-> ui.typedIn]},
              !.crossed = @ \/ \E p \in ui.saves : p.row # r,
              !.doubled = IF \E p \in ui.saves : p.row = r THEN @ \cup {r} ELSE @]

\* Mutant: the blur of an input that is being disabled is not recognised.
CommitAgain(r) ==
    LET left == [ui EXCEPT !.focused = FALSE] IN
    /\ ui.form = "inline" /\ ui.editId = r /\ (ui.focused \/ ui.savingId = r)
    /\ ui' = CASE ui.draft = Empty        -> [left EXCEPT !.error = TRUE]
               [] ui.draft = ui.amount[r] -> Cancelled(ui)
               [] OTHER                   -> Sent(r, left)

\* commitAmountEdit and commitLimitEdit, from the blur to the await.  The input
\* that becomes disabled by it may blur once more.
Commit(r) ==
    LET left == [ui EXCEPT !.focused = FALSE] IN
    /\ ui.form = "inline" /\ ui.editId = r /\ (ui.focused \/ ui.savingId = r)
    /\ ui' = CASE ui.savingId = r         -> left
               [] ui.savingId # r /\ ui.draft = Empty -> [left EXCEPT !.error = TRUE]
               [] ui.savingId # r /\ ui.draft = ui.amount[r] -> Cancelled(ui)
               [] OTHER                   -> Sent(r, left)

\* EditTransactionRow's handleSave and the list's, up to the await.
SaveRow(r) ==
    /\ ui.form = "row" /\ ui.editId = r /\ ui.savingId # r
    /\ ui' = IF ui.draft = Empty THEN [ui EXCEPT !.error = TRUE]
             ELSE [Sent(r, ui) EXCEPT !.error = FALSE]

\* The finally of a save.
Ended(p, s) == [s EXCEPT !.savingId = None, !.saves = @ \ {p}]

\* A save is done, and the list has been loaded again: the editor is closed,
\* whichever row it is on by now.
Saved(p) ==
    ui' = Ended(p, Cancelled([ui EXCEPT !.amount[p.row] = p.value]))

\* It is not: the inline editor that is open shows the error, whosever it is; a
\* form shows its own.
SaveFails(p) ==
    /\ ui.failures < MaxFailures
    /\ ui' = Ended(p, [ui EXCEPT !.failures = @ + 1,
                                 !.error = (ui.editId # None /\
                                              (ui.form = "inline" \/ ui.editId = p.row))])

Next ==
    \/ \E r \in Rows : StartEdit(r) \/ Commit(r) \/ SaveRow(r)
    \/ \E v \in Amounts \cup {Empty} : Type(v)
    \/ Focus \/ LeaveRow \/ Cancel
    \/ \E p \in ui.saves : Saved(p) \/ SaveFails(p)

Answers == \E p \in ui.saves : Saved(p)

-----------------------------------------------------------------------------
(* What makes it correct                                                    *)

\* A row is only saved with what was typed, or shown, in its own editor.
OwnDraftIsSaved == \A p \in ui.saves : p.typedIn = p.row

\* A row is not saved again while a save of it is under way, however often its input
\* blurs, unless another row's save, or the end of it, has taken savingId meanwhile.
SavedOneAtATime == ~ui.crossed => ui.doubled = {}

\* The editor is disabled.
Saving == ui.savingId # None
=============================================================================
