---------------------------- MODULE ManageForms ----------------------------
(***************************************************************************)
(* The actions of the Manage tab that add something to the server: a goal, *)
(* a contribution to one (components/GoalsManager.jsx), an import from a   *)
(* file; and an export (components/Manage.jsx), with the handlers of       *)
(* App.jsx and the requests of api.js.  Their state goes when the tab is   *)
(* left, their requests do not.                                            *)
(***************************************************************************)
EXTENDS Integers, FiniteSets

CONSTANTS
    Values,        \* what can be entered: amounts, or the good rows of a file
    MaxClicks,     \* bound: requests sent
    MaxFailures    \* bound: requests the network or a write fails

VARIABLE ui

Forms == {"goal", "contribute", "import", "export"}
Empty == 0    \* nothing typed, which the forms treat as a zero
\* `added` is what the answer says that the server has added.
Request == [n : 1..MaxClicks, value : Values,
            answer : {"none", "ok", "refused", "401"}, added : Int]

Init ==
    \E form \in Forms :
        ui = [form |-> form, tab |-> TRUE, locked |-> FALSE, field |-> Empty,
              menu |-> FALSE, saving |-> FALSE, error |-> FALSE,
              requests |-> {}, server |-> 0, clicks |-> 0, failures |-> 0,
              \* what an observer knows: what success was told of, and whether the tab
              \* was left with a request under way
              told |-> 0, left |-> FALSE]

TypeOK ==
    /\ ui.form \in Forms /\ ui.field \in Values
    /\ ui.requests \subseteq Request
    /\ ui.server \in Nat /\ ui.clicks \in 0..MaxClicks

-----------------------------------------------------------------------------
(* The form                                                                 *)

Shown == ui.tab /\ ~ui.locked

\* Amounts are typed, also while the last one is being saved.
Type(v) == Shown /\ ui.form \in {"goal", "contribute"} /\ ui' = [ui EXCEPT !.field = v]

\* The export menu: its button, a click elsewhere, Escape.
Menu(open) ==
    /\ Shown /\ ui.form = "export" /\ (open => ~ui.saving)
    /\ ui' = [ui EXCEPT !.menu = open]

Takes(v) ==
    CASE ui.form = "goal"       -> v > 0
      [] ui.form = "contribute" -> v # Empty
      [] OTHER                  -> v >= 0

Input == CASE ui.form \in {"goal", "contribute"} -> {ui.field}
           [] ui.form = "import"                 -> Values
           [] ui.form = "export"                 -> {0}

Send(v) ==
    [ui EXCEPT !.saving = TRUE, !.error = FALSE, !.menu = FALSE, !.clicks = @ + 1,
               !.requests = @ \cup {[n |-> ui.clicks + 1, value |-> v, answer |-> "none",
                                     added |-> 0]}]

\* Mutant: the button is not disabled.
SubmitAgain ==
    /\ Shown /\ ui.clicks < MaxClicks /\ (ui.form = "export" => ui.menu)
    /\ \E v \in Input : IF Takes(v) THEN ui' = Send(v) ELSE ui' = [ui EXCEPT !.error = TRUE]

\* handleSubmit, handleContribute, handleFileChosen, handleExport, up to their await.
\* A file dialog offers files only, so that an import always takes one.
Submit ==
    /\ Shown /\ ~ui.saving /\ ui.clicks < MaxClicks
    /\ ui.form = "export" => ui.menu
    /\ \E v \in Input :
          /\ ui.form = "import" => Takes(v)
          /\ IF Takes(v) THEN ui' = Send(v) ELSE ui' = [ui EXCEPT !.error = TRUE]

\* Another tab, and back: the forms are mounted afresh.
Leave ==
    /\ Shown
    /\ ui' = [ui EXCEPT !.tab = FALSE, !.field = Empty, !.menu = FALSE, !.saving = FALSE,
                        !.error = FALSE, !.left = (@ \/ ui.requests # {})]
Return == ~ui.tab /\ ui' = [ui EXCEPT !.tab = TRUE]

-----------------------------------------------------------------------------
(* The server                                                               *)

Answered(q, answer, added) ==
    (ui.requests \ {q}) \cup {[q EXCEPT !.answer = answer, !.added = added]}

\* A contribution below nothing is refused.
Serve(q) ==
    LET adds == CASE ui.form = "goal" -> 1 [] ui.form = "export" -> 0 [] OTHER -> q.value
    IN  /\ q.answer = "none"
        /\ ui' = IF ui.server + adds < 0
                 THEN [ui EXCEPT !.requests = Answered(q, "refused", 0)]
                 ELSE [ui EXCEPT !.requests = Answered(q, "ok", adds), !.server = @ + adds]

\* A row of an import whose write fails is in memory, and reported as skipped.
ServeUnwritten(q) ==
    /\ ui.form = "import" /\ q.answer = "none" /\ ui.failures < MaxFailures
    /\ ui' = [ui EXCEPT !.requests = Answered(q, "ok", 0), !.server = @ + q.value,
                        !.failures = @ + 1]

\* The session has ended.
ServeLoggedOut(q) ==
    /\ q.answer = "none" /\ ui.failures < MaxFailures
    /\ ui' = [ui EXCEPT !.requests = Answered(q, "401", 0), !.failures = @ + 1]

-----------------------------------------------------------------------------
(* Answers                                                                  *)

\* What is left of the handler when its form has been left: the toast, no state.
Handler(q) == ui.saving /\ q.n = ui.clicks

\* Mutant: whatever the answer is, it is taken for a success.
DoneAlways(q) ==
    /\ q.answer # "none"
    /\ ui' = [ui EXCEPT !.requests = @ \ {q}, !.told = @ + q.value,
                        !.saving = (@ /\ ~Handler(q)),
                        !.field = IF Handler(q) THEN Empty ELSE @]

\* The toast counts what was added, the field is cleared, whatever it holds by now.
Done(q) ==
    /\ q.answer = "ok"
    /\ ui' = [ui EXCEPT !.requests = @ \ {q}, !.told = @ + q.added,
                        !.saving = (@ /\ ~Handler(q)),
                        !.field = IF Handler(q) THEN Empty ELSE @]

\* The catch and the finally: a toast, and an inline error if the form is there.
Failed(q, s) ==
    [s EXCEPT !.requests = @ \ {q}, !.error = (@ \/ Handler(q)),
              !.saving = (@ /\ ~Handler(q))]

\* A refusal; a 401 locks the page first, which takes the tab away.
Refused(q) ==
    /\ q.answer \in {"refused", "401"}
    /\ ui' = Failed(q, IF q.answer = "401" THEN [ui EXCEPT !.locked = TRUE] ELSE ui)

\* The request, or its answer, is lost.
Lost(q) ==
    /\ ui.failures < MaxFailures
    /\ ui' = Failed(q, [ui EXCEPT !.failures = @ + 1])

Next ==
    \/ Submit \/ Leave \/ Return
    \/ \E v \in Values : Type(v)
    \/ \E open \in BOOLEAN : Menu(open)
    \/ \E q \in ui.requests : \/ Serve(q) \/ ServeUnwritten(q) \/ ServeLoggedOut(q)
                              \/ Done(q) \/ Refused(q) \/ Lost(q)

Network == \E q \in ui.requests : Serve(q) \/ Done(q) \/ Refused(q)

-----------------------------------------------------------------------------
(* What makes it correct                                                    *)

\* With nothing under way, what the person was told of is what the server has: nothing
\* was added silently or in spite of an error, unless an answer was lost or a row of an
\* import could not be written.
ToldIsDone == ui.requests = {} /\ ui.failures = 0 => ui.told = ui.server

\* A form has one request under way, unless its tab was left meanwhile.
OneAtATime == ui.left \/ Cardinality(ui.requests) <= 1
=============================================================================
