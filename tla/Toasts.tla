------------------------------- MODULE Toasts -------------------------------
(***************************************************************************)
(* Toasts and system notifications: src/frontend/src/useNotifications.js,  *)
(* with the buttons of ToastStack.jsx and NotificationBell.jsx.            *)
(* A toast leaves with its timer, its X or its action, whichever is first. *)
(* Timers run for different times, by the kind of the toast, so that they  *)
(* may fire in any order.                                                  *)
(***************************************************************************)
EXTENDS Naturals, FiniteSets

CONSTANT MaxToasts    \* bound: toasts notified

\* The hook's state, its timers, what the browser knows, and the toasts
\* that were pushed or whose action ran.
VARIABLE ui

Toast == [id : 1..MaxToasts, action : BOOLEAN, stayOpen : BOOLEAN]

Init ==
    \E permission \in {"unsupported", "default", "granted", "denied"} :
        ui = [toasts |-> {}, nextId |-> 1, timers |-> {}, permission |-> permission,
              browser |-> permission, hidden |-> FALSE, pushed |-> {},
              ran |-> {}]

TypeOK ==
    /\ ui.toasts \subseteq Toast /\ ui.nextId \in 1..MaxToasts + 1
    /\ ui.timers \subseteq 1..MaxToasts /\ ui.pushed \subseteq 1..MaxToasts
    /\ ui.permission \in {"unsupported", "default", "granted", "denied"}
    /\ ui.browser \in {"unsupported", "default", "granted", "denied"}
    /\ ui.hidden \in BOOLEAN
    /\ ui.ran \subseteq 1..MaxToasts

\* notify: the toast, its timer unless it stays open, and a push while the page is
\* hidden, by what the browser says then.
notify(action, stayOpen) ==
    LET id == ui.nextId IN
    /\ id <= MaxToasts
    /\ ui' = [ui EXCEPT !.nextId = id + 1,
                        !.toasts = @ \cup {[id |-> id, action |-> action, stayOpen |-> stayOpen]},
                        !.timers = IF stayOpen THEN @ ELSE @ \cup {id},
                        !.pushed = IF ui.hidden /\ ui.browser = "granted"
                                   THEN @ \cup {id} ELSE @]

\* Mutant: the timer is left to run.
DismissedOnly(id) ==
    [ui EXCEPT !.toasts = {t \in @ : t.id # id}]

\* dismiss, once its own timer has fired or before.
Dismissed(id) ==
    [ui EXCEPT !.toasts = {t \in @ : t.id # id}, !.timers = @ \ {id}]

Expire(id) == id \in ui.timers /\ ui' = Dismissed(id)

\* The X.
Close(t) == ui' = Dismissed(t.id)

\* The action's button: it runs, and the toast goes.
Act(t) == t.action /\ ui' = [Dismissed(t.id) EXCEPT !.ran = @ \cup {t.id}]

\* The bell is a button as long as the page knows of no decision.
requestPermission ==
    /\ ui.permission = "default"
    /\ \E answer \in {"default", "granted", "denied"} :
          /\ ui.browser # "default" => answer = ui.browser
          /\ ui' = [ui EXCEPT !.permission = answer, !.browser = answer]

\* In the browser: the tab is hidden or shown, and its settings change.
Visibility == ui' = [ui EXCEPT !.hidden = ~@]
Settings ==
    /\ ui.browser # "unsupported"
    /\ \E p \in {"granted", "denied"} : ui' = [ui EXCEPT !.browser = p]

Next ==
    \/ \E action, stayOpen \in BOOLEAN : notify(action, stayOpen)
    \/ \E id \in ui.timers : Expire(id)
    \/ \E t \in ui.toasts : Close(t) \/ Act(t)
    \/ requestPermission \/ Visibility \/ Settings

Timers == \E id \in ui.timers : Expire(id)

-----------------------------------------------------------------------------
(* What makes it correct                                                    *)

\* A toast that does not stay open is shown exactly as long as its timer runs, so
\* that an action such as Undo cannot be clicked after the time it was offered for,
\* nor a timer outlive its toast.
ShownWhileItsTimerRuns == ui.timers = {t.id : t \in {x \in ui.toasts : ~x.stayOpen}}

\* A toast that must leave the screen by itself.
Passing(id) == \E t \in ui.toasts : t.id = id /\ ~t.stayOpen
=============================================================================
