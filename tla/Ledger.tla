------------------------------- MODULE Ledger -------------------------------
(***************************************************************************)
(* The page's copy of the ledger: src/frontend/src/App.jsx with the calls  *)
(* it makes through api.js and the toasts that offer Undo.                 *)
(*                                                                         *)
(* A refresh is several GETs, applied together when the last is answered,  *)
(* in the order refreshes end.  What the server has may change between any *)
(* of these; the list stands for all the answers.                          *)
(* A deletion hides its row, waits for the Undo window, and only then      *)
(* sends its DELETE.  The page stays mounted while it is locked: lists,    *)
(* timers and refreshes of one user live on under the next.                *)
(*                                                                         *)
(* A transaction is its id and whether it has been edited; `Owner` says    *)
(* whose it is.  The sign-in itself is the module Session.                 *)
(***************************************************************************)
EXTENDS Naturals, FiniteSets

CONSTANTS
    Ids,            \* transactions
    Users, None,    \* accounts; nobody
    Owner,          \* who has, or will create, each transaction
    Clicks,         \* bound: transactions created, edited or deleted
    MaxFailures,    \* bound: requests the network fails
    MaxSignIns      \* bound: sign-ins after the page has been locked

ASSUME LedgerAssumption ==
    /\ None \notin Users /\ Owner \in [Ids -> Users]
    /\ Clicks \in Nat /\ MaxFailures \in Nat /\ MaxSignIns \in Nat

VARIABLES
    stored,       \* the server's transactions
    user,         \* whose token the page holds
    \* App.jsx
    shown,        \* transactions
    loading, submitting,
    hidden,       \* pendingDeleteIds
    timerOf,      \* pendingDeleteTimers: the number of a deletion's timer, or 0
    \* the browser
    armed,        \* timers that have not fired
    \* under way
    changes, refreshes,
    clicks, failures, signIns,
    \* what an observer knows
    undone,       \* undone in time and not deleted again
    sent          \* a DELETE of it has been sent

page == <<shown, loading>>
undo == <<hidden, timerOf, armed, undone>>
bounds == <<clicks, failures, signIns>>
vars == <<stored, user, page, submitting, undo, changes, refreshes, bounds, sent>>

Versions == {"none", "old", "new"}
List == [Ids -> Versions]
Unread == [i \in Ids |-> "unread"]

\* What GET /transactions answers to the user u.
Listing(u) == [i \in Ids |-> IF Owner[i] = u THEN stored[i] ELSE "none"]

Timer == [id : Ids, n : 1..Clicks]
Operation == {"create", "edit", "delete"}
Sending == [op : Operation, id : Ids, by : Users \cup {None},
            answer : {"none", "ok", "refused", "401"}]
\* `after` is the change whose handler waits for the refresh.
Refresh == [by : Users \cup {None}, silent : BOOLEAN,
            after : {<<>>} \cup (Operation \X Ids),
            list : List \cup {Unread}]

TypeOK ==
    /\ stored \in List /\ user \in Users \cup {None}
    /\ shown \in List
    /\ loading \in BOOLEAN /\ submitting \in BOOLEAN
    /\ hidden \subseteq Ids /\ timerOf \in [Ids -> 0..Clicks]
    /\ armed \subseteq Timer
    /\ changes \subseteq Sending /\ refreshes \subseteq Refresh
    /\ clicks \in 0..Clicks /\ failures \in 0..MaxFailures /\ signIns \in 0..MaxSignIns
    /\ undone \subseteq Ids /\ sent \subseteq Ids

Blank == [i \in Ids |-> "none"]
Started(u, silent, after) ==
    [by |-> u, silent |-> silent, after |-> after, list |-> Unread]

\* The page has just been unlocked: its first refresh is under way.
Init ==
    /\ stored \in [Ids -> {"none", "old"}] /\ user \in Users
    /\ shown = Blank
    /\ loading = TRUE /\ submitting = FALSE
    /\ hidden = {} /\ timerOf = [i \in Ids |-> 0]
    /\ armed = {}
    /\ changes = {} /\ refreshes = {Started(user, FALSE, <<>>)}
    /\ clicks = 0 /\ failures = 0 /\ signIns = 0
    /\ undone = {} /\ sent = {}

-----------------------------------------------------------------------------
(* The session                                                              *)

Lock ==
    /\ user # None /\ user' = None
    /\ UNCHANGED <<stored, page, submitting, undo, changes, refreshes, bounds, sent>>

\* The effect that refreshes when the page is unlocked.
SignIn(u) ==
    /\ user = None /\ signIns < MaxSignIns
    /\ user' = u /\ signIns' = signIns + 1
    /\ refreshes' = refreshes \cup {Started(u, FALSE, <<>>)}
    /\ UNCHANGED <<stored, page, submitting, undo, changes, clicks, failures, sent>>

\* The silent refresh every three minutes.  Bound: one at a time.
Poll ==
    /\ user # None /\ \A r \in refreshes : ~r.silent
    /\ refreshes' = refreshes \cup {Started(user, TRUE, <<>>)}
    /\ UNCHANGED <<stored, user, page, submitting, undo, changes, bounds, sent>>

-----------------------------------------------------------------------------
(* Changes                                                                  *)

Click == clicks < Clicks /\ clicks' = clicks + 1

Send(op, i) ==
    changes' = changes \cup {[op |-> op, id |-> i, by |-> user, answer |-> "none"]}

UnderWay(i) ==
    \/ \E c \in changes : c.id = i
    \/ \E r \in refreshes : r.after # <<>> /\ r.after[2] = i

Visible(i) == user # None /\ ~loading /\ shown[i] # "none" /\ i \notin hidden

\* handleCreate, up to its await; the form is disabled while submitting.
Create(i) ==
    /\ Click /\ user = Owner[i] /\ ~submitting
    /\ stored[i] = "none" /\ i \notin sent /\ shown[i] = "none" /\ ~UnderWay(i)
    /\ submitting' = TRUE /\ Send("create", i)
    /\ UNCHANGED <<stored, user, page, undo, refreshes, failures, signIns, sent>>

\* handleUpdate and handlePatchAmount, from a row's editor, which waits.
Edit(i) ==
    /\ Click /\ Visible(i) /\ shown[i] = "old" /\ ~UnderWay(i)
    /\ Send("edit", i)
    /\ UNCHANGED <<stored, user, page, submitting, undo, refreshes, failures, signIns, sent>>

\* handleDelete.
Delete(i) ==
    /\ Click /\ Visible(i)
    /\ hidden' = hidden \cup {i}
    /\ timerOf' = [timerOf EXCEPT ![i] = clicks']
    /\ armed' = armed \cup {[id |-> i, n |-> clicks']}
    /\ undone' = undone \ {i}
    /\ UNCHANGED <<stored, user, page, submitting, changes, refreshes, failures, signIns, sent>>

\* The toast is there while the timer runs, and fades out just after it has fired.
Undoable(i) ==
    /\ user # None /\ i \in hidden
    /\ (\E t \in armed : t.id = i) \/ (\E c \in changes : c.op = "delete" /\ c.id = i)

\* Mutant: the timer is forgotten, not cleared.
UndoForgets(i) ==
    /\ Undoable(i)
    /\ hidden' = hidden \ {i}
    /\ undone' = IF timerOf[i] # 0 THEN undone \cup {i} ELSE undone
    /\ timerOf' = [timerOf EXCEPT ![i] = 0]
    /\ UNCHANGED <<stored, user, page, submitting, armed, changes, refreshes, bounds, sent>>

\* The toast's Undo clears the timer the map has now for the id, if it has one, and
\* shows the row again.
Undo(i) ==
    /\ Undoable(i)
    /\ hidden' = hidden \ {i}
    /\ armed' = armed \ {[id |-> i, n |-> timerOf[i]]}
    /\ undone' = IF timerOf[i] # 0 THEN undone \cup {i} ELSE undone
    /\ timerOf' = [timerOf EXCEPT ![i] = 0]
    /\ UNCHANGED <<stored, user, page, submitting, changes, refreshes, bounds, sent>>

\* The timer's callback, up to its await: the DELETE goes out with the token of now.
Fire(t) ==
    /\ t \in armed
    /\ armed' = armed \ {t}
    /\ timerOf' = [timerOf EXCEPT ![t.id] = 0]
    /\ Send("delete", t.id) /\ sent' = sent \cup {t.id}
    /\ UNCHANGED <<stored, user, page, submitting, hidden, undone, refreshes, bounds>>

-----------------------------------------------------------------------------
(* The server                                                               *)

After(op) == IF op = "create" THEN "old" ELSE IF op = "edit" THEN "new" ELSE "none"

\* A change of somebody else's transaction, or of none, is a 404.
ServeChange(c) ==
    LET takes == c.by = Owner[c.id] /\ (c.op = "create" \/ stored[c.id] # "none")
    IN  /\ c.answer = "none"
        /\ changes' = (changes \ {c}) \cup
               {[c EXCEPT !.answer = IF c.by = None THEN "401"
                                     ELSE IF takes THEN "ok" ELSE "refused"]}
        /\ stored' = IF takes THEN [stored EXCEPT ![c.id] = After(c.op)] ELSE stored
        /\ UNCHANGED <<user, page, submitting, undo, refreshes, bounds, sent>>

Read(r) ==
    /\ r.list = Unread
    /\ refreshes' = (refreshes \ {r}) \cup {[r EXCEPT !.list = Listing(r.by)]}
    /\ UNCHANGED <<stored, user, page, submitting, undo, changes, bounds, sent>>

-----------------------------------------------------------------------------
(* Answers                                                                  *)

\* Mutant: the row stays hidden when its DELETE fails.
SettleHidden(op, i) ==
    /\ submitting' = (op # "create" /\ submitting)
    /\ UNCHANGED hidden

\* Mutant: the form is enabled again in the way of success only.
SettleRows(op, i) ==
    /\ UNCHANGED submitting
    /\ hidden' = IF op = "delete" THEN hidden \ {i} ELSE hidden

\* The finally of the handler whose change is done: with or without an error.
Settle(op, i) ==
    /\ submitting' = (op # "create" /\ submitting)
    /\ hidden' = IF op = "delete" THEN hidden \ {i} ELSE hidden

Settled(after) ==
    IF after = <<>> THEN UNCHANGED <<submitting, hidden>> ELSE Settle(after[1], after[2])

Untouched == UNCHANGED <<timerOf, armed, undone, clicks, signIns, sent>>

\* The change was done: its handler goes on to refresh, and waits.
ChangeDone(c) ==
    /\ c.answer = "ok"
    /\ changes' = changes \ {c}
    /\ refreshes' = refreshes \cup {Started(user, FALSE, <<c.op, c.id>>)}
    /\ UNCHANGED <<stored, user, page, submitting, hidden, failures>> /\ Untouched

\* It was not, and a toast says so; a 401 has ended the session, whose it now is.
ChangeRefused(c) ==
    /\ c.answer \in {"refused", "401"}
    /\ changes' = changes \ {c}
    /\ user' = IF c.answer = "401" THEN None ELSE user
    /\ Settle(c.op, c.id)
    /\ UNCHANGED <<stored, page, refreshes, failures>> /\ Untouched

\* The request, or its answer, is lost: the same toast, whatever the server did.
ChangeLost(c) ==
    /\ failures < MaxFailures /\ failures' = failures + 1
    /\ changes' = changes \ {c}
    /\ Settle(c.op, c.id)
    /\ UNCHANGED <<stored, user, page, refreshes>> /\ Untouched

\* Mutant: a silent refresh updates a list that is empty only.
ApplyOnce(r) ==
    /\ r.by # None /\ r.list # Unread
    /\ refreshes' = refreshes \ {r}
    /\ shown' = IF r.silent /\ shown # Blank THEN shown ELSE r.list
    /\ loading' = (loading /\ r.silent)
    /\ Settled(r.after)
    /\ UNCHANGED <<stored, user, changes, failures>> /\ Untouched

\* Mutant: the clean-up of the timers runs with every render.
ApplyCleansUp(r) ==
    /\ r.by # None /\ r.list # Unread
    /\ refreshes' = refreshes \ {r}
    /\ shown' = r.list /\ armed' = {}
    /\ loading' = (loading /\ r.silent)
    /\ Settled(r.after)
    /\ UNCHANGED <<stored, user, changes, failures, timerOf, undone, clicks, signIns, sent>>

\* refresh, when all its answers are there.
Apply(r) ==
    /\ r.by # None /\ r.list # Unread
    /\ refreshes' = refreshes \ {r}
    /\ shown' = r.list
    /\ loading' = (loading /\ r.silent)
    /\ Settled(r.after)
    /\ UNCHANGED <<stored, user, changes, failures>> /\ Untouched

\* refresh catches its errors: one was lost, or it went out without a token.
RefreshFails(r) ==
    /\ \/ r.by = None /\ user' = None /\ UNCHANGED failures
       \/ failures < MaxFailures /\ failures' = failures + 1 /\ UNCHANGED user
    /\ refreshes' = refreshes \ {r}
    /\ loading' = (loading /\ r.silent)
    /\ Settled(r.after)
    /\ UNCHANGED <<stored, shown, changes>> /\ Untouched

Next ==
    \/ Lock \/ Poll \/ \E u \in Users : SignIn(u)
    \/ \E i \in Ids : Create(i) \/ Edit(i) \/ Delete(i) \/ Undo(i)
    \/ \E t \in armed : Fire(t)
    \/ \E c \in changes : ServeChange(c) \/ ChangeDone(c) \/ ChangeRefused(c) \/ ChangeLost(c)
    \/ \E r \in refreshes : Read(r) \/ Apply(r) \/ RefreshFails(r)

Spec == Init /\ [][Next]_vars

\* Timers fire, the poll goes on, and what was sent is answered or fails.
FairSpec ==
    /\ Spec
    /\ WF_vars(Poll)
    /\ WF_vars(\E t \in armed : Fire(t))
    /\ WF_vars(\E c \in changes : ServeChange(c))
    /\ WF_vars(\E c \in changes : ChangeDone(c) \/ ChangeRefused(c))
    /\ \A silent \in BOOLEAN :
          /\ WF_vars(\E r \in refreshes : r.silent = silent /\ Read(r))
          /\ WF_vars(\E r \in refreshes : r.silent = silent /\ Apply(r))
          /\ WF_vars(\E r \in refreshes : r.silent = silent /\ r.by = None /\ RefreshFails(r))

-----------------------------------------------------------------------------
(* What makes it correct                                                    *)

\* Undo, clicked while the deletion still waits, means that nothing is ever sent
\* (unless a deletion of the same row had been sent before, and failed).
UndoneIsNeverSent == [][\A i \in undone \ sent : i \notin sent']_vars

\* A row is hidden only as long as its deletion waits or is under way.
HiddenForAReason ==
    \A i \in hidden :
        \/ \E t \in armed : t.id = i
        \/ \E c \in changes : c.op = "delete" /\ c.id = i
        \/ \E r \in refreshes : r.after = <<"delete", i>>

\* A deletion that is not undone reaches the server, unless a request fails or its
\* owner locks the page within the window.
DeletionHappens ==
    \A i \in Ids :
        (user = Owner[i] /\ \E t \in armed : t.id = i)
            ~> (stored[i] = "none" \/ i \in undone \/ failures > 0 \/ user # Owner[i])

\* Whatever fails, and whoever signs out meanwhile: no row stays hidden, and the entry
\* form does not stay disabled.
ReleasedInTheEnd ==
    /\ \A i \in Ids : i \in hidden ~> i \notin hidden
    /\ submitting ~> ~submitting

\* Whatever the order in which refreshes were answered, and whoever was signed in
\* before: once nothing changes any more the page shows what the server has for
\* the user who is signed in.
FreshInTheEnd == <>[](user # None => shown = Listing(user))
=============================================================================
