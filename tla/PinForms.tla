------------------------------ MODULE PinForms ------------------------------
(***************************************************************************)
(* The two PIN sections of the Manage tab: the household's PIN             *)
(* (ChangePinSection.jsx) and guest access (GuestAccessSection.jsx).  Each *)
(* asks the server, when it is mounted, whether its PIN is set, and from   *)
(* then on goes by the answers to its own requests.                        *)
(* The green tick after a success, and the digits, are left out.           *)
(***************************************************************************)
EXTENDS Naturals, FiniteSets

CONSTANTS
    MaxSubmits,    \* bound: times a form is submitted
    MaxFailures    \* bound: requests the network fails

VARIABLE ui

Kinds == {"status", "change", "enable", "setGuest", "removeGuest"}
Request == [kind : Kinds, answer : {"none", "yes", "no", "ok", "refused", "wrong"}]
Sent(kind) == [kind |-> kind, answer |-> "none"]

\* `set` is the server's: whether the PIN, or the guests' PIN, is set.
Init ==
    \E form \in {"pin", "guest"}, set, owner \in BOOLEAN :
        /\ form = "guest" /\ set => owner
        /\ form = "pin" => owner = set
        /\ ui = [form |-> form, set |-> set, owner |-> owner, mounted |-> TRUE,
                 known |-> "unknown", saving |-> FALSE, removing |-> FALSE,
                 removeConfirmOpen |-> FALSE, requests |-> {Sent("status")},
                 submits |-> 0, failures |-> 0,
                 \* what an observer knows: two requests of the guests' section
                 \* were under way at once
                 overlapped |-> FALSE]

TypeOK ==
    /\ ui.form \in {"pin", "guest"} /\ ui.known \in {"unknown", "yes", "no"}
    /\ ui.requests \subseteq Request
    /\ ui.set \in BOOLEAN /\ ui.mounted \in BOOLEAN /\ ui.overlapped \in BOOLEAN
    /\ (ui.form = "guest" => \A q \in ui.requests : q.kind \notin {"change", "enable"})
    /\ ui.saving = (\E q \in ui.requests : q.kind \in {"change", "enable", "setGuest"})
    /\ ui.removing = (\E q \in ui.requests : q.kind = "removeGuest")

Send(kind, s) ==
    [s EXCEPT !.requests = @ \cup {Sent(kind)}, !.submits = @ + 1,
              !.overlapped = @ \/ (ui.form = "guest" /\ ui.requests # {})]

Click == ui.mounted /\ ui.submits < MaxSubmits

\* Mutant: the button is not disabled before the status is known.
SubmitUnknown ==
    /\ Click /\ ~ui.saving
    /\ ui' = Send(CASE ui.form = "guest"                      -> "setGuest"
                    [] ui.form = "pin" /\ ui.known = "yes"    -> "change"
                    [] ui.form = "pin" /\ ui.known # "yes"    -> "enable",
                  [ui EXCEPT !.saving = TRUE])

\* handleSubmit of either section, with digits that pass its checks, up to the await.
Submit ==
    /\ Click /\ ~ui.saving
    /\ ui.form = "pin" => ui.known # "unknown"
    /\ ui' = Send(CASE ui.form = "guest"                      -> "setGuest"
                    [] ui.form = "pin" /\ ui.known = "yes"    -> "change"
                    [] ui.form = "pin" /\ ui.known = "no"     -> "enable",
                  [ui EXCEPT !.saving = TRUE])

\* "Turn off guest access", and its Cancel, which works while the removal is under
\* way too.
Confirm(open) ==
    /\ ui.mounted /\ ui.form = "guest" /\ ui.known = "yes"
    /\ ui.removeConfirmOpen # open
    /\ ui' = [ui EXCEPT !.removeConfirmOpen = open]

\* handleRemove, up to the await.
Remove ==
    /\ Click /\ ui.form = "guest" /\ ui.known = "yes" /\ ui.removeConfirmOpen
    /\ ~ui.removing
    /\ ui' = Send("removeGuest", [ui EXCEPT !.removing = TRUE])

-----------------------------------------------------------------------------
(* The server: see the module AuthStore                                     *)

\* An answer, and whether the PIN is set afterwards.
Answer(answer, set) == [answer |-> answer, set |-> set]

Answers(q) ==
    CASE q.kind = "status"      -> {Answer(IF ui.set THEN "yes" ELSE "no", ui.set)}
      [] q.kind = "change"      -> IF ui.set THEN {Answer("ok", TRUE), Answer("wrong", TRUE)}
                                   ELSE {Answer("refused", FALSE)}
      [] q.kind = "enable"      -> {Answer(IF ui.set THEN "refused" ELSE "ok", TRUE)}
      [] q.kind = "setGuest"    -> IF ui.owner THEN {Answer("ok", TRUE), Answer("wrong", ui.set)}
                                   ELSE {Answer("refused", ui.set)}
      [] q.kind = "removeGuest" -> {Answer("wrong", ui.set),
                                    Answer(IF ui.set THEN "ok" ELSE "refused", FALSE)}

Serve(q) ==
    /\ q.answer = "none"
    /\ \E a \in Answers(q) :
          ui' = [ui EXCEPT !.requests = (@ \ {q}) \cup {[q EXCEPT !.answer = a.answer]},
                           !.set = a.set]

-----------------------------------------------------------------------------
(* Answers                                                                  *)

\* The finally of the handler that waited for q.
Finally(q) ==
    [ui EXCEPT !.requests = @ \ {q},
               !.saving = @ /\ q.kind \in {"status", "removeGuest"},
               !.removing = @ /\ q.kind # "removeGuest"]

\* Mutant: whether the PIN is set is not brought up to date.
DoneQuietly(q) == q.answer = "ok" /\ ui' = Finally(q)

\* The rest of handleSubmit and handleRemove.
Done(q) ==
    /\ q.answer = "ok"
    /\ ui' = [Finally(q) EXCEPT !.known = CASE q.kind = "removeGuest" -> "no"
                                            [] q.kind = "change"      -> @
                                            [] OTHER                  -> "yes",
                                !.removeConfirmOpen = @ /\ q.kind # "removeGuest"]

\* Their catch.  A 401 has put the page back to the lock screen as well.
Refused(q) ==
    /\ q.answer \in {"refused", "wrong"}
    /\ ui' = [Finally(q) EXCEPT !.mounted = @ /\ q.answer # "wrong"]

\* The effect's answer.
StatusKnown(q) ==
    /\ q.answer \in {"yes", "no"}
    /\ ui' = [ui EXCEPT !.requests = @ \ {q}, !.known = q.answer]

\* Mutant: a lost answer leaves the button as it is.
LostForGood(q) ==
    /\ ui.failures < MaxFailures
    /\ ui' = [ui EXCEPT !.requests = @ \ {q}, !.failures = @ + 1]

\* A request or its answer is lost; the household's section then takes the PIN to be
\* set, the guests' section that it is not.
Lost(q) ==
    /\ ui.failures < MaxFailures
    /\ ui' = [Finally(q) EXCEPT
                 !.failures = @ + 1,
                 !.known = IF q.kind # "status" THEN @
                           ELSE IF ui.form = "pin" THEN "yes" ELSE "no"]

Next ==
    \/ Submit \/ Remove \/ \E open \in BOOLEAN : Confirm(open)
    \/ \E q \in ui.requests : Serve(q) \/ Done(q) \/ Refused(q) \/ StatusKnown(q) \/ Lost(q)

Network == \E q \in ui.requests : Serve(q) \/ Done(q) \/ Refused(q) \/ StatusKnown(q)

-----------------------------------------------------------------------------
(* What makes it correct                                                    *)

\* With nothing under way a section knows whether its PIN is set, unless an answer was
\* lost or two requests of the guests' section have overlapped.
KnownIsServers ==
    ui.mounted /\ ui.requests = {} /\ ui.failures = 0 /\ ~ui.overlapped
        => ui.known = IF ui.set THEN "yes" ELSE "no"

\* The form without a current PIN is not sent to a household that has one.
EnablesOnce ==
    ui.failures = 0 => \A q \in ui.requests : q.kind = "enable" => q.answer # "refused"
=============================================================================
