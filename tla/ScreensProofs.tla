--------------------------- MODULE ScreensProofs ---------------------------
(***************************************************************************)
(* Proofs about the parts of the page, for any constants that satisfy the  *)
(* assumptions of Screens.  Each part has an inductive invariant of its    *)
(* own, in the order of the file; the invariant of Screens is that of the  *)
(* part on screen, and its theorems are at the end.                        *)
(***************************************************************************)
EXTENDS Screens, FiniteSetTheorems, SequenceTheorems, WellFoundedInduction, TLAPS

-----------------------------------------------------------------------------
(* Figures of the header                                                    *)

\* The figure's state.
NumberState == [target |-> ui.target, value |-> ui.value, from |-> ui.from, to |-> ui.to,
                frame |-> ui.frame, changes |-> ui.changes, cameBack |-> ui.cameBack]

\* An animation that is over has ended at the target and the next one starts there.
NumberInv ==
    /\ ui = NumberState
    /\ Number!TypeOK /\ Number!StopsAtTheTarget
    /\ ui.frame = "none" => ui.from = ui.target

LEMMA NumberStarts == Number!Init => NumberInv
<1> SUFFICES ASSUME Number!Init PROVE NumberInv
  OBVIOUS
<1> QED
  BY DEF Number!Init, NumberInv, NumberState, Number!TypeOK, Number!StopsAtTheTarget

LEMMA NumberKeeps == NumberInv /\ [Number!Next]_ui => NumberInv'
<1> SUFFICES ASSUME NumberInv, [Number!Next]_ui PROVE NumberInv'
  OBVIOUS
<1> USE DEF NumberInv, NumberState, Number!TypeOK, Number!StopsAtTheTarget
<1>1. ASSUME NEW t \in Targets, Number!Retarget(t) PROVE NumberInv'
  BY <1>1 DEF Number!Retarget
<1>2. CASE Number!Tick
  BY <1>2 DEF Number!Tick
<1>3. CASE Number!LastTick
  BY <1>3 DEF Number!LastTick
<1>4. CASE UNCHANGED ui
  BY <1>4
<1> QED BY <1>1, <1>2, <1>3, <1>4 DEF Number!Next

-----------------------------------------------------------------------------
(* Toasts                                                                   *)

ToastState == [toasts |-> ui.toasts, nextId |-> ui.nextId, timers |-> ui.timers,
               permission |-> ui.permission, browser |-> ui.browser, hidden |-> ui.hidden,
               pushed |-> ui.pushed, ran |-> ui.ran]

\* Ids are given once, so that a timer is that of one toast.
ToastInv ==
    /\ ui = ToastState
    /\ Toast!TypeOK
    /\ \A t \in ui.toasts : t.id < ui.nextId
    /\ \A s, t \in ui.toasts : s.id = t.id => s = t
    /\ Toast!ShownWhileItsTimerRuns

LEMMA ToastStarts == Toast!Init => ToastInv
<1> SUFFICES ASSUME Toast!Init PROVE ToastInv
  OBVIOUS
<1> QED
  BY BoundsAreNatural
     DEF Toast!Init, ToastInv, ToastState, Toast!TypeOK, Toast!ShownWhileItsTimerRuns

\* What dismiss leaves, whichever way it was called.
LEMMA ToastDismissed ==
    ASSUME ToastInv, NEW id, ui' = Toast!Dismissed(id)
    PROVE  ToastInv'
<1> USE DEF ToastInv, ToastState
<1>1. /\ ui'.toasts = {t \in ui.toasts : t.id # id} /\ ui'.timers = ui.timers \ {id}
      /\ ui'.nextId = ui.nextId /\ ui'.permission = ui.permission
      /\ ui'.browser = ui.browser /\ ui'.hidden = ui.hidden
      /\ ui'.pushed = ui.pushed /\ ui'.ran = ui.ran
  BY DEF Toast!Dismissed
<1>2. (ui = ToastState)'
  BY DEF Toast!Dismissed
<1>3. Toast!TypeOK'
  BY <1>1 DEF Toast!TypeOK
<1>4. Toast!ShownWhileItsTimerRuns'
  BY <1>1 DEF Toast!ShownWhileItsTimerRuns
<1> QED BY <1>1, <1>2, <1>3, <1>4

LEMMA ToastKeeps == ToastInv /\ [Toast!Next]_ui => ToastInv'
<1> SUFFICES ASSUME ToastInv, [Toast!Next]_ui PROVE ToastInv'
  OBVIOUS
<1> USE DEF ToastInv, ToastState, Toast!TypeOK
<1>1. ASSUME NEW action \in BOOLEAN, NEW stayOpen \in BOOLEAN, Toast!notify(action, stayOpen)
      PROVE  ToastInv'
  <2> DEFINE new == [id |-> ui.nextId, action |-> action, stayOpen |-> stayOpen]
  <2>1. /\ ui'.toasts = ui.toasts \cup {new} /\ ui'.nextId = ui.nextId + 1
        /\ ui.nextId \in 1..MaxToasts
        /\ ui'.timers = IF stayOpen THEN ui.timers ELSE ui.timers \cup {ui.nextId}
        /\ ui'.pushed \in {ui.pushed, ui.pushed \cup {ui.nextId}}
        /\ UNCHANGED <<ui.permission, ui.browser, ui.hidden, ui.ran>>
    BY <1>1, BoundsAreNatural DEF Toast!notify
  <2>2. new \in Toast!Toast /\ new.id = ui.nextId /\ new.stayOpen = stayOpen
    BY <2>1 DEF Toast!Toast
  <2> HIDE DEF new
  <2>3. (ui = ToastState)'
    BY <1>1 DEF Toast!notify
  <2>4. Toast!TypeOK'
    BY <2>1, <2>2, BoundsAreNatural
  <2>5. (/\ \A t \in ui.toasts : t.id < ui.nextId
         /\ \A s, t \in ui.toasts : s.id = t.id => s = t)'
    BY <2>1, <2>2, BoundsAreNatural DEF Toast!Toast
  <2>6. Toast!ShownWhileItsTimerRuns'
    BY <2>1, <2>2 DEF Toast!ShownWhileItsTimerRuns
  <2> QED BY <2>3, <2>4, <2>5, <2>6
<1>2. ASSUME NEW id \in ui.timers, Toast!Expire(id) PROVE ToastInv'
  BY <1>2, ToastDismissed DEF Toast!Expire
<1>3. ASSUME NEW t \in ui.toasts, Toast!Close(t) PROVE ToastInv'
  BY <1>3, ToastDismissed DEF Toast!Close
<1>4. ASSUME NEW t \in ui.toasts, Toast!Act(t) PROVE ToastInv'
  <2>1. /\ ui'.toasts = {x \in ui.toasts : x.id # t.id} /\ ui'.timers = ui.timers \ {t.id}
        /\ ui'.ran = ui.ran \cup {t.id} /\ t.id \in 1..MaxToasts
        /\ UNCHANGED <<ui.nextId, ui.permission, ui.browser, ui.hidden, ui.pushed>>
    BY <1>4 DEF Toast!Act, Toast!Dismissed, Toast!Toast
  <2>2. (ui = ToastState)'
    BY <1>4 DEF Toast!Act, Toast!Dismissed
  <2>3. Toast!TypeOK'
    BY <2>1
  <2>4. Toast!ShownWhileItsTimerRuns'
    BY <2>1 DEF Toast!ShownWhileItsTimerRuns
  <2> QED BY <2>1, <2>2, <2>3, <2>4
<1>5. CASE Toast!requestPermission
  BY <1>5 DEF Toast!requestPermission, Toast!ShownWhileItsTimerRuns
<1>6. CASE Toast!Visibility
  BY <1>6 DEF Toast!Visibility, Toast!ShownWhileItsTimerRuns
<1>7. CASE Toast!Settings
  BY <1>7 DEF Toast!Settings, Toast!ShownWhileItsTimerRuns
<1>8. CASE UNCHANGED ui
  BY <1>8 DEF Toast!ShownWhileItsTimerRuns
<1> QED BY <1>1, <1>2, <1>3, <1>4, <1>5, <1>6, <1>7, <1>8 DEF Toast!Next

-----------------------------------------------------------------------------
(* Editing in a list                                                        *)

RowState == [form |-> ui.form, amount |-> ui.amount, editId |-> ui.editId,
             draft |-> ui.draft, error |-> ui.error, savingId |-> ui.savingId,
             focused |-> ui.focused, saves |-> ui.saves, edits |-> ui.edits,
             failures |-> ui.failures, typedIn |-> ui.typedIn, doubled |-> ui.doubled,
             crossed |-> ui.crossed]

\* An editor that is open holds its own draft; as long as no two rows' saves overlap
\* there is one save at most, and savingId is its row.
RowInv ==
    /\ ui = RowState
    /\ Row!TypeOK
    /\ ui.editId # None => ui.typedIn = ui.editId
    /\ Row!OwnDraftIsSaved
    /\ ~ui.crossed => /\ ui.doubled = {}
                      /\ \A p \in ui.saves : p.row = ui.savingId
                      /\ \A p, q \in ui.saves : p = q

LEMMA RowStarts == Row!Init => RowInv
<1> SUFFICES ASSUME Row!Init PROVE RowInv
  OBVIOUS
<1> QED
  BY DEF Row!Init, RowInv, RowState, Row!TypeOK, Row!OwnDraftIsSaved, Row!Empty

\* A save that is sent, from the editor of r, keeps the invariant, whatever becomes of
\* the focus and the error.
LEMMA RowSent ==
    ASSUME RowInv, NEW r \in Rows,
           ui.editId = r, ui.savingId # r, ui.draft # Row!Empty,
           (ui = RowState)',
           ui'.saves = ui.saves \cup {[row |-> r, value |-> ui.draft, typedIn |-> ui.typedIn]},
           ui'.savingId = r,
           ui'.crossed = (ui.crossed \/ \E p \in ui.saves : p.row # r),
           ui'.doubled = IF \E p \in ui.saves : p.row = r THEN ui.doubled \cup {r}
                         ELSE ui.doubled,
           UNCHANGED <<ui.form, ui.amount, ui.editId, ui.draft, ui.typedIn>>,
           ui'.focused \in BOOLEAN, ui'.error \in BOOLEAN
    PROVE  RowInv'
<1> DEFINE new == [row |-> r, value |-> ui.draft, typedIn |-> ui.typedIn]
<1> USE RowsAreNamed DEF RowInv, Row!TypeOK
<1>1. new \in Row!Save /\ new.row = r /\ new.typedIn = r
  BY DEF Row!Save
<1> HIDE DEF new
<1>2. ui'.saves = ui.saves \cup {new}
  BY DEF new
<1>3. Row!TypeOK'
  BY <1>1, <1>2
<1>4. Row!OwnDraftIsSaved'
  BY <1>1, <1>2 DEF Row!OwnDraftIsSaved
<1>5. ~ui'.crossed => ui.saves = {}
  BY DEF Row!Save
<1>6. (~ui.crossed => /\ ui.doubled = {}
                      /\ \A p \in ui.saves : p.row = ui.savingId
                      /\ \A p, q \in ui.saves : p = q)'
  BY <1>1, <1>2, <1>5
<1> QED BY <1>3, <1>4, <1>6

LEMMA RowKeeps == RowInv /\ [Row!Next]_ui => RowInv'
<1> SUFFICES ASSUME RowInv, [Row!Next]_ui PROVE RowInv'
  OBVIOUS
<1> USE RowsAreNamed DEF RowInv, RowState, Row!TypeOK
<1>1. ASSUME NEW r \in Rows, Row!StartEdit(r) PROVE RowInv'
  BY <1>1 DEF Row!StartEdit, Row!OwnDraftIsSaved
<1>2. ASSUME NEW r \in Rows, Row!Commit(r) PROVE RowInv'
  <2>1. CASE ui.savingId = r
    BY <1>2, <2>1 DEF Row!Commit, Row!OwnDraftIsSaved
  <2>2. CASE ui.savingId # r /\ ui.draft = Row!Empty
    <3>1. ui' = [ui EXCEPT !.focused = FALSE, !.error = TRUE] /\ ui.editId = r
      BY <1>2, <2>2 DEF Row!Commit, Row!Empty
    <3> QED BY <3>1 DEF Row!OwnDraftIsSaved
  <2>3. CASE ui.savingId # r /\ ui.draft # Row!Empty /\ ui.draft = ui.amount[r]
    BY <1>2, <2>3 DEF Row!Commit, Row!Cancelled, Row!OwnDraftIsSaved
  <2>4. CASE ui.savingId # r /\ ui.draft # Row!Empty /\ ui.draft # ui.amount[r]
    <3>1. ui.editId = r /\ ui' = Row!Sent(r, [ui EXCEPT !.focused = FALSE])
      BY <1>2, <2>4 DEF Row!Commit
    <3>2. /\ (ui = RowState)' /\ ui'.savingId = r
          /\ ui'.saves = ui.saves \cup {[row |-> r, value |-> ui.draft, typedIn |-> ui.typedIn]}
          /\ UNCHANGED <<ui.form, ui.amount, ui.editId, ui.draft, ui.typedIn>>
          /\ ui'.focused = FALSE /\ ui'.error = ui.error
      BY <3>1 DEF Row!Sent
    <3>3. /\ ui'.crossed = (ui.crossed \/ \E p \in ui.saves : p.row # r)
          /\ ui'.doubled = IF \E p \in ui.saves : p.row = r THEN ui.doubled \cup {r}
                           ELSE ui.doubled
      BY <3>1 DEF Row!Sent
    <3> QED BY <2>4, <3>1, <3>2, <3>3, RowSent
  <2> QED BY <2>1, <2>2, <2>3, <2>4
<1>3. ASSUME NEW r \in Rows, Row!SaveRow(r) PROVE RowInv'
  <2>1. CASE ui.draft = Row!Empty
    BY <1>3, <2>1 DEF Row!SaveRow, Row!OwnDraftIsSaved
  <2>2. CASE ui.draft # Row!Empty
    <3>1. /\ ui.editId = r /\ ui.savingId # r
          /\ ui' = [Row!Sent(r, ui) EXCEPT !.error = FALSE]
      BY <1>3, <2>2 DEF Row!SaveRow
    <3>2. /\ (ui = RowState)' /\ ui'.savingId = r
          /\ ui'.saves = ui.saves \cup {[row |-> r, value |-> ui.draft, typedIn |-> ui.typedIn]}
          /\ UNCHANGED <<ui.form, ui.amount, ui.editId, ui.draft, ui.typedIn>>
          /\ ui'.focused = ui.focused /\ ui'.error = FALSE
      BY <3>1 DEF Row!Sent
    <3>3. /\ ui'.crossed = (ui.crossed \/ \E p \in ui.saves : p.row # r)
          /\ ui'.doubled = IF \E p \in ui.saves : p.row = r THEN ui.doubled \cup {r}
                           ELSE ui.doubled
      BY <3>1 DEF Row!Sent
    <3> QED BY <2>2, <3>1, <3>2, <3>3, RowSent
  <2> QED BY <2>1, <2>2
<1>4. ASSUME NEW v \in Amounts \cup {Row!Empty}, Row!Type(v) PROVE RowInv'
  <2>1. /\ (ui = RowState)' /\ ui'.draft = v /\ ui'.typedIn = ui.editId /\ ui.editId # None
        /\ UNCHANGED <<ui.form, ui.amount, ui.editId, ui.savingId, ui.focused, ui.saves,
                       ui.doubled, ui.crossed>>
        /\ ui'.error \in BOOLEAN
    BY <1>4 DEF Row!Type
  <2> QED BY <2>1 DEF Row!OwnDraftIsSaved
<1>5. CASE Row!Focus
  BY <1>5 DEF Row!Focus, Row!OwnDraftIsSaved
<1>6. CASE Row!LeaveRow
  BY <1>6 DEF Row!LeaveRow, Row!OwnDraftIsSaved
<1>7. CASE Row!Cancel
  BY <1>7 DEF Row!Cancel, Row!Cancelled, Row!OwnDraftIsSaved
<1>8. ASSUME NEW p \in ui.saves, Row!Saved(p) PROVE RowInv'
  BY <1>8 DEF Row!Saved, Row!Ended, Row!Cancelled, Row!OwnDraftIsSaved, Row!Save
<1>9. ASSUME NEW p \in ui.saves, Row!SaveFails(p) PROVE RowInv'
  BY <1>9 DEF Row!SaveFails, Row!Ended, Row!OwnDraftIsSaved, Row!Save
<1>10. CASE UNCHANGED ui
  BY <1>10 DEF Row!OwnDraftIsSaved
<1> QED BY <1>1, <1>2, <1>3, <1>4, <1>5, <1>6, <1>7, <1>8, <1>9, <1>10 DEF Row!Next

-----------------------------------------------------------------------------
(* The PIN sections                                                         *)

PinFormState == [form |-> ui.form, set |-> ui.set, owner |-> ui.owner, mounted |-> ui.mounted,
                 known |-> ui.known, saving |-> ui.saving, removing |-> ui.removing,
                 removeConfirmOpen |-> ui.removeConfirmOpen, requests |-> ui.requests,
                 submits |-> ui.submits, failures |-> ui.failures,
                 overlapped |-> ui.overlapped]

Saving == {"change", "enable", "setGuest"}
KnownRight == ui.known = IF ui.set THEN "yes" ELSE "no"

\* What a request that is alone, with nothing lost, says of what the section knows.
PinFormTold(q) ==
    CASE q.kind = "status"      -> /\ ui.known = "unknown"
                                   /\ q.answer = "yes" => ui.set
                                   /\ q.answer = "no" => ~ui.set
      [] q.kind = "change"      -> ui.known = "yes" /\ ui.set /\ q.answer # "refused"
      [] q.kind = "enable"      -> /\ ui.known = "no" /\ q.answer \notin {"refused", "wrong"}
                                   /\ ui.set = (q.answer = "ok")
      [] q.kind = "setGuest"    -> IF q.answer = "ok" THEN ui.set ELSE KnownRight
      [] q.kind = "removeGuest" -> IF q.answer = "ok" THEN ~ui.set ELSE KnownRight

\* A section has one request of a kind, one at all as long as none have overlapped and
\* nothing was lost; it then knows what it did when it asked.
PinFormInv ==
    /\ ui = PinFormState
    /\ PinForm!TypeOK /\ ui.failures \in Nat
    /\ \A q \in ui.requests :
          /\ q.answer \in {"yes", "no"} => q.kind = "status"
          /\ q.kind = "status" => q.answer \in {"none", "yes", "no"}
          /\ ui.form = "pin" => q.kind \in {"status", "change", "enable"}
    /\ \A p, q \in ui.requests : p.kind = q.kind \/ {p.kind, q.kind} \subseteq Saving => p = q
    /\ ui.form = "pin" => ~ui.overlapped
    /\ ui.failures = 0 /\ ~ui.overlapped =>
          /\ \A p, q \in ui.requests : p = q
          /\ \A q \in ui.requests : PinFormTold(q)
          /\ ui.mounted /\ ui.requests = {} => KnownRight

LEMMA PinFormStarts == PinForm!Init => PinFormInv
<1> SUFFICES ASSUME PinForm!Init PROVE PinFormInv
  OBVIOUS
<1>1. PICK form \in {"pin", "guest"}, set \in BOOLEAN, owner \in BOOLEAN :
        ui = [form |-> form, set |-> set, owner |-> owner, mounted |-> TRUE,
              known |-> "unknown", saving |-> FALSE, removing |-> FALSE,
              removeConfirmOpen |-> FALSE, requests |-> {PinForm!Sent("status")},
              submits |-> 0, failures |-> 0, overlapped |-> FALSE]
  BY DEF PinForm!Init
<1>2. /\ PinForm!Sent("status") \in PinForm!Request
      /\ PinForm!Sent("status").kind = "status" /\ PinForm!Sent("status").answer = "none"
  BY DEF PinForm!Sent, PinForm!Request, PinForm!Kinds
<1>3. PinForm!TypeOK
  BY <1>1, <1>2 DEF PinForm!TypeOK
<1> QED BY <1>1, <1>2, <1>3 DEF PinFormInv, PinFormState, PinFormTold, Saving

\* A request is sent, alone or not.
LEMMA PinFormSent ==
    ASSUME PinFormInv, NEW kind \in Saving \cup {"removeGuest"},
           (ui = PinFormState)',
           ui'.requests = ui.requests \cup {PinForm!Sent(kind)},
           ui'.overlapped = (ui.overlapped \/ (ui.form = "guest" /\ ui.requests # {})),
           UNCHANGED <<ui.form, ui.set, ui.owner, ui.mounted, ui.known, ui.failures>>,
           kind \in Saving => ~ui.saving /\ ui'.saving = TRUE /\ ui'.removing = ui.removing,
           kind = "removeGuest" => ~ui.removing /\ ui'.removing = TRUE /\ ui'.saving = ui.saving,
           ui.mounted,
           ui.form = "guest" => kind \in {"setGuest", "removeGuest"},
           ui.form = "pin" => kind = IF ui.known = "yes" THEN "change" ELSE "enable",
           ui.form = "pin" => ui.known # "unknown"
    PROVE  PinFormInv'
<1>0. PICK new : new = PinForm!Sent(kind)
  OBVIOUS
<1> USE DEF PinFormInv, PinForm!TypeOK
<1>1. new \in PinForm!Request /\ new.kind = kind /\ new.answer = "none"
  BY <1>0 DEF PinForm!Sent, PinForm!Request, PinForm!Kinds, Saving
<1>2. ui'.requests = ui.requests \cup {new}
  BY <1>0
<1>3. \A q \in ui.requests : q.kind # kind /\ ~({q.kind, kind} \subseteq Saving)
  <2>1. kind \in Saving => \A q \in ui.requests : q.kind \notin Saving
    BY Zenon DEF Saving
  <2>2. kind = "removeGuest" => \A q \in ui.requests : q.kind # "removeGuest"
    BY Zenon
  <2> QED BY <2>1, <2>2 DEF Saving
<1>4. PinForm!TypeOK'
  BY <1>1, <1>2 DEF Saving
<1>5. (/\ \A q \in ui.requests :
          /\ q.answer \in {"yes", "no"} => q.kind = "status"
          /\ q.kind = "status" => q.answer \in {"none", "yes", "no"}
          /\ ui.form = "pin" => q.kind \in {"status", "change", "enable"}
       /\ \A p, q \in ui.requests : p.kind = q.kind \/ {p.kind, q.kind} \subseteq Saving => p = q
       /\ ui.form = "pin" => ~ui.overlapped)'
  BY <1>1, <1>2, <1>3 DEF Saving
<1>6. ASSUME ui.failures = 0, ~ui.overlapped, ~ui'.overlapped
      PROVE  /\ ui.requests = {} /\ KnownRight
             /\ PinFormTold(new)'
  <2>1. ui.requests = {}
    <3>1. CASE ui.form = "guest"
      BY <3>1, <1>6
    <3>2. CASE ui.form = "pin"
      <4>1. \A q \in ui.requests : q.kind \in {"status"} \cup Saving
        BY <3>2 DEF Saving
      <4>2. \A q \in ui.requests : q.kind # "status"
        BY <1>6, <3>2 DEF PinFormTold
      <4> QED BY <4>1, <4>2, <3>2 DEF Saving
    <3> QED BY <3>1, <3>2
  <2>2. KnownRight
    BY <1>6, <2>1
  <2>3. ui.set \in BOOLEAN
    OBVIOUS
  <2>4. CASE ui.form = "pin"
    <3>1. \/ kind = "change" /\ ui.known = "yes" /\ ui.set
          \/ kind = "enable" /\ ui.known = "no" /\ ~ui.set
      BY <2>2, <2>3, <2>4 DEF KnownRight
    <3> QED BY <1>1, <2>1, <2>2, <3>1 DEF PinFormTold
  <2>5. CASE ui.form = "guest"
    <3>1. kind \in {"setGuest", "removeGuest"} /\ KnownRight'
      BY <2>2, <2>5 DEF KnownRight
    <3> QED BY <1>1, <2>1, <2>2, <3>1 DEF PinFormTold
  <2> QED BY <2>4, <2>5
<1>7. (ui.failures = 0 /\ ~ui.overlapped =>
          /\ \A p, q \in ui.requests : p = q
          /\ \A q \in ui.requests : PinFormTold(q)
          /\ ui.mounted /\ ui.requests = {} => KnownRight)'
  BY <1>2, <1>6
<1> QED BY <1>4, <1>5, <1>7

\* A request ends: its handler sets its flag back, and either something was lost or the
\* section knows what the server has, if the request was alone.
LEMMA PinFormEnded ==
    ASSUME PinFormInv, NEW q \in ui.requests,
           (ui = PinFormState)',
           ui'.requests = ui.requests \ {q},
           ui'.saving = (ui.saving /\ q.kind \in {"status", "removeGuest"}),
           ui'.removing = (ui.removing /\ q.kind # "removeGuest"),
           UNCHANGED <<ui.form, ui.set, ui.owner, ui.overlapped>>,
           ui'.known \in {"unknown", "yes", "no"}, ui'.mounted \in BOOLEAN,
           ui'.failures \in Nat, ui'.failures = 0 => ui.failures = 0,
           ui'.failures = 0 /\ ~ui.overlapped /\ ui'.mounted => KnownRight'
    PROVE  PinFormInv'
<1> USE DEF PinFormInv
<1>1. /\ ui.saving = (\E r \in ui.requests : r.kind \in Saving)
      /\ ui.removing = (\E r \in ui.requests : r.kind = "removeGuest")
      /\ q \in PinForm!Request
  BY DEF PinForm!TypeOK, Saving
<1>2. q.kind \in Saving \/ q.kind \in {"status", "removeGuest"}
  BY <1>1 DEF PinForm!Request, PinForm!Kinds, Saving
<1>3. (\E r \in ui'.requests : r.kind \in Saving)
        <=> (\E r \in ui.requests : r.kind \in Saving) /\ q.kind \in {"status", "removeGuest"}
  BY <1>2 DEF Saving
<1>4. (\E r \in ui'.requests : r.kind = "removeGuest")
        <=> (\E r \in ui.requests : r.kind = "removeGuest") /\ q.kind # "removeGuest"
  OBVIOUS
<1>5. /\ ui'.saving = (\E r \in ui'.requests : r.kind \in Saving)
      /\ ui'.removing = (\E r \in ui'.requests : r.kind = "removeGuest")
  BY <1>1, <1>3, <1>4, Zenon
<1>6. PinForm!TypeOK'
  BY <1>5 DEF PinForm!TypeOK, Saving
<1>7. ui.failures = 0 /\ ~ui.overlapped => ui'.requests = {}
  OBVIOUS
<1> QED BY <1>6, <1>7

\* The server answers one.
LEMMA PinFormServed ==
    ASSUME PinFormInv, NEW q \in ui.requests, PinForm!Serve(q)
    PROVE  PinFormInv'
<1> USE DEF PinFormInv, PinFormState
<1>1. PICK a \in PinForm!Answers(q) :
        ui' = [ui EXCEPT !.requests = (@ \ {q}) \cup {[q EXCEPT !.answer = a.answer]},
                         !.set = a.set]
  BY DEF PinForm!Serve
<1>2. PICK r : r = [q EXCEPT !.answer = a.answer]
  OBVIOUS
<1>3. /\ q \in PinForm!Request /\ q.answer = "none" /\ ui.set \in BOOLEAN
      /\ q.kind \in {"status", "change", "enable", "setGuest", "removeGuest"}
  BY DEF PinForm!Serve, PinForm!TypeOK, PinForm!Request, PinForm!Kinds
<1>4. /\ a.answer \in {"yes", "no", "ok", "refused", "wrong"}
      /\ a.set = TRUE \/ a.set = FALSE \/ a.set = ui.set
      /\ a.answer \in {"yes", "no"} => q.kind = "status"
      /\ q.kind = "status" => a.answer = (IF ui.set THEN "yes" ELSE "no") /\ a.set = ui.set
      /\ q.kind = "change" => IF ui.set THEN a.set /\ a.answer \in {"ok", "wrong"}
                              ELSE a.answer = "refused" /\ ~a.set
      /\ q.kind = "enable" => a.answer = (IF ui.set THEN "refused" ELSE "ok") /\ a.set
      /\ q.kind = "setGuest" => \/ a.answer = "ok" /\ a.set
                                \/ a.answer \in {"wrong", "refused"} /\ a.set = ui.set
      /\ q.kind = "removeGuest" => \/ a.answer = "wrong" /\ a.set = ui.set
                                   \/ a.answer = "ok" /\ ~a.set
                                   \/ a.answer = "refused" /\ ~a.set /\ ~ui.set
  <2>1. CASE q.kind = "status"
    BY <1>3, <2>1 DEF PinForm!Answers, PinForm!Answer
  <2>2. CASE q.kind = "change"
    BY <1>3, <2>2 DEF PinForm!Answers, PinForm!Answer
  <2>3. CASE q.kind = "enable"
    BY <1>3, <2>3 DEF PinForm!Answers, PinForm!Answer
  <2>4. CASE q.kind = "setGuest"
    BY <1>3, <2>4 DEF PinForm!Answers, PinForm!Answer
  <2>5. CASE q.kind = "removeGuest"
    BY <1>3, <2>5 DEF PinForm!Answers, PinForm!Answer
  <2> QED BY <1>3, <2>1, <2>2, <2>3, <2>4, <2>5
<1>5. a.set \in BOOLEAN
  BY <1>3, <1>4, Zenon
<1>6. r \in PinForm!Request /\ r.kind = q.kind /\ r.answer = a.answer
  BY <1>2, <1>3, <1>4 DEF PinForm!Request
<1>7. /\ (ui = PinFormState)' /\ ui'.requests = (ui.requests \ {q}) \cup {r} /\ ui'.set = a.set
      /\ UNCHANGED <<ui.form, ui.owner, ui.mounted, ui.known, ui.saving, ui.removing,
                     ui.failures, ui.overlapped>>
  BY <1>1, <1>2
<1>8. /\ ui.saving = (\E x \in ui.requests : x.kind \in Saving)
      /\ ui.removing = (\E x \in ui.requests : x.kind = "removeGuest")
  BY DEF PinForm!TypeOK, Saving
<1>9. /\ (\E x \in ui.requests : x.kind \in Saving) <=> (\E x \in ui'.requests : x.kind \in Saving)
      /\ (\E x \in ui.requests : x.kind = "removeGuest")
           <=> (\E x \in ui'.requests : x.kind = "removeGuest")
  BY <1>6, <1>7
<1>10. /\ ui'.saving = (\E x \in ui'.requests : x.kind \in Saving)
      /\ ui'.removing = (\E x \in ui'.requests : x.kind = "removeGuest")
  BY <1>7, <1>8, <1>9, Zenon
<1>11. PinForm!TypeOK'
  BY <1>5, <1>6, <1>7, <1>10 DEF PinForm!TypeOK, Saving
<1>12. (/\ ui.failures \in Nat
        /\ \A x \in ui.requests :
              /\ x.answer \in {"yes", "no"} => x.kind = "status"
              /\ x.kind = "status" => x.answer \in {"none", "yes", "no"}
              /\ ui.form = "pin" => x.kind \in {"status", "change", "enable"}
        /\ \A x, y \in ui.requests :
              x.kind = y.kind \/ {x.kind, y.kind} \subseteq Saving => x = y
        /\ ui.form = "pin" => ~ui.overlapped)'
  BY <1>4, <1>6, <1>7
<1>13. ASSUME ui.failures = 0, ~ui.overlapped
       PROVE  ui'.requests = {r} /\ PinFormTold(r)'
  <2>1. ui.requests = {q} /\ PinFormTold(q)
    BY <1>13
  <2>2. CASE q.kind \in {"status", "change", "enable"}
    BY <1>3, <1>4, <1>6, <1>7, <2>1, <2>2 DEF PinFormTold
  <2>3. CASE q.kind = "setGuest"
    <3>1. KnownRight
      BY <1>3, <2>1, <2>3 DEF PinFormTold
    <3>2. IF a.answer = "ok" THEN a.set ELSE KnownRight'
      BY <1>4, <1>7, <2>3, <3>1 DEF KnownRight
    <3> QED BY <1>6, <1>7, <2>1, <2>3, <3>2 DEF PinFormTold
  <2>4. CASE q.kind = "removeGuest"
    <3>1. KnownRight
      BY <1>3, <2>1, <2>4 DEF PinFormTold
    <3>2. IF a.answer = "ok" THEN ~a.set ELSE KnownRight'
      BY <1>4, <1>7, <2>4, <3>1 DEF KnownRight
    <3> QED BY <1>6, <1>7, <2>1, <2>4, <3>2 DEF PinFormTold
  <2> QED BY <1>3, <2>1, <2>2, <2>3, <2>4, <1>7
<1>14. (ui.failures = 0 /\ ~ui.overlapped =>
          /\ \A x, y \in ui.requests : x = y
          /\ \A x \in ui.requests : PinFormTold(x)
          /\ ui.mounted /\ ui.requests = {} => KnownRight)'
  BY <1>7, <1>13
<1> QED BY <1>7, <1>11, <1>12, <1>14

LEMMA PinFormKeeps == PinFormInv /\ [PinForm!Next]_ui => PinFormInv'
<1> SUFFICES ASSUME PinFormInv, [PinForm!Next]_ui PROVE PinFormInv'
  OBVIOUS
<1> USE DEF PinFormInv, PinFormState
<1>1. CASE PinForm!Submit
  <2>1. PICK kind :
          /\ kind = CASE ui.form = "guest"                   -> "setGuest"
                      [] ui.form = "pin" /\ ui.known = "yes" -> "change"
                      [] ui.form = "pin" /\ ui.known = "no"  -> "enable"
          /\ ui' = PinForm!Send(kind, [ui EXCEPT !.saving = TRUE])
          /\ ui.mounted /\ ~ui.saving /\ (ui.form = "pin" => ui.known # "unknown")
    BY <1>1 DEF PinForm!Submit, PinForm!Click
  <2>2. /\ kind \in Saving
        /\ ui.form = "guest" => kind = "setGuest"
        /\ ui.form = "pin" => kind = IF ui.known = "yes" THEN "change" ELSE "enable"
    BY <2>1 DEF PinForm!TypeOK, Saving
  <2>3. /\ (ui = PinFormState)' /\ ui'.saving = TRUE /\ ui'.removing = ui.removing
        /\ ui'.requests = ui.requests \cup {PinForm!Sent(kind)}
        /\ UNCHANGED <<ui.form, ui.set, ui.owner, ui.mounted, ui.known, ui.failures>>
    BY <2>1 DEF PinForm!Send
  <2>4. ui'.overlapped = (ui.overlapped \/ (ui.form = "guest" /\ ui.requests # {}))
    BY <2>1 DEF PinForm!Send
  <2> QED BY <2>1, <2>2, <2>3, <2>4, PinFormSent DEF Saving
<1>2. CASE PinForm!Remove
  <2>1. /\ (ui = PinFormState)' /\ ui'.removing = TRUE /\ ui'.saving = ui.saving
        /\ ui'.requests = ui.requests \cup {PinForm!Sent("removeGuest")}
        /\ UNCHANGED <<ui.form, ui.set, ui.owner, ui.mounted, ui.known, ui.failures>>
        /\ ui.mounted /\ ui.form = "guest" /\ ~ui.removing
    BY <1>2 DEF PinForm!Remove, PinForm!Click, PinForm!Send
  <2>2. ui'.overlapped = (ui.overlapped \/ (ui.form = "guest" /\ ui.requests # {}))
    BY <1>2 DEF PinForm!Remove, PinForm!Send
  <2> QED BY <2>1, <2>2, PinFormSent DEF Saving
<1>3. ASSUME NEW open \in BOOLEAN, PinForm!Confirm(open) PROVE PinFormInv'
  BY <1>3 DEF PinForm!Confirm, PinForm!TypeOK, PinFormTold, KnownRight
<1>4. ASSUME NEW q \in ui.requests, PinForm!Serve(q) PROVE PinFormInv'
  BY <1>4, PinFormServed
<1>5. ASSUME NEW q \in ui.requests, PinForm!Done(q) PROVE PinFormInv'
  <2>1. /\ (ui = PinFormState)' /\ ui'.requests = ui.requests \ {q}
        /\ UNCHANGED <<ui.form, ui.set, ui.owner, ui.mounted, ui.failures, ui.overlapped>>
        /\ q.answer = "ok" /\ q.kind \in Saving \cup {"removeGuest"}
    BY <1>5 DEF PinForm!Done, PinForm!Finally, PinForm!TypeOK, PinForm!Request,
                PinForm!Kinds, Saving
  <2>2. /\ ui'.saving = (ui.saving /\ q.kind \in {"status", "removeGuest"})
        /\ ui'.removing = (ui.removing /\ q.kind # "removeGuest")
    BY <1>5 DEF PinForm!Done, PinForm!Finally
  <2>3. ui'.known = CASE q.kind = "removeGuest" -> "no"
                      [] q.kind = "change"      -> ui.known
                      [] OTHER                  -> "yes"
    BY <1>5 DEF PinForm!Done, PinForm!Finally
  <2>4. ui'.known \in {"unknown", "yes", "no"} /\ ui'.mounted \in BOOLEAN
    BY <2>1, <2>3 DEF PinForm!TypeOK, Saving
  <2>5. ui.failures = 0 /\ ~ui.overlapped => KnownRight'
    BY <2>1, <2>3 DEF PinFormTold, KnownRight, Saving
  <2> QED BY <2>1, <2>2, <2>4, <2>5, PinFormEnded
<1>6. ASSUME NEW q \in ui.requests, PinForm!Refused(q) PROVE PinFormInv'
  <2>1. /\ (ui = PinFormState)' /\ ui'.requests = ui.requests \ {q}
        /\ UNCHANGED <<ui.form, ui.set, ui.owner, ui.known, ui.failures, ui.overlapped>>
        /\ q.answer \in {"refused", "wrong"} /\ q.kind \in Saving \cup {"removeGuest"}
        /\ ui'.mounted \in BOOLEAN /\ (ui'.mounted => q.answer = "refused")
    BY <1>6 DEF PinForm!Refused, PinForm!Finally, PinForm!TypeOK, PinForm!Request,
                PinForm!Kinds, Saving
  <2>2. /\ ui'.saving = (ui.saving /\ q.kind \in {"status", "removeGuest"})
        /\ ui'.removing = (ui.removing /\ q.kind # "removeGuest")
    BY <1>6 DEF PinForm!Refused, PinForm!Finally
  <2>3. ui.failures = 0 /\ ~ui.overlapped /\ ui'.mounted => KnownRight'
    BY <2>1 DEF PinFormTold, KnownRight, Saving
  <2> QED BY <2>1, <2>2, <2>3, PinFormEnded DEF PinForm!TypeOK
<1>7. ASSUME NEW q \in ui.requests, PinForm!StatusKnown(q) PROVE PinFormInv'
  <2>1. /\ (ui = PinFormState)' /\ ui'.requests = ui.requests \ {q}
        /\ UNCHANGED <<ui.form, ui.set, ui.owner, ui.mounted, ui.saving, ui.removing,
                       ui.failures, ui.overlapped>>
        /\ ui'.known = q.answer /\ q.answer \in {"yes", "no"} /\ q.kind = "status"
    BY <1>7 DEF PinForm!StatusKnown
  <2>2. ui.saving \in BOOLEAN /\ ui.removing \in BOOLEAN /\ ui.set \in BOOLEAN
    BY DEF PinForm!TypeOK
  <2>3. /\ ui'.saving = (ui.saving /\ q.kind \in {"status", "removeGuest"})
        /\ ui'.removing = (ui.removing /\ q.kind # "removeGuest")
    BY <2>1, <2>2
  <2>4. ui.failures = 0 /\ ~ui.overlapped => KnownRight'
    BY <2>1, <2>2 DEF PinFormTold, KnownRight
  <2> QED BY <2>1, <2>3, <2>4, PinFormEnded DEF PinForm!TypeOK
<1>8. ASSUME NEW q \in ui.requests, PinForm!Lost(q) PROVE PinFormInv'
  <2>1. /\ (ui = PinFormState)' /\ ui'.requests = ui.requests \ {q}
        /\ UNCHANGED <<ui.form, ui.set, ui.owner, ui.mounted, ui.overlapped>>
        /\ ui'.failures = ui.failures + 1
        /\ ui'.known \in {ui.known, "yes", "no"}
    BY <1>8 DEF PinForm!Lost, PinForm!Finally
  <2>2. /\ ui'.saving = (ui.saving /\ q.kind \in {"status", "removeGuest"})
        /\ ui'.removing = (ui.removing /\ q.kind # "removeGuest")
    BY <1>8 DEF PinForm!Lost, PinForm!Finally
  <2>3. /\ ui'.known \in {"unknown", "yes", "no"} /\ ui'.mounted \in BOOLEAN
        /\ ui'.failures \in Nat /\ ui'.failures # 0
    BY <2>1 DEF PinForm!TypeOK
  <2> QED BY <2>1, <2>2, <2>3, PinFormEnded
<1>9. CASE UNCHANGED ui
  BY <1>9 DEF PinForm!TypeOK, PinFormTold, KnownRight
<1> QED BY <1>1, <1>2, <1>3, <1>4, <1>5, <1>6, <1>7, <1>8, <1>9 DEF PinForm!Next

\* The invariant says what the run checks.
LEMMA PinFormRight == PinFormInv => PinForm!KnownIsServers /\ PinForm!EnablesOnce
<1> SUFFICES ASSUME PinFormInv PROVE PinForm!KnownIsServers /\ PinForm!EnablesOnce
  OBVIOUS
<1> USE DEF PinFormInv
<1>1. PinForm!KnownIsServers
  BY DEF PinForm!KnownIsServers, KnownRight
<1>2. \A q \in ui.requests : q.kind = "enable" => ui.form = "pin"
  BY DEF PinForm!TypeOK
<1>3. PinForm!EnablesOnce
  BY <1>2 DEF PinForm!EnablesOnce, PinFormTold
<1> QED BY <1>1, <1>3

-----------------------------------------------------------------------------
(* The PIN pad                                                              *)

PinState == [mode |-> ui.mode, stage |-> ui.stage, pin |-> ui.pin, firstPin |-> ui.firstPin,
             mismatch |-> ui.mismatch, showError |-> ui.showError,
             errorTimer |-> ui.errorTimer, timers |-> ui.timers,
             submitted |-> ui.submitted, loading |-> ui.loading, open |-> ui.open,
             keys |-> ui.keys, entered |-> ui.entered, edited |-> ui.edited]

\* In a set-up, what is on its way to being set was typed in the first stage.
PinEntered ==
    ui.mode = "setup" =>
        /\ ui.firstPin # <<>> => ui.firstPin \in ui.entered
        /\ \A t \in ui.timers : t.does \in {"confirm", "submit"} => t.pin \in ui.entered
        /\ Pin!SetupIsConfirmed

\* Unless a digit was taken back from a full pad one thing is due at a time: what follows
\* a full pad, the answer to what it submitted, or the end of the error that is shown.
PinOneThing ==
    ~ui.edited =>
        /\ \A s, t \in ui.timers : s = t
        /\ \A t \in ui.timers :
              IF t.does = "clear" THEN ui.showError /\ t.n = ui.errorTimer
              ELSE Pin!Full /\ ~ui.showError /\ ui.submitted = <<>>
        /\ ui.submitted # <<>> => /\ Len(ui.submitted) = 1 /\ ui.loading
                                  /\ Pin!Full /\ ~ui.showError /\ ui.timers = {}
        /\ ui.showError => Pin!Full

PinInv ==
    /\ ui = PinState
    /\ Pin!TypeOK /\ ui.edited \in BOOLEAN
    /\ PinEntered
    /\ PinOneThing

LEMMA PinStarts == Pin!Init => PinInv
<1> SUFFICES ASSUME Pin!Init PROVE PinInv
  OBVIOUS
<1> QED
  BY BoundsAreNatural
     DEF Pin!Init, PinInv, PinState, Pin!TypeOK, PinEntered, PinOneThing,
         Pin!SetupIsConfirmed

\* A digit is added to a pad that is not full, perhaps starting a timer.
LEMMA PinTyped ==
    ASSUME PinInv, NEW d \in Digits, NEW timers, NEW wrong \in BOOLEAN,
           Pin!Key, ~ui.showError, ~Pin!Full,
           Pin!Typed(Append(ui.pin, d), timers, wrong),
           \/ timers = ui.timers
           \/ /\ Len(Append(ui.pin, d)) = PIN_LENGTH
              /\ \E does \in {"confirm", "restart", "submit"} :
                    /\ timers = Pin!Started(does, Append(ui.pin, d))
                    /\ does = "confirm" => ui.stage = "enter"
                    /\ does = "submit" /\ ui.mode = "setup" =>
                          Append(ui.pin, d) = ui.firstPin
    PROVE  PinInv'
<1> USE DEF PinInv, Pin!TypeOK
<1>0. PICK next : next = Append(ui.pin, d)
  OBVIOUS
<1>1. /\ (ui = PinState)'
      /\ ui'.keys = ui.keys + 1 /\ ui'.pin = next /\ ui'.mismatch = wrong
      /\ ui'.timers = timers
      /\ ui'.entered = IF Len(next) = PIN_LENGTH /\ ui.stage = "enter"
                       THEN ui.entered \cup {next} ELSE ui.entered
      /\ UNCHANGED <<ui.mode, ui.stage, ui.firstPin, ui.showError, ui.errorTimer,
                     ui.submitted, ui.loading, ui.open, ui.edited>>
  BY <1>0 DEF Pin!Typed, PinState
<1>2. /\ next \in Seq(Digits) /\ next # <<>> /\ Len(next) <= PIN_LENGTH
      /\ Len(next) = Len(ui.pin) + 1
  BY <1>0, BoundsAreNatural DEF Pin!Full
<1>3. ui'.keys \in 0..MaxKeys /\ ui.keys \in Nat
  BY <1>1, BoundsAreNatural DEF Pin!Key
<1>4. /\ ~ui.loading
      /\ ~ui.edited => ui.timers = {} /\ ui.submitted = <<>>
  BY DEF Pin!Key, PinOneThing
<1>5. CASE timers = ui.timers
  <2>1. Pin!TypeOK' /\ ui'.edited \in BOOLEAN
    BY <1>1, <1>2, <1>3, <1>5
  <2>2. PinEntered'
    BY <1>1, <1>5 DEF PinEntered, Pin!SetupIsConfirmed
  <2>3. PinOneThing'
    BY <1>1, <1>4, <1>5 DEF PinOneThing, Pin!Full
  <2> QED BY <1>1, <2>1, <2>2, <2>3
<1>6. ASSUME NEW does \in {"confirm", "restart", "submit"}, Len(next) = PIN_LENGTH,
             timers = Pin!Started(does, next), does = "confirm" => ui.stage = "enter",
             does = "submit" /\ ui.mode = "setup" => next = ui.firstPin
      PROVE  PinInv'
  <2>0. PICK new : new = [does |-> does, pin |-> next, n |-> ui.keys]
    OBVIOUS
  <2>1. /\ new \in Pin!Timer /\ new.does = does /\ new.pin = next
        /\ ui'.timers = ui.timers \cup {new}
    BY <1>1, <1>2, <1>3, <1>6, <2>0 DEF Pin!Timer, Pin!Started
  <2>2. Pin!TypeOK' /\ ui'.edited \in BOOLEAN
    BY <1>1, <1>2, <1>3, <2>1
  <2>3. PinEntered'
    BY <1>1, <1>2, <1>6, <2>1 DEF PinEntered, Pin!SetupIsConfirmed
  <2>4. PinOneThing'
    BY <1>1, <1>4, <1>6, <2>1 DEF PinOneThing, Pin!Full
  <2> QED BY <1>1, <2>2, <2>3, <2>4
<1> QED BY <1>0, <1>5, <1>6

LEMMA PinFired ==
    ASSUME PinInv, NEW t \in ui.timers, Pin!Fire(t)
    PROVE  PinInv'
<1> USE DEF PinInv, Pin!TypeOK
<1>0. /\ t \in Pin!Timer /\ t.pin \in Seq(Digits)
      /\ t.does \in {"confirm", "restart", "submit", "clear"}
  BY DEF Pin!Timer
<1>1. CASE t.does = "confirm"
  <2>1. ui' = [ui EXCEPT !.timers = ui.timers \ {t}, !.firstPin = t.pin, !.pin = <<>>,
                         !.stage = "confirm"]
    BY <1>1 DEF Pin!Fire
  <2>2. (ui = PinState)'
    BY <2>1 DEF PinState
  <2>3. Pin!TypeOK' /\ ui'.edited \in BOOLEAN
    BY <1>0, <2>1, BoundsAreNatural
  <2>4. PinEntered'
    BY <1>1, <2>1 DEF PinEntered, Pin!SetupIsConfirmed
  <2>5. PinOneThing'
    BY <1>1, <2>1 DEF PinOneThing, Pin!Full
  <2> QED BY <2>2, <2>3, <2>4, <2>5
<1>2. CASE t.does = "restart"
  <2>1. ui' = [ui EXCEPT !.timers = ui.timers \ {t}, !.firstPin = <<>>, !.pin = <<>>,
                         !.stage = "enter"]
    BY <1>2 DEF Pin!Fire
  <2>2. (ui = PinState)'
    BY <2>1 DEF PinState
  <2>3. Pin!TypeOK' /\ ui'.edited \in BOOLEAN
    BY <1>0, <2>1, BoundsAreNatural
  <2>4. PinEntered'
    BY <1>2, <2>1 DEF PinEntered, Pin!SetupIsConfirmed
  <2>5. PinOneThing'
    BY <1>2, <2>1 DEF PinOneThing, Pin!Full
  <2> QED BY <2>2, <2>3, <2>4, <2>5
<1>3. CASE t.does = "submit"
  <2>1. ui' = [ui EXCEPT !.timers = ui.timers \ {t}, !.loading = TRUE,
                         !.submitted = Append(ui.submitted, t.pin)]
    BY <1>3 DEF Pin!Fire
  <2>2. (ui = PinState)'
    BY <2>1 DEF PinState
  <2>3. Pin!TypeOK' /\ ui'.edited \in BOOLEAN
    BY <1>0, <2>1, BoundsAreNatural
  <2>4. ASSUME ui.mode = "setup", NEW i \in 1..Len(ui'.submitted)
        PROVE  ui'.submitted[i] \in ui.entered
    <3>1. i \in 1..Len(ui.submitted) \/ ui'.submitted[i] = t.pin
      BY <1>0, <2>1
    <3>2. i \in 1..Len(ui.submitted) => ui'.submitted[i] = ui.submitted[i]
      BY <1>0, <2>1
    <3> QED BY <1>3, <2>4, <3>1, <3>2 DEF PinEntered, Pin!SetupIsConfirmed
  <2>6. PinEntered'
    BY <1>0, <1>3, <2>1, <2>4 DEF PinEntered, Pin!SetupIsConfirmed
  <2>5. PinOneThing'
    BY <1>0, <1>3, <2>1 DEF PinOneThing, Pin!Full
  <2> QED BY <2>2, <2>3, <2>5, <2>6
<1>4. CASE t.does = "clear"
  <2>1. ui' = [ui EXCEPT !.timers = ui.timers \ {t}, !.pin = <<>>, !.showError = FALSE,
                         !.errorTimer = 0]
    BY <1>4 DEF Pin!Fire
  <2>2. (ui = PinState)'
    BY <2>1 DEF PinState
  <2>3. Pin!TypeOK' /\ ui'.edited \in BOOLEAN
    BY <1>0, <2>1, BoundsAreNatural
  <2>4. PinEntered'
    BY <1>4, <2>1 DEF PinEntered, Pin!SetupIsConfirmed
  <2>5. PinOneThing'
    BY <1>4, <2>1 DEF PinOneThing, Pin!Full
  <2> QED BY <2>2, <2>3, <2>4, <2>5
<1> QED BY <1>0, <1>1, <1>2, <1>3, <1>4

LEMMA NothingIsEmpty ==
    ASSUME NEW S, NEW s \in Seq(S), Len(s) = 0
    PROVE  s = <<>>
BY EmptySeq

\* The first answer is taken from what was submitted.
LEMMA PinAnswered ==
    ASSUME PinInv, ui.submitted # <<>>,
           NEW rest, rest = Tail(ui.submitted)
    PROVE  /\ rest \in Seq(Seq(Digits)) /\ ui.submitted[1] \in Seq(Digits)
           /\ Len(ui.submitted) = 1 => rest = <<>>
           /\ ui.mode = "setup" => \A i \in 1..Len(rest) : rest[i] \in ui.entered
<1> USE DEF PinInv, Pin!TypeOK
<1>1. /\ rest \in Seq(Seq(Digits)) /\ ui.submitted[1] \in Seq(Digits)
      /\ Len(rest) = Len(ui.submitted) - 1 /\ Len(ui.submitted) \in Nat \ {0}
      /\ \A i \in 1..Len(rest) : rest[i] = ui.submitted[i + 1]
  OBVIOUS
<1>2. Len(ui.submitted) = 1 => rest = <<>>
  <2> SUFFICES ASSUME Len(ui.submitted) = 1 PROVE rest = <<>>
    OBVIOUS
  <2>1. Len(rest) = 0
    BY <1>1
  <2> HIDE DEF PinInv
  <2> QED BY ONLY <1>1, <2>1, NothingIsEmpty
<1>3. ui.mode = "setup" => \A i \in 1..Len(rest) : rest[i] \in ui.entered
  BY <1>1 DEF PinEntered, Pin!SetupIsConfirmed
<1> QED BY <1>1, <1>2, <1>3

LEMMA PinKeeps == PinInv /\ [Pin!Next]_ui => PinInv'
<1> SUFFICES ASSUME PinInv, [Pin!Next]_ui PROVE PinInv'
  OBVIOUS
<1> USE DEF PinInv, Pin!TypeOK
<1>1. ASSUME NEW d \in Digits, Pin!DigitAfterError(d) PROVE PinInv'
  <2>1. ui' = [ui EXCEPT !.keys = ui.keys + 1, !.pin = <<d>>, !.showError = FALSE,
                         !.timers = {t \in ui.timers :
                                       ~(t.does = "clear" /\ t.n = ui.errorTimer)}]
    BY <1>1 DEF Pin!DigitAfterError
  <2>2. (ui = PinState)'
    BY <2>1 DEF PinState
  <2>3. Pin!TypeOK' /\ ui'.edited \in BOOLEAN
    BY <1>1, <2>1, BoundsAreNatural DEF Pin!DigitAfterError, Pin!Key
  <2>4. PinEntered'
    BY <1>1, <2>1 DEF PinEntered, Pin!SetupIsConfirmed
  <2>5. PinOneThing'
    BY <1>1, <2>1 DEF PinOneThing, Pin!Full, Pin!DigitAfterError, Pin!Key
  <2> QED BY <2>2, <2>3, <2>4, <2>5
<1>2. ASSUME NEW d \in Digits, Pin!Digit(d) PROVE PinInv'
  <2>0. PICK next : next = Append(ui.pin, d)
    OBVIOUS
  <2>1. Pin!Key /\ ~ui.showError /\ ~Pin!Full
    BY <1>2 DEF Pin!Digit
  <2>2. ui.stage # "enter" => ui.stage = "confirm"
    OBVIOUS
  <2>3. CASE Len(next) < PIN_LENGTH
    <3>1. Pin!Typed(next, ui.timers, FALSE)
      BY <1>2, <2>0, <2>3 DEF Pin!Digit
    <3> QED BY <2>0, <2>1, <3>1, PinTyped
  <2>4. CASE ~(Len(next) < PIN_LENGTH)
    <3>1. Len(next) = PIN_LENGTH
      BY <2>0, <2>1, <2>4, BoundsAreNatural DEF Pin!Full
    <3>2. CASE ui.mode = "setup" /\ ui.stage = "enter"
      <4>1. Pin!Typed(next, Pin!Started("confirm", next), FALSE)
        BY <1>2, <2>0, <2>4, <3>2 DEF Pin!Digit
      <4> QED BY <2>0, <2>1, <3>1, <3>2, <4>1, PinTyped
    <3>3. CASE /\ ~(ui.mode = "setup" /\ ui.stage = "enter")
               /\ ui.mode = "setup" /\ next # ui.firstPin
      <4>1. Pin!Typed(next, Pin!Started("restart", next), TRUE)
        BY <1>2, <2>0, <2>4, <3>3 DEF Pin!Digit
      <4> QED BY <2>0, <2>1, <3>1, <4>1, PinTyped
    <3>4. CASE /\ ~(ui.mode = "setup" /\ ui.stage = "enter")
               /\ ~(ui.mode = "setup" /\ next # ui.firstPin)
      <4>1. Pin!Typed(next, Pin!Started("submit", next), FALSE)
        BY <1>2, <2>0, <2>4, <3>4 DEF Pin!Digit
      <4> QED BY <2>0, <2>1, <3>1, <3>4, <4>1, PinTyped
    <3> QED BY <3>2, <3>3, <3>4
  <2> QED BY <2>3, <2>4
<1>3. CASE Pin!Backspace
  <2>1. ui' = [ui EXCEPT !.keys = ui.keys + 1, !.pin = SubSeq(ui.pin, 1, Len(ui.pin) - 1),
                         !.edited = (ui.edited \/ Pin!Pending)]
    BY <1>3 DEF Pin!Backspace
  <2>2. (ui = PinState)' /\ ui'.edited \in BOOLEAN
    BY <2>1 DEF PinState
  <2>3. Pin!TypeOK'
    BY <1>3, <2>1, BoundsAreNatural DEF Pin!Backspace, Pin!Key
  <2>4. PinEntered'
    BY <1>3, <2>1 DEF PinEntered, Pin!SetupIsConfirmed
  <2>5. PinOneThing'
    <3>1. /\ ~ui.showError /\ ~ui.loading /\ ui'.timers = ui.timers
          /\ ui'.submitted = ui.submitted /\ ui'.showError = ui.showError
          /\ ui'.edited = (ui.edited \/ Pin!Pending)
      BY <1>3, <2>1 DEF Pin!Backspace, Pin!Key
    <3>2. ~ui'.edited => ~ui.edited /\ ~Pin!Pending
      BY <3>1
    <3>3. ~ui'.edited => ui.timers = {} /\ ui.submitted = <<>>
      BY <3>1, <3>2 DEF PinOneThing, Pin!Pending
    <3> QED BY <3>1, <3>3 DEF PinOneThing
  <2> QED BY <2>2, <2>3, <2>4, <2>5
<1>4. ASSUME NEW t \in ui.timers, Pin!Fire(t) PROVE PinInv'
  BY <1>4, PinFired
<1>5. CASE Pin!Accepted
  <2>0. PICK rest : rest = Tail(ui.submitted)
    OBVIOUS
  <2>1. ui' = [ui EXCEPT !.submitted = rest, !.loading = FALSE, !.open = FALSE]
    BY <1>5, <2>0 DEF Pin!Accepted, Pin!Answered
  <2>2. ui.submitted # <<>>
    BY <1>5 DEF Pin!Accepted
  <2>3. (ui = PinState)'
    BY <2>1 DEF PinState
  <2>4. Pin!TypeOK' /\ ui'.edited \in BOOLEAN
    BY <2>0, <2>1, <2>2, PinAnswered
  <2>5. PinEntered'
    <3>1. ui.mode = "setup" => \A i \in 1..Len(rest) : rest[i] \in ui.entered
      BY <2>0, <2>2, PinAnswered
    <3> QED BY <2>1, <3>1 DEF PinEntered, Pin!SetupIsConfirmed
  <2>6. PinOneThing'
    BY <2>0, <2>1, <2>2, PinAnswered DEF PinOneThing, Pin!Full
  <2> QED BY <2>3, <2>4, <2>5, <2>6
<1>6. CASE Pin!Refused
  <2>0. PICK rest, new : /\ rest = Tail(ui.submitted)
                         /\ new = [does |-> "clear", pin |-> ui.submitted[1], n |-> ui.keys]
    OBVIOUS
  <2>1. ui' = [ui EXCEPT !.submitted = rest, !.loading = FALSE, !.showError = TRUE,
                         !.errorTimer = ui.keys, !.timers = ui.timers \cup {new}]
    BY <1>6, <2>0 DEF Pin!Refused, Pin!Answered, Pin!Started
  <2>2. ui.submitted # <<>>
    BY <1>6 DEF Pin!Refused
  <2>3. new \in Pin!Timer /\ new.does = "clear"
    BY <2>0, <2>2, PinAnswered, BoundsAreNatural DEF Pin!Timer
  <2>4. (ui = PinState)'
    BY <2>1 DEF PinState
  <2>5. Pin!TypeOK' /\ ui'.edited \in BOOLEAN
    BY <2>0, <2>1, <2>2, <2>3, PinAnswered
  <2>6. PinEntered'
    <3>1. ui.mode = "setup" => \A i \in 1..Len(rest) : rest[i] \in ui.entered
      BY <2>0, <2>2, PinAnswered
    <3> QED BY <2>1, <2>3, <3>1 DEF PinEntered, Pin!SetupIsConfirmed
  <2>7. PinOneThing'
    BY <2>0, <2>1, <2>2, <2>3, PinAnswered DEF PinOneThing, Pin!Full
  <2> QED BY <2>4, <2>5, <2>6, <2>7
<1>7. CASE UNCHANGED ui
  BY <1>7 DEF PinState, PinEntered, PinOneThing, Pin!SetupIsConfirmed, Pin!Full
<1> QED BY <1>1, <1>2, <1>3, <1>4, <1>5, <1>6, <1>7 DEF Pin!Next

-----------------------------------------------------------------------------
(* Scanning a screenshot                                                    *)

ScanState == [open |-> ui.open, step |-> ui.step, drafts |-> ui.drafts, ocr |-> ui.ocr,
              scan |-> ui.scan, workers |-> ui.workers, saves |-> ui.saves,
              stored |-> ui.stored, rows |-> ui.rows, scans |-> ui.scans,
              failures |-> ui.failures, added |-> ui.added, unsure |-> ui.unsure,
              twice |-> ui.twice, left |-> ui.left]

\* The rows a call of onConfirm has still to store.
Way(s) == s.todo \cup s.sending

\* Ids are given once; what is on its way was ticked when Add was clicked.
ScanRows ==
    /\ \A d \in ui.drafts : d.id <= ui.rows
    /\ \A i \in ui.added : i <= ui.rows
    /\ \A s \in ui.saves :
          /\ \A d \in Way(s) : d.id \in ui.added
          /\ \A d, e \in Way(s) : d.id = e.id => d = e
          /\ s.todo \cap s.sending = {}
    /\ Scan!OnlyAddedIsStored

\* Until the review is left while rows are being saved: a row is on its way once, and by
\* the modal's own save if it can still be added; a row that is stored and on its way, or
\* in the review with nothing saved, is one whose answer was lost.
ScanOnce ==
    ~ui.left =>
        /\ \A s, t \in ui.saves : \A d \in Way(s), e \in Way(t) : d.id = e.id => s = t
        /\ \A s \in ui.saves : \A d \in Way(s) : d.id \in ui.stored => d.id \in ui.unsure
        /\ \A s \in ui.saves : ~s.mine => \A d \in Way(s), e \in ui.drafts : d.id # e.id
        /\ \A s, t \in ui.saves : s.mine /\ t.mine => s = t
        /\ \A s \in ui.saves : s.mine => ui.open /\ ui.step = "saving"
        /\ \A d \in ui.drafts : d.id \in ui.stored =>
              d.id \in ui.unsure \/ \E s \in ui.saves : s.mine /\ s.saved
        /\ ui.open /\ ui.scan # "none" => ui.step = "scanning" /\ ui.ocr = "recognizing"
        /\ ui.twice \subseteq ui.unsure

ScanInv ==
    /\ ui = ScanState
    /\ Scan!TypeOK /\ ui.rows \in 0..MaxRows /\ ui.scans \in 0..MaxScans
    /\ ui.left \in BOOLEAN
    /\ Scan!WorkersEnd
    /\ ScanRows
    /\ ScanOnce

LEMMA ScanStarts == Scan!Init => ScanInv
<1> SUFFICES ASSUME Scan!Init PROVE ScanInv
  OBVIOUS
<1> QED
  BY BoundsAreNatural
     DEF Scan!Init, ScanInv, ScanState, Scan!TypeOK, Scan!WorkersEnd, ScanRows, ScanOnce,
         Scan!OnlyAddedIsStored

\* A save goes on: t stands for what is left of s.
LEMMA ScanSaving ==
    ASSUME ScanInv, NEW s \in ui.saves, NEW t \in Scan!Save,
           (ui = ScanState)', ui'.saves = (ui.saves \ {s}) \cup {t},
           t.mine = s.mine, s.saved => t.saved,
           Way(t) \subseteq Way(s), t.todo \cap t.sending = {},
           UNCHANGED <<ui.open, ui.step, ui.drafts, ui.ocr, ui.scan, ui.workers, ui.rows,
                       ui.scans, ui.added, ui.left>>,
           \A i \in ui'.stored : i \in ui.stored \/ \E d \in Way(s) : i = d.id,
           \A i \in ui'.stored \ ui.stored :
              \/ i \in ui'.unsure
              \/ t.saved /\ \A d \in Way(t) : d.id # i,
           ui.unsure \subseteq ui'.unsure, ui'.unsure \subseteq 1..MaxRows,
           ui'.twice \subseteq 1..MaxRows,
           ~ui.left => ui'.twice \subseteq ui'.unsure
    PROVE  ScanInv'
<1> USE DEF ScanInv
<1>1. /\ s \in Scan!Save /\ s.saved \in BOOLEAN /\ s.mine \in BOOLEAN
      /\ t.saved \in BOOLEAN /\ t.mine \in BOOLEAN
  BY DEF Scan!TypeOK, Scan!Save
<1>2. \A d \in Way(s) : d.id \in ui.added
  BY DEF ScanRows
<1>3. Scan!TypeOK'
  BY <1>2 DEF Scan!TypeOK, ScanRows, Scan!OnlyAddedIsStored
<1>4. ScanRows'
  BY <1>2 DEF ScanRows, Scan!OnlyAddedIsStored
<1>5. Scan!WorkersEnd'
  BY DEF Scan!WorkersEnd
<1>6. ASSUME ~ui.left PROVE ScanOnce'
  <2>1. (\A p, q \in ui.saves : \A d \in Way(p), e \in Way(q) : d.id = e.id => p = q)'
    BY <1>6 DEF ScanOnce
  <2>2. (\A p \in ui.saves : \A d \in Way(p) : d.id \in ui.stored => d.id \in ui.unsure)'
    <3>1. ASSUME NEW p \in ui'.saves, NEW d \in Way(p), d.id \in ui'.stored \ ui.stored
          PROVE  d.id \in ui'.unsure
      <4>1. PICK e \in Way(s) : e.id = d.id
        BY <3>1
      <4>2. p = t
        BY <1>6, <4>1 DEF ScanOnce
      <4> QED BY <3>1, <4>2
    <3> QED BY <1>6, <3>1 DEF ScanOnce
  <2>3. (\A p \in ui.saves : ~p.mine => \A d \in Way(p), e \in ui.drafts : d.id # e.id)'
    BY <1>6 DEF ScanOnce
  <2>4. (/\ \A p, q \in ui.saves : p.mine /\ q.mine => p = q
         /\ \A p \in ui.saves : p.mine => ui.open /\ ui.step = "saving")'
    BY <1>6 DEF ScanOnce
  <2>5. (\A d \in ui.drafts : d.id \in ui.stored =>
            d.id \in ui.unsure \/ \E p \in ui.saves : p.mine /\ p.saved)'
    <3>1. ASSUME NEW d \in ui.drafts, d.id \in ui.stored, d.id \notin ui.unsure
          PROVE  \E p \in ui'.saves : p.mine /\ p.saved
      <4>1. PICK p \in ui.saves : p.mine /\ p.saved
        BY <1>6, <3>1 DEF ScanOnce
      <4>2. CASE p = s
        BY <4>1, <4>2
      <4>3. CASE p # s
        BY <4>1, <4>3
      <4> QED BY <4>2, <4>3
    <3>2. ASSUME NEW d \in ui.drafts, d.id \in ui'.stored \ ui.stored, d.id \notin ui'.unsure
          PROVE  t.mine /\ t.saved
      <4>1. PICK e \in Way(s) : e.id = d.id
        BY <3>2
      <4>2. s.mine
        BY <1>6, <4>1 DEF ScanOnce
      <4> QED BY <3>2, <4>2
    <3> QED BY <3>1, <3>2
  <2>6. (/\ ui.open /\ ui.scan # "none" => ui.step = "scanning" /\ ui.ocr = "recognizing"
         /\ ui.twice \subseteq ui.unsure)'
    BY <1>6 DEF ScanOnce
  <2> QED BY <2>1, <2>2, <2>3, <2>4, <2>5, <2>6 DEF ScanOnce
<1>7. ScanOnce'
  BY <1>6 DEF ScanOnce
<1> QED BY <1>3, <1>4, <1>5, <1>7

\* The modal goes, and what is being saved is no longer its own.
LEMMA ScanClosed ==
    ASSUME ScanInv, NEW saves \in SUBSET ui.saves, ui' = Scan!Closed(saves)
    PROVE  ScanInv'
<1> USE DEF ScanInv
<1>1. /\ (ui = ScanState)' /\ ui'.open = FALSE /\ ui'.drafts = {}
      /\ ui'.saves = {[s EXCEPT !.mine = FALSE] : s \in saves}
      /\ UNCHANGED <<ui.step, ui.ocr, ui.scan, ui.workers, ui.rows, ui.scans, ui.added,
                     ui.stored, ui.failures, ui.unsure, ui.twice, ui.left>>
  BY DEF Scan!Closed, ScanState
<1>2. ASSUME NEW p \in ui'.saves
      PROVE  \E s \in ui.saves : /\ p = [s EXCEPT !.mine = FALSE]
                                 /\ p \in Scan!Save /\ p.mine = FALSE
                                 /\ p.todo = s.todo /\ p.sending = s.sending
  <2>1. PICK s \in saves : p = [s EXCEPT !.mine = FALSE]
    BY <1>1
  <2>2. s \in Scan!Save
    BY DEF Scan!TypeOK
  <2>3. /\ p \in Scan!Save /\ p.mine = FALSE
        /\ p.todo = s.todo /\ p.sending = s.sending
    BY <2>1, <2>2 DEF Scan!Save
  <2> QED BY <2>1, <2>3
<1>3. Scan!TypeOK'
  BY <1>1, <1>2 DEF Scan!TypeOK
<1>4. Scan!WorkersEnd'
  BY <1>1 DEF Scan!WorkersEnd
<1>5. ScanRows'
  <2>1. ASSUME NEW p \in ui'.saves
        PROVE  /\ \A d \in Way(p) : d.id \in ui.added
               /\ \A d, e \in Way(p) : d.id = e.id => d = e
               /\ p.todo \cap p.sending = {}
    <3>1. PICK s \in ui.saves : p.todo = s.todo /\ p.sending = s.sending
      BY <1>2
    <3> QED BY <3>1 DEF ScanRows, Way
  <2> QED BY <1>1, <2>1 DEF ScanRows, Scan!OnlyAddedIsStored
<1>6. ASSUME ~ui.left PROVE ScanOnce'
  <2>1. ASSUME NEW p \in ui'.saves, NEW q \in ui'.saves,
               NEW d \in Way(p), NEW e \in Way(q), d.id = e.id
        PROVE  p = q
    <3>1. PICK s \in ui.saves : p = [s EXCEPT !.mine = FALSE] /\ Way(p) = Way(s)
      BY <1>2 DEF Way
    <3>2. PICK t \in ui.saves : q = [t EXCEPT !.mine = FALSE] /\ Way(q) = Way(t)
      BY <1>2 DEF Way
    <3>3. s = t
      BY <1>6, <2>1, <3>1, <3>2 DEF ScanOnce
    <3> QED BY <3>1, <3>2, <3>3
  <2>2. ASSUME NEW p \in ui'.saves, NEW d \in Way(p), d.id \in ui.stored
        PROVE  d.id \in ui.unsure
    BY <1>2, <1>6, <2>2 DEF ScanOnce, Way
  <2> QED BY <1>1, <1>2, <1>6, <2>1, <2>2 DEF ScanOnce
<1>7. ScanOnce'
  BY <1>1, <1>6 DEF ScanOnce
<1> QED BY <1>1, <1>3, <1>4, <1>5, <1>7

\* What the scan does without touching what is saved; other drafts have new ids.
LEMMA ScanReading ==
    ASSUME ScanInv,
           (ui = ScanState)',
           UNCHANGED <<ui.open, ui.saves, ui.stored, ui.added, ui.unsure, ui.twice, ui.left>>,
           ui'.workers \subseteq [n : 1..MaxScans, waited : BOOLEAN, loaded : BOOLEAN],
           ui'.step \in {"pick", "scanning", "review", "saving"},
           ui'.ocr \in {"idle", "recognizing", "done", "error"},
           ui'.scan \in {"none", "loading", "reading"},
           ui'.rows \in 0..MaxRows, ui.rows <= ui'.rows, ui'.scans \in 0..MaxScans,
           Scan!WorkersEnd',
           ui'.drafts \subseteq Scan!Draft,
           \A d, e \in ui'.drafts : d.id = e.id => d = e,
           \A d \in ui'.drafts :
              \/ ui.rows < d.id /\ d.id <= ui'.rows
              \/ \E e \in ui.drafts : e.id = d.id,
           ~ui.left => (\A s \in ui.saves : s.mine => ui'.step = ui.step),
           ~ui.left => (ui.open /\ ui'.scan # "none"
                           => ui'.step = "scanning" /\ ui'.ocr = "recognizing")
    PROVE  ScanInv'
<1> USE DEF ScanInv
<1>1. Scan!TypeOK'
  BY DEF Scan!TypeOK
<1>2. ui.rows \in Nat /\ ui'.rows \in Nat /\ \A d \in ui.drafts \cup ui'.drafts : d.id \in Nat
  BY BoundsAreNatural DEF Scan!TypeOK, Scan!Draft
<1>3. \A i \in ui.added : i \in Nat /\ i <= ui.rows
  BY BoundsAreNatural DEF Scan!TypeOK, ScanRows
<1>4. ScanRows'
  BY <1>2, <1>3 DEF ScanRows, Scan!OnlyAddedIsStored
<1>5. ASSUME ~ui.left PROVE ScanOnce'
  <2>1. \A s \in ui.saves : \A d \in Way(s) : d.id \in Nat /\ d.id <= ui.rows
    BY <1>3 DEF ScanRows
  <2>2. \A i \in ui.stored : i \in Nat /\ i <= ui.rows
    BY <1>3 DEF ScanRows, Scan!OnlyAddedIsStored
  <2>3. (\A s \in ui.saves : ~s.mine => \A d \in Way(s), e \in ui.drafts : d.id # e.id)'
    BY <1>2, <1>5, <2>1 DEF ScanOnce
  <2>4. (\A d \in ui.drafts : d.id \in ui.stored =>
            d.id \in ui.unsure \/ \E s \in ui.saves : s.mine /\ s.saved)'
    BY <1>2, <1>5, <2>2 DEF ScanOnce
  <2>5. (\A s \in ui.saves : s.mine => ui.open /\ ui.step = "saving")'
    BY <1>5 DEF ScanOnce
  <2> QED BY <1>5, <2>3, <2>4, <2>5 DEF ScanOnce
<1>6. ScanOnce'
  BY <1>5 DEF ScanOnce
<1> QED BY <1>1, <1>4, <1>6

LEMMA ScanKeeps == ScanInv /\ [Scan!Next]_ui => ScanInv'
<1> SUFFICES ASSUME ScanInv, [Scan!Next]_ui PROVE ScanInv'
  OBVIOUS
<1> USE DEF ScanInv
<1>0. /\ ui.open \in BOOLEAN /\ ui.left \in BOOLEAN
      /\ ui.step \in {"pick", "scanning", "review", "saving"}
      /\ ui.drafts \subseteq Scan!Draft /\ ui.saves \subseteq Scan!Save
      /\ ui.workers \subseteq [n : 1..MaxScans, waited : BOOLEAN, loaded : BOOLEAN]
      /\ \A d \in ui.drafts : d.id \in 1..MaxRows
  BY DEF Scan!TypeOK, Scan!Draft
<1>1. CASE Scan!handleFileChosen
  <2>0. PICK new : new = [n |-> ui.scans + 1, waited |-> TRUE, loaded |-> FALSE]
    OBVIOUS
  <2>1. /\ ui' = [ui EXCEPT !.step = "scanning", !.ocr = "recognizing", !.scan = "loading",
                            !.scans = ui.scans + 1, !.workers = ui.workers \cup {new}]
        /\ ui.open /\ ui.step = "pick" /\ ui.scans < MaxScans
    BY <1>1, <2>0 DEF Scan!handleFileChosen
  <2>2. (ui = ScanState)'
    BY <2>1 DEF ScanState
  <2>3. /\ ui'.scans \in 0..MaxScans /\ ui'.rows \in 0..MaxRows /\ ui.rows <= ui'.rows
        /\ new \in [n : 1..MaxScans, waited : BOOLEAN, loaded : BOOLEAN]
    BY <2>0, <2>1, BoundsAreNatural
  <2>4. Scan!WorkersEnd'
    BY <2>1 DEF Scan!WorkersEnd
  <2>5. ~ui.left => \A s \in ui.saves : ~s.mine
    BY <2>1 DEF ScanOnce
  <2>6. /\ UNCHANGED <<ui.open, ui.saves, ui.stored, ui.added, ui.unsure, ui.twice, ui.left,
                       ui.drafts>>
        /\ ui'.workers = ui.workers \cup {new}
        /\ ui'.step = "scanning" /\ ui'.ocr = "recognizing" /\ ui'.scan = "loading"
    BY <2>1 DEF ScanState
  <2>7. ui'.workers \subseteq [n : 1..MaxScans, waited : BOOLEAN, loaded : BOOLEAN]
    BY <1>0, <2>3, <2>6
  <2> QED BY <1>0, <2>2, <2>3, <2>4, <2>5, <2>6, <2>7, ScanReading DEF Scan!TypeOK
<1>2. CASE Scan!Timeout
  <2>1. ui' = [ui EXCEPT !.scan = "none", !.ocr = "error", !.workers = Scan!Terminated]
    BY <1>2 DEF Scan!Timeout, Scan!Failed
  <2>2. (ui = ScanState)'
    BY <2>1 DEF ScanState
  <2>3. /\ Scan!Terminated \subseteq [n : 1..MaxScans, waited : BOOLEAN, loaded : BOOLEAN]
        /\ \A w \in Scan!Terminated : ~w.waited
    BY <1>0 DEF Scan!Terminated
  <2>4. Scan!WorkersEnd'
    BY <2>1, <2>3 DEF Scan!WorkersEnd
  <2>5. ui'.rows \in 0..MaxRows /\ ui.rows <= ui'.rows
    BY <2>1, BoundsAreNatural
  <2> QED BY <1>0, <2>1, <2>2, <2>3, <2>4, <2>5, ScanReading DEF Scan!TypeOK
<1>3. ASSUME NEW w \in ui.workers, Scan!WorkerLoaded(w) PROVE ScanInv'
  <2>0. PICK new : new = [w EXCEPT !.loaded = TRUE]
    OBVIOUS
  <2>1. ui' = [ui EXCEPT !.workers = (ui.workers \ {w}) \cup {new},
                         !.scan = IF w.waited THEN "reading" ELSE ui.scan]
    BY <1>3, <2>0 DEF Scan!WorkerLoaded
  <2>2. (ui = ScanState)'
    BY <2>1 DEF ScanState
  <2>3. /\ new \in [n : 1..MaxScans, waited : BOOLEAN, loaded : BOOLEAN]
        /\ new.waited = w.waited /\ w.waited \in BOOLEAN
    BY <1>0, <2>0
  <2>4. /\ w.waited => ui.scan # "none"
        /\ ui'.scan \in {"none", "loading", "reading"}
        /\ ui'.scan # "none" => ui.scan # "none"
    BY <2>1, <2>3 DEF Scan!WorkersEnd, Scan!TypeOK
  <2>5. Scan!WorkersEnd'
    BY <2>1, <2>3, <2>4 DEF Scan!WorkersEnd
  <2>6. ui'.rows \in 0..MaxRows /\ ui.rows <= ui'.rows
    BY <2>1, BoundsAreNatural
  <2>7. ~ui.left => (ui.open /\ ui'.scan # "none"
                        => ui.step = "scanning" /\ ui.ocr = "recognizing")
    BY <2>4 DEF ScanOnce
  <2> QED BY <1>0, <2>1, <2>2, <2>3, <2>4, <2>5, <2>6, <2>7, ScanReading DEF Scan!TypeOK
<1>4. ASSUME NEW k \in 0..MaxRows, Scan!Recognized(k) PROVE ScanInv'
  <2>1. PICK valid \in [ui.rows + 1..ui.rows + k -> BOOLEAN] :
          ui' = [ui EXCEPT !.scan = "none", !.ocr = "done", !.workers = Scan!Terminated,
                           !.rows = ui.rows + k, !.step = "review",
                           !.drafts = {[id |-> i, include |-> TRUE, valid |-> valid[i]] :
                                          i \in ui.rows + 1..ui.rows + k}]
    BY <1>4 DEF Scan!Recognized
  <2>2. (ui = ScanState)'
    BY <2>1 DEF ScanState
  <2>3. /\ Scan!Terminated \subseteq [n : 1..MaxScans, waited : BOOLEAN, loaded : BOOLEAN]
        /\ \A w \in Scan!Terminated : ~w.waited
    BY <1>0 DEF Scan!Terminated
  <2>4. Scan!WorkersEnd'
    BY <2>1, <2>3 DEF Scan!WorkersEnd
  <2>5. /\ ui'.rows = ui.rows + k /\ ui.rows + k <= MaxRows /\ ui.rows \in Nat /\ k \in Nat
        /\ ui.scan = "reading"
    BY <1>4, <2>1, BoundsAreNatural DEF Scan!Recognized
  <2>6. /\ ui'.drafts \subseteq Scan!Draft
        /\ \A d, e \in ui'.drafts : d.id = e.id => d = e
        /\ \A d \in ui'.drafts : ui.rows < d.id /\ d.id <= ui'.rows
    <3>1. \A i \in ui.rows + 1..ui.rows + k :
             i \in 1..MaxRows /\ valid[i] \in BOOLEAN /\ ui.rows < i /\ i <= ui.rows + k
      BY <2>5, BoundsAreNatural
    <3>2. ui'.drafts = {[id |-> i, include |-> TRUE, valid |-> valid[i]] :
                           i \in ui.rows + 1..ui.rows + k}
      BY <2>1
    <3>3. \A d \in ui'.drafts :
             /\ d.id \in ui.rows + 1..ui.rows + k
             /\ d = [id |-> d.id, include |-> TRUE, valid |-> valid[d.id]]
      BY <3>2
    <3>4. ui'.drafts \subseteq Scan!Draft
      <4> SUFFICES ASSUME NEW d \in ui'.drafts PROVE d \in Scan!Draft
        OBVIOUS
      <4>1. PICK i \in ui.rows + 1..ui.rows + k :
               d = [id |-> i, include |-> TRUE, valid |-> valid[i]]
        BY <3>2
      <4>2. i \in 1..MaxRows
        BY <3>1
      <4>3. valid[i] = TRUE \/ valid[i] = FALSE
        BY Zenon
      <4>4. CASE valid[i] = TRUE
        BY <4>1, <4>2, <4>4 DEF Scan!Draft
      <4>5. CASE valid[i] = FALSE
        BY <4>1, <4>2, <4>5 DEF Scan!Draft
      <4> QED BY <4>3, <4>4, <4>5
    <3>5. \A d, e \in ui'.drafts : d.id = e.id => d = e
      BY <3>3
    <3> QED BY <2>5, <3>1, <3>3, <3>4, <3>5
  <2>7. ui'.rows \in 0..MaxRows /\ ui.rows <= ui'.rows
    BY <2>5, BoundsAreNatural
  <2>8. ~ui.left => \A s \in ui.saves : ~s.mine
    BY <2>5 DEF ScanOnce
  <2> QED BY <1>0, <2>1, <2>2, <2>3, <2>4, <2>6, <2>7, <2>8, ScanReading DEF Scan!TypeOK
<1>5. CASE Scan!PickAgain
  <2>1. ui' = [ui EXCEPT !.step = "pick", !.left = (ui.left \/ ui.step = "saving")]
    BY <1>5 DEF Scan!PickAgain
  <2>2. (ui = ScanState)'
    BY <2>1 DEF ScanState
  <2>3. Scan!TypeOK' /\ ui'.rows \in 0..MaxRows /\ ui'.scans \in 0..MaxScans
    BY <2>1 DEF Scan!TypeOK
  <2>4. Scan!WorkersEnd' /\ ScanRows'
    BY <2>1 DEF Scan!WorkersEnd, ScanRows, Scan!OnlyAddedIsStored
  <2>5. ui'.left \in BOOLEAN /\ (~ui'.left => ~ui.left /\ ui.step # "saving")
    <3>1. ui'.left = (ui.left \/ ui.step = "saving")
      BY <2>1
    <3>2. ui'.left = TRUE \/ ui'.left = FALSE
      BY <3>1, Zenon
    <3>3. ~ui'.left => ~ui.left /\ ui.step # "saving"
      BY <3>1, Zenon
    <3> QED BY <3>2, <3>3
  <2>6. ~ui.left /\ ui.open /\ ui.scan # "none" => ui.step = "scanning" /\ ui.ocr # "error"
    BY DEF ScanOnce
  <2>7. ~ui.left /\ ui.open => ui.scan = "none"
    BY <1>5, <2>6 DEF Scan!PickAgain, Scan!InReview
  <2>8. ScanOnce'
    BY <2>1, <2>5, <2>7 DEF ScanOnce
  <2> QED BY <2>2, <2>3, <2>4, <2>5, <2>8
<1>6. CASE Scan!Close
  BY <1>6, ScanClosed DEF Scan!Close
<1>7. CASE Scan!Open
  <2>1. /\ ui' = [ui EXCEPT !.open = TRUE, !.step = "pick", !.ocr = "idle"]
        /\ ~ui.open /\ ui.scan = "none"
    BY <1>7 DEF Scan!Open
  <2>2. (ui = ScanState)'
    BY <2>1 DEF ScanState
  <2>3. Scan!TypeOK' /\ ui'.rows \in 0..MaxRows /\ ui'.scans \in 0..MaxScans
    BY <2>1 DEF Scan!TypeOK
  <2>4. Scan!WorkersEnd' /\ ScanRows'
    BY <2>1 DEF Scan!WorkersEnd, ScanRows, Scan!OnlyAddedIsStored
  <2>5. ScanOnce'
    BY <2>1 DEF ScanOnce
  <2> QED BY <2>1, <2>2, <2>3, <2>4, <2>5
<1>8. CASE Scan!handleConfirm
  <2>0. PICK new : new = [todo |-> Scan!Included, saved |-> FALSE, mine |-> TRUE,
                          sending |-> {}]
    OBVIOUS
  <2>1. /\ ui' = [ui EXCEPT !.step = "saving",
                            !.added = ui.added \cup {d.id : d \in Scan!Included},
                            !.saves = ui.saves \cup {new}]
        /\ ui.open /\ ui.step = "review"
    BY <1>8, <2>0 DEF Scan!handleConfirm
  <2>2. (ui = ScanState)'
    BY <2>1 DEF ScanState
  <2>3. Scan!Included \subseteq ui.drafts
    BY DEF Scan!Included
  <2>4. /\ new \in Scan!Save /\ Way(new) = Scan!Included /\ new.mine = TRUE
        /\ new.todo \cap new.sending = {}
    BY <1>0, <2>0, <2>3 DEF Scan!Save, Way
  <2>5. Scan!TypeOK' /\ ui'.rows \in 0..MaxRows /\ ui'.scans \in 0..MaxScans
    <3>1. ui'.saves \subseteq Scan!Save
      BY <1>0, <2>1, <2>4
    <3>2. ui'.added \subseteq 1..MaxRows
      BY <1>0, <2>1, <2>3 DEF Scan!TypeOK
    <3>3. /\ UNCHANGED <<ui.open, ui.drafts, ui.ocr, ui.scan, ui.workers, ui.stored,
                         ui.unsure, ui.twice, ui.rows, ui.scans>>
          /\ ui'.step = "saving"
      BY <2>1 DEF ScanState
    <3> QED BY <3>1, <3>2, <3>3 DEF Scan!TypeOK
  <2>6. Scan!WorkersEnd'
    BY <2>1 DEF Scan!WorkersEnd
  <2>7. ScanRows'
    <3>1. \A d, e \in Way(new) : d.id = e.id => d = e
      BY <2>3, <2>4 DEF Scan!TypeOK
    <3>2. \A d \in Way(new) : d.id \in ui'.added
      BY <2>1, <2>4
    <3>3. \A i \in ui'.added : i <= ui.rows
      BY <2>1, <2>3 DEF ScanRows
    <3> QED BY <2>1, <2>4, <3>1, <3>2, <3>3 DEF ScanRows, Scan!OnlyAddedIsStored
  <2>8. ASSUME ~ui.left PROVE ScanOnce'
    <3>1. \A s \in ui.saves : ~s.mine /\ \A d \in Way(s), e \in Way(new) : d.id # e.id
      BY <2>1, <2>3, <2>4, <2>8 DEF ScanOnce
    <3>2. \A d \in ui.drafts : d.id \in ui.stored => d.id \in ui.unsure
      BY <2>1, <2>8, <3>1 DEF ScanOnce
    <3>3. ui.scan = "none"
      BY <2>1, <2>8 DEF ScanOnce
    <3>4. (\A s, t \in ui.saves : \A d \in Way(s), e \in Way(t) : d.id = e.id => s = t)'
      BY <2>1, <2>8, <3>1 DEF ScanOnce
    <3>5. (/\ \A s \in ui.saves : \A d \in Way(s) : d.id \in ui.stored => d.id \in ui.unsure
           /\ \A d \in ui.drafts : d.id \in ui.stored =>
                 d.id \in ui.unsure \/ \E s \in ui.saves : s.mine /\ s.saved)'
      BY <2>1, <2>3, <2>4, <2>8, <3>2 DEF ScanOnce
    <3>6. (/\ \A s \in ui.saves : ~s.mine => \A d \in Way(s), e \in ui.drafts : d.id # e.id
           /\ \A s, t \in ui.saves : s.mine /\ t.mine => s = t
           /\ \A s \in ui.saves : s.mine => ui.open /\ ui.step = "saving")'
      BY <2>1, <2>4, <2>8, <3>1 DEF ScanOnce
    <3> QED BY <2>1, <2>8, <3>3, <3>4, <3>5, <3>6 DEF ScanOnce
  <2>9. ScanOnce'
    BY <2>1, <2>8 DEF ScanOnce
  <2> QED BY <2>1, <2>2, <2>5, <2>6, <2>7, <2>9
<1>9. ASSUME NEW d \in ui.drafts, Scan!removeDraft(d) PROVE ScanInv'
  <2>1. ui' = [ui EXCEPT !.drafts = ui.drafts \ {d}]
    BY <1>9 DEF Scan!removeDraft
  <2>2. (ui = ScanState)'
    BY <2>1 DEF ScanState
  <2>3. Scan!WorkersEnd'
    BY <2>1 DEF Scan!WorkersEnd
  <2>4. ui'.rows \in 0..MaxRows /\ ui.rows <= ui'.rows
    BY <2>1, BoundsAreNatural
  <2>5. ~ui.left => (ui.open /\ ui'.scan # "none"
                        => ui'.step = "scanning" /\ ui'.ocr = "recognizing")
    BY <2>1 DEF ScanOnce
  <2> QED BY <1>0, <2>1, <2>2, <2>3, <2>4, <2>5, ScanReading DEF Scan!TypeOK
<1>10. ASSUME NEW d \in ui.drafts, NEW e \in Scan!Draft, Scan!updateDraft(d, e) PROVE ScanInv'
  <2>1. ui' = [ui EXCEPT !.drafts = (ui.drafts \ {d}) \cup {e}] /\ e.id = d.id
    BY <1>10 DEF Scan!updateDraft
  <2>2. (ui = ScanState)'
    BY <2>1 DEF ScanState
  <2>3. Scan!WorkersEnd'
    BY <2>1 DEF Scan!WorkersEnd
  <2>4. ui'.rows \in 0..MaxRows /\ ui.rows <= ui'.rows
    BY <2>1, BoundsAreNatural
  <2>5. ~ui.left => (ui.open /\ ui'.scan # "none"
                        => ui'.step = "scanning" /\ ui'.ocr = "recognizing")
    BY <2>1 DEF ScanOnce
  <2> QED BY <1>0, <2>1, <2>2, <2>3, <2>4, <2>5, ScanReading DEF Scan!TypeOK
<1>11. ASSUME NEW s \in ui.saves, NEW d \in s.todo, Scan!NextRow(s, d) PROVE ScanInv'
  <2>0. PICK t : t = [s EXCEPT !.todo = s.todo \ {d}, !.sending = IF d.valid THEN {d} ELSE {}]
    OBVIOUS
  <2>1. ui' = [ui EXCEPT !.saves = (ui.saves \ {s}) \cup {t}] /\ s.sending = {}
    BY <1>11, <2>0 DEF Scan!NextRow, Scan!Become
  <2>2. (ui = ScanState)'
    BY <2>1 DEF ScanState
  <2>3. /\ t \in Scan!Save /\ t.mine = s.mine /\ t.saved = s.saved
        /\ Way(t) \subseteq Way(s) /\ t.todo \cap t.sending = {}
    BY <1>0, <2>0 DEF Scan!Save, Way
  <2>4. ~ui.left => ui.twice \subseteq ui.unsure
    BY DEF ScanOnce
  <2> QED BY <2>1, <2>2, <2>3, <2>4, ScanSaving DEF Scan!TypeOK
<1>12. ASSUME NEW s \in ui.saves, NEW d \in s.sending, Scan!RowStored(s, d) PROVE ScanInv'
  <2>0. PICK t : t = [s EXCEPT !.sending = {}, !.saved = TRUE]
    OBVIOUS
  <2>1. ui' = [ui EXCEPT !.saves = (ui.saves \ {s}) \cup {t},
                         !.twice = IF d.id \in ui.stored THEN ui.twice \cup {d.id} ELSE ui.twice,
                         !.stored = ui.stored \cup {d.id}]
    BY <1>12, <2>0 DEF Scan!RowStored, Scan!Become
  <2>2. (ui = ScanState)'
    BY <2>1 DEF ScanState
  <2>3. s \in Scan!Save /\ s.sending = {d}
    BY <1>0 DEF Scan!Save
  <2>4. /\ t \in Scan!Save /\ t.mine = s.mine /\ t.saved
        /\ Way(t) = s.todo /\ t.todo \cap t.sending = {} /\ d \in Way(s)
    BY <2>0, <2>3 DEF Scan!Save, Way
  <2>5. \A e \in Way(t) : e \in Way(s) /\ e.id # d.id
    BY <2>3, <2>4 DEF ScanRows, Way
  <2>6. d.id \in 1..MaxRows
    BY <2>4 DEF ScanRows, Scan!TypeOK
  <2>7. ~ui.left => ui'.twice \subseteq ui.unsure
    BY <2>1, <2>4 DEF ScanOnce
  <2> QED BY <2>1, <2>2, <2>4, <2>5, <2>6, <2>7, ScanSaving DEF Scan!TypeOK
<1>13. ASSUME NEW s \in ui.saves, NEW d \in s.sending, Scan!RowLost(s, d) PROVE ScanInv'
  <2>0. PICK t : t = [s EXCEPT !.sending = {}]
    OBVIOUS
  <2>1. PICK after \in {ui.stored, ui.stored \cup {d.id}} :
          ui' = [ui EXCEPT !.saves = (ui.saves \ {s}) \cup {t},
                           !.twice = IF d.id \in ui.stored \cap after THEN ui.twice \cup {d.id}
                                     ELSE ui.twice,
                           !.stored = after, !.unsure = ui.unsure \cup {d.id},
                           !.failures = ui.failures + 1]
    BY <1>13, <2>0 DEF Scan!RowLost, Scan!Become
  <2>2. (ui = ScanState)'
    BY <2>1 DEF ScanState
  <2>3. s \in Scan!Save /\ s.sending = {d}
    BY <1>0 DEF Scan!Save
  <2>4. /\ t \in Scan!Save /\ t.mine = s.mine /\ t.saved = s.saved
        /\ Way(t) = s.todo /\ t.todo \cap t.sending = {} /\ d \in Way(s)
        /\ Way(t) \subseteq Way(s)
    BY <2>0, <2>3 DEF Scan!Save, Way
  <2>5. d.id \in 1..MaxRows
    BY <2>4 DEF ScanRows, Scan!TypeOK
  <2>6. ~ui.left => ui'.twice \subseteq ui'.unsure
    BY <2>1, <2>4 DEF ScanOnce
  <2> QED BY <2>1, <2>2, <2>4, <2>5, <2>6, ScanSaving DEF Scan!TypeOK
<1>14. ASSUME NEW s \in ui.saves, Scan!Saved(s) PROVE ScanInv'
  <2>1. CASE s.saved
    BY <1>14, <2>1, ScanClosed DEF Scan!Saved
  <2>2. CASE ~s.saved
    <3>1. /\ ui' = [ui EXCEPT !.saves = ui.saves \ {s},
                              !.step = IF s.mine THEN "review" ELSE ui.step]
          /\ Way(s) = {}
      BY <1>14, <2>2 DEF Scan!Saved, Way
    <3>2. (ui = ScanState)'
      BY <3>1 DEF ScanState
    <3>3. Scan!TypeOK' /\ ui'.rows \in 0..MaxRows /\ ui'.scans \in 0..MaxScans
      BY <3>1 DEF Scan!TypeOK
    <3>4. Scan!WorkersEnd' /\ ScanRows'
      BY <3>1 DEF Scan!WorkersEnd, ScanRows, Scan!OnlyAddedIsStored
    <3>5. ASSUME ~ui.left PROVE ScanOnce'
      <4>1. s.mine => ui.open /\ ui.step = "saving" /\ ui.scan = "none"
        BY <3>5 DEF ScanOnce
      <4>2. \A t \in ui'.saves : t.mine => ui'.step = ui.step
        BY <3>1, <3>5 DEF ScanOnce
      <4>3. \A t \in ui.saves : t.mine /\ t.saved => t \in ui'.saves
        BY <2>2, <3>1
      <4>4. ui.open /\ ui.scan # "none" => ui'.step = "scanning" /\ ui.ocr = "recognizing"
        BY <3>1, <3>5, <4>1 DEF ScanOnce
      <4> QED BY <3>1, <3>5, <4>2, <4>3, <4>4 DEF ScanOnce
    <3>6. ScanOnce'
      BY <3>1, <3>5 DEF ScanOnce
    <3> QED BY <3>1, <3>2, <3>3, <3>4, <3>6
  <2>3. s.saved \in BOOLEAN
    BY <1>0 DEF Scan!Save
  <2> QED BY <2>1, <2>2, <2>3
<1>15. CASE UNCHANGED ui
  BY <1>15 DEF ScanState, Scan!TypeOK, Scan!WorkersEnd, ScanRows, ScanOnce,
               Scan!OnlyAddedIsStored
<1> QED BY <1>1, <1>2, <1>3, <1>4, <1>5, <1>6, <1>7, <1>8, <1>9, <1>10, <1>11, <1>12, <1>13,
           <1>14, <1>15 DEF Scan!Next

-----------------------------------------------------------------------------
(* Forms that choose a category                                             *)

CategoryState == [form |-> ui.form, loaded |-> ui.loaded, lists |-> ui.lists,
                  type |-> ui.type, category |-> ui.category, budgeted |-> ui.budgeted,
                  saving |-> ui.saving, edits |-> ui.edits, sent |-> ui.sent,
                  shown |-> ui.shown, sentChosen |-> ui.sentChosen, asked |-> ui.asked,
                  chosen |-> ui.chosen, removed |-> ui.removed]

\* Lists that name no category twice.
NameLists == {s \in Seq(Category!Names) : Category!IsInjective(s)}

\* A recurring entry's category stays one of its list, until one is removed.
RecurringRight ==
    ui.form = "recurring" /\ ~ui.removed =>
        /\ \A t \in Category!Types :
              Category!ToSet(ui.lists[t]) \subseteq Category!ToSet(ui.loaded[t])
        /\ ui.category # None => ui.category \in Category!ToSet(ui.lists[ui.type])
        /\ ui.sent = ui.shown /\ ~ui.asked

\* A category that was chosen for a budget has none yet, and only budgets give one.
BudgetRight ==
    /\ ui.form # "budget" => ui.budgeted = {}
    /\ ui.form = "budget" /\ ui.saving => ui.sent \in Category!Names
    /\ ui.form = "budget" /\ ui.chosen => ui.category \notin ui.budgeted
    /\ Category!BudgetsAreDistinct

CategoryInv ==
    /\ ui = CategoryState
    /\ Category!TypeOK
    /\ ui.lists \in [Category!Types -> NameLists] /\ ui.loaded \in [Category!Types -> NameLists]
    /\ {ui.saving, ui.sentChosen, ui.asked, ui.chosen, ui.removed} \subseteq BOOLEAN
    /\ RecurringRight
    /\ BudgetRight

LEMMA ListsAreNameLists ==
    ASSUME NEW S \in SUBSET Category!Names, NEW s \in Category!Lists(S)
    PROVE  s \in NameLists
BY DEF Category!Lists, Category!SeqOf, NameLists

\* An empty list has no first element, any other one of its names.
LEMMA FirstOfList ==
    ASSUME NEW s \in NameLists
    PROVE  /\ Category!First(s) \in Category!Names \cup {None}
           /\ Category!First(s) # None => Category!First(s) \in Category!ToSet(s)
BY DEF Category!First, NameLists, Category!ToSet

LEMMA AppendedList ==
    ASSUME NEW s \in NameLists, NEW c \in Category!Names, c \notin Category!ToSet(s)
    PROVE  /\ Append(s, c) \in NameLists
           /\ Category!ToSet(s) \subseteq Category!ToSet(Append(s, c))
<1> DEFINE t == Append(s, c)
<1>1. /\ s \in Seq(Category!Names) /\ t \in Seq(Category!Names) /\ Len(t) = Len(s) + 1
      /\ Len(s) \in Nat /\ t[Len(s) + 1] = c /\ \A i \in 1..Len(s) : t[i] = s[i]
      /\ DOMAIN s = 1..Len(s) /\ DOMAIN t = 1..Len(t)
  BY DEF NameLists
<1> HIDE DEF t
<1>2. \A i \in 1..Len(s) : s[i] # c
  BY <1>1 DEF Category!ToSet
<1>3. Category!IsInjective(s)
  BY DEF NameLists
<1>4. Category!IsInjective(t)
  BY <1>1, <1>2, <1>3 DEF Category!IsInjective
<1>5. Category!ToSet(s) \subseteq Category!ToSet(t)
  BY <1>1 DEF Category!ToSet
<1> QED BY <1>1, <1>4, <1>5 DEF NameLists, t

LEMMA RemovedFromList ==
    ASSUME NEW s \in NameLists, NEW i \in DOMAIN s
    PROVE  Category!RemoveAt(s, i) \in NameLists
<1> DEFINE a == SubSeq(s, 1, i - 1)
           b == SubSeq(s, i + 1, Len(s))
           t == a \o b
<1>1. /\ s \in Seq(Category!Names) /\ i \in 1..Len(s) /\ Len(s) \in Nat
      /\ DOMAIN s = 1..Len(s)
  BY DEF NameLists
<1>2. /\ a \in Seq(Category!Names) /\ Len(a) = i - 1 /\ \A j \in 1..i - 1 : a[j] = s[j]
  BY <1>1
<1>3. /\ b \in Seq(Category!Names) /\ Len(b) = Len(s) - i
      /\ \A j \in 1..Len(s) - i : b[j] = s[i + j]
  <2>1. CASE i = Len(s)
    BY <1>1, <2>1
  <2>2. CASE i < Len(s)
    BY <1>1, <2>2
  <2> QED BY <1>1, <2>1, <2>2
<1> HIDE DEF a, b
<1>4. /\ t \in Seq(Category!Names) /\ Len(t) = Len(s) - 1
      /\ \A j \in 1..Len(s) - 1 : t[j] = IF j < i THEN s[j] ELSE s[j + 1]
  <2>1. /\ t \in Seq(Category!Names) /\ Len(t) = Len(a) + Len(b)
        /\ \A j \in 1..Len(a) + Len(b) : t[j] = IF j <= Len(a) THEN a[j] ELSE b[j - Len(a)]
    BY <1>2, <1>3, ConcatProperties
  <2>2. Len(t) = Len(s) - 1
    BY <1>1, <1>2, <1>3, <2>1
  <2> HIDE DEF t
  <2>3. ASSUME NEW j \in 1..Len(s) - 1 PROVE t[j] = IF j < i THEN s[j] ELSE s[j + 1]
    <3>1. CASE j < i
      BY <1>1, <1>2, <1>3, <2>1, <3>1
    <3>2. CASE ~(j < i)
      <4>1. j - (i - 1) \in 1..Len(s) - i /\ i + (j - (i - 1)) = j + 1 /\ ~(j <= i - 1)
        BY <1>1, <3>2
      <4>2. t[j] = b[j - (i - 1)]
        <5>1. Len(a) = i - 1 /\ j \in 1..Len(a) + Len(b) /\ ~(j <= Len(a))
          BY <1>1, <1>2, <1>3, <4>1
        <5> QED BY <2>1, <5>1
      <4> QED BY <1>3, <3>2, <4>1, <4>2
    <3> QED BY <3>1, <3>2
  <2> QED BY <2>1, <2>2, <2>3
<1> HIDE DEF t
<1>5. Category!IsInjective(s)
  BY DEF NameLists
<1>6. ASSUME NEW j \in 1..Len(s) - 1, NEW k \in 1..Len(s) - 1, t[j] = t[k] PROVE j = k
  <2>1. PICK x \in 1..Len(s) : x = IF j < i THEN j ELSE j + 1
    BY <1>1
  <2>2. PICK y \in 1..Len(s) : y = IF k < i THEN k ELSE k + 1
    BY <1>1
  <2>3. t[j] = s[x] /\ t[k] = s[y]
    BY <1>4, <2>1, <2>2
  <2>4. x = y
    BY <1>1, <1>5, <1>6, <2>3 DEF Category!IsInjective
  <2> QED BY <1>1, <2>1, <2>2, <2>4
<1>7. DOMAIN t = 1..Len(s) - 1
  BY <1>1, <1>4
<1>8. Category!IsInjective(t)
  BY <1>6, <1>7 DEF Category!IsInjective
<1> QED BY <1>4, <1>8 DEF NameLists, Category!RemoveAt, t, a, b

LEMMA CategoryStarts == Category!Init => CategoryInv
<1> SUFFICES ASSUME Category!Init PROVE CategoryInv
  OBVIOUS
<1>1. PICK expense \in Category!Lists(Expense), income \in Category!Lists(Income) :
        LET loaded == [expense |-> expense, income |-> income]
            none == [expense |-> <<>>, income |-> <<>>]
        IN  \/ \E lists \in {none, loaded} :
                  ui = Category!Mounted("entry", loaded, lists, "expense",
                                        Category!First(lists.expense))
            \/ ui = Category!Mounted("budget", loaded, loaded, "expense",
                                     Category!First(expense))
            \/ ui = Category!Mounted("recurring", loaded, loaded, "expense", None)
            \/ \E type \in Category!Types :
                  \E c \in IF type = "expense" THEN Expense ELSE Income :
                     ui = Category!Mounted("row", loaded, loaded, type, c)
  BY DEF Category!Init
<1>2. PICK loaded, none : /\ loaded = [expense |-> expense, income |-> income]
                          /\ none = [expense |-> <<>>, income |-> <<>>]
  OBVIOUS
<1>3. /\ expense \in NameLists /\ income \in NameLists /\ <<>> \in NameLists
  <2>1. expense \in NameLists /\ income \in NameLists
    BY ListsAreNameLists DEF Category!Names
  <2>2. <<>> \in NameLists
    BY DEF NameLists, Category!IsInjective
  <2> QED BY <2>1, <2>2
<1>4. loaded \in [Category!Types -> NameLists] /\ none \in [Category!Types -> NameLists]
  BY <1>2, <1>3 DEF Category!Types
<1>5. PICK form \in Category!Forms, lists \in {none, loaded}, type \in Category!Types,
           category \in Category!Names \cup {None} :
        /\ ui = Category!Mounted(form, loaded, lists, type, category)
        /\ form = "budget" => type = "expense"
        /\ form = "recurring" => category = None /\ lists = loaded
  <2>1. /\ Category!First(expense) \in Category!Names \cup {None}
        /\ Category!First(<<>>) \in Category!Names \cup {None}
        /\ loaded.expense = expense /\ none.expense = <<>>
    BY <1>2, <1>3, FirstOfList
  <2> QED BY <1>1, <1>2, <2>1 DEF Category!Forms, Category!Types, Category!Names
<1>6. (ui = CategoryState) /\ ui.loaded = loaded /\ ui.lists = lists /\ ui.form = form
      /\ ui.type = type /\ ui.category = category /\ ui.budgeted = {}
      /\ ui.saving = FALSE /\ ui.sent = None /\ ui.shown = None /\ ui.sentChosen = FALSE
      /\ ui.asked = FALSE /\ ui.chosen = FALSE /\ ui.removed = FALSE
  BY <1>5 DEF Category!Mounted, CategoryState
<1>7. Category!TypeOK
  BY <1>4, <1>5, <1>6 DEF Category!TypeOK, NameLists
<1>8. RecurringRight
  BY <1>5, <1>6 DEF RecurringRight
<1>9. BudgetRight
  BY <1>6 DEF BudgetRight, Category!BudgetsAreDistinct
<1> QED BY <1>4, <1>5, <1>6, <1>7, <1>8, <1>9 DEF CategoryInv

\* What a submission sends, and what its select shows.
LEMMA WantedIsShown ==
    ASSUME CategoryInv
    PROVE  /\ ui.form # "recurring" => Category!Wanted = ui.category
           /\ ui.form = "recurring" /\ ~ui.removed =>
                 /\ Category!Wanted = Category!Shown
                 /\ Category!Wanted = None => Category!Options(ui) = {}
<1> USE DEF CategoryInv
<1>1. ui.form # "recurring" => Category!Wanted = ui.category
  BY DEF Category!Wanted
<1>2. ASSUME ui.form = "recurring", ~ui.removed
      PROVE  /\ Category!Wanted = Category!Shown
             /\ Category!Wanted = None => Category!Options(ui) = {}
  <2>1. PICK list \in NameLists : list = ui.lists[ui.type]
    BY DEF Category!TypeOK
  <2>2. /\ list \in Seq(Category!Names) /\ DOMAIN list = 1..Len(list) /\ Len(list) \in Nat
    BY DEF NameLists
  <2>3. Category!Options(ui) = Category!ToSet(list)
    BY <1>2, <2>1 DEF Category!Options
  <2>4. \A c \in Category!ToSet(list) : c # None
    BY <2>2, RowsAreNamed DEF Category!ToSet, Category!Names
  <2>5. ui.category # None => ui.category \in Category!Options(ui)
    BY <1>2, <2>1, <2>3 DEF RecurringRight
  <2>6. Category!Wanted = Category!Shown
    BY <1>2, <2>3, <2>4, <2>5 DEF Category!Wanted, Category!Shown
  <2>7. ASSUME Category!Wanted = None PROVE Category!Options(ui) = {}
    <3>1. ui.category = None /\ Category!FirstOption = None
      BY <1>2, <2>7 DEF Category!Wanted
    <3>2. SUFFICES ASSUME Category!ToSet(list) # {} PROVE FALSE
      BY <2>3
    <3>3. {i \in DOMAIN list : list[i] \in Category!Options(ui)} = 1..Len(list)
      BY <2>2, <2>3 DEF Category!ToSet
    <3>4. 1 \in 1..Len(list)
      BY <2>2, <3>2 DEF Category!ToSet
    <3>5. PICK at : at = {i \in DOMAIN list : list[i] \in Category!Options(ui)}
      OBVIOUS
    <3>6. PICK first : first = CHOOSE i \in at : \A j \in at : i <= j
      OBVIOUS
    <3>7. first \in at
      <4>1. \E i \in at : \A j \in at : i <= j
        BY <2>2, <3>3, <3>4, <3>5
      <4> QED BY <3>6, <4>1
    <3>8. Category!FirstOption = list[first]
      BY <2>1, <3>3, <3>4, <3>5, <3>6 DEF Category!FirstOption
    <3>9. list[first] \in Category!ToSet(list)
      BY <3>5, <3>7 DEF Category!ToSet
    <3> QED BY <2>4, <3>1, <3>8, <3>9
  <2> QED BY <2>6, <2>7
<1> QED BY <1>1, <1>2

LEMMA CategoryKeeps == CategoryInv /\ [Category!Next]_ui => CategoryInv'
<1> SUFFICES ASSUME CategoryInv, [Category!Next]_ui PROVE CategoryInv'
  OBVIOUS
<1> USE DEF CategoryInv
<1>0. /\ ui.type \in Category!Types /\ ui.form \in Category!Forms
      /\ ui.category \in Category!Names \cup {None} /\ ui.budgeted \subseteq Category!Names
      /\ ui.form = "budget" => ui.type = "expense"
  BY DEF Category!TypeOK
<1>1. CASE Category!Arrive
  <2>1. ui' = [ui EXCEPT !.lists = ui.loaded]
    BY <1>1 DEF Category!Arrive
  <2>2. (ui = CategoryState)'
    BY <2>1 DEF CategoryState
  <2>3. /\ ui'.lists = ui.loaded
        /\ UNCHANGED <<ui.form, ui.loaded, ui.type, ui.category, ui.budgeted, ui.saving,
                       ui.sent, ui.shown, ui.sentChosen, ui.asked, ui.chosen, ui.removed>>
    BY <2>1 DEF CategoryState
  <2>4. Category!TypeOK' /\ BudgetRight'
    BY <2>3 DEF Category!TypeOK, BudgetRight, Category!BudgetsAreDistinct
  <2>5. RecurringRight'
    BY <1>0, <2>3 DEF RecurringRight
  <2> QED BY <2>2, <2>3, <2>4, <2>5
<1>2. CASE Category!Submit
  <2>1. PICK wanted, shown : wanted = Category!Wanted /\ shown = Category!Shown
    OBVIOUS
  <2>2. CASE wanted = None
    <3>0. PICK asked \in BOOLEAN : asked = (Category!Options(ui) # {})
      OBVIOUS
    <3>1. ui' = [ui EXCEPT !.asked = asked, !.edits = ui.edits + 1]
      BY <1>2, <2>1, <2>2, <3>0 DEF Category!Submit
    <3>2. (ui = CategoryState)'
      BY <3>1 DEF CategoryState
    <3>3. /\ ui'.asked = asked
          /\ UNCHANGED <<ui.form, ui.loaded, ui.lists, ui.type, ui.category, ui.budgeted,
                         ui.saving, ui.sent, ui.shown, ui.sentChosen, ui.chosen, ui.removed>>
      BY <3>1 DEF CategoryState
    <3>4. Category!TypeOK' /\ BudgetRight'
      BY <3>3 DEF Category!TypeOK, BudgetRight, Category!BudgetsAreDistinct
    <3>5. ui.form = "recurring" /\ ~ui.removed => ~asked
      BY <2>1, <2>2, <3>0, WantedIsShown
    <3>6. RecurringRight'
      BY <3>3, <3>5 DEF RecurringRight
    <3> QED BY <3>2, <3>3, <3>4, <3>6
  <2>3. CASE wanted # None
    <3>1. ui' = [ui EXCEPT !.saving = TRUE, !.edits = ui.edits + 1, !.sent = wanted,
                           !.shown = shown, !.sentChosen = ui.chosen]
      BY <1>2, <2>1, <2>3 DEF Category!Submit
    <3>2. (ui = CategoryState)'
      BY <3>1 DEF CategoryState
    <3>3. /\ ui'.saving = TRUE /\ ui'.sent = wanted /\ ui'.shown = shown
          /\ ui'.sentChosen = ui.chosen
          /\ UNCHANGED <<ui.form, ui.loaded, ui.lists, ui.type, ui.category, ui.budgeted,
                         ui.asked, ui.chosen, ui.removed>>
      BY <3>1 DEF CategoryState
    <3>4. Category!TypeOK'
      BY <3>3 DEF Category!TypeOK
    <3>5. ui.form # "recurring" => wanted = ui.category
      BY <2>1, WantedIsShown
    <3>6. BudgetRight'
      BY <1>0, <2>3, <3>3, <3>5 DEF BudgetRight, Category!BudgetsAreDistinct
    <3>7. ui.form = "recurring" /\ ~ui.removed => wanted = shown
      BY <2>1, WantedIsShown
    <3>8. RecurringRight'
      BY <3>3, <3>7 DEF RecurringRight
    <3> QED BY <3>2, <3>3, <3>4, <3>6, <3>8
  <2> QED BY <2>2, <2>3
<1>3. ASSUME NEW done \in BOOLEAN, Category!Submitted(done) PROVE CategoryInv'
  <2>0. PICK budgeted : budgeted = IF done /\ ui.form = "budget"
                                   THEN ui.budgeted \cup {ui.sent} ELSE ui.budgeted
    OBVIOUS
  <2>1. /\ ui' = [ui EXCEPT !.saving = FALSE, !.sent = None, !.shown = None,
                            !.chosen = FALSE, !.budgeted = budgeted]
        /\ ui.saving
    BY <1>3, <2>0 DEF Category!Submitted
  <2>2. (ui = CategoryState)'
    BY <2>1 DEF CategoryState
  <2>3. /\ ui'.saving = FALSE /\ ui'.sent = None /\ ui'.shown = None /\ ui'.chosen = FALSE
        /\ ui'.budgeted = budgeted
        /\ UNCHANGED <<ui.form, ui.loaded, ui.lists, ui.type, ui.category, ui.sentChosen,
                       ui.asked, ui.removed>>
    BY <2>1 DEF CategoryState
  <2>4. /\ budgeted \subseteq Category!Names
        /\ ui.form # "budget" => budgeted = {}
    BY <1>0, <2>0, <2>1 DEF BudgetRight
  <2>5. Category!TypeOK' /\ BudgetRight'
    BY <2>3, <2>4 DEF Category!TypeOK, BudgetRight, Category!BudgetsAreDistinct
  <2>6. RecurringRight'
    BY <2>3 DEF RecurringRight
  <2> QED BY <2>2, <2>3, <2>5, <2>6
<1>4. ASSUME NEW c \in Category!Names, Category!Choose(c) PROVE CategoryInv'
  <2>1. /\ ui' = [ui EXCEPT !.category = c, !.chosen = TRUE]
        /\ c \in Category!Options(ui)
    BY <1>4 DEF Category!Choose
  <2>2. (ui = CategoryState)'
    BY <2>1 DEF CategoryState
  <2>3. /\ ui'.category = c /\ ui'.chosen = TRUE
        /\ UNCHANGED <<ui.form, ui.loaded, ui.lists, ui.type, ui.budgeted, ui.saving,
                       ui.sent, ui.shown, ui.sentChosen, ui.asked, ui.removed>>
    BY <2>1 DEF CategoryState
  <2>4. /\ c \in Category!ToSet(ui.lists[ui.type])
        /\ ui.form = "budget" => c \notin ui.budgeted
    BY <2>1 DEF Category!Options
  <2>5. Category!TypeOK' /\ BudgetRight'
    BY <2>3, <2>4 DEF Category!TypeOK, BudgetRight, Category!BudgetsAreDistinct
  <2>6. RecurringRight'
    BY <2>3, <2>4 DEF RecurringRight
  <2> QED BY <2>2, <2>3, <2>5, <2>6
<1>5. ASSUME NEW type \in Category!Types, Category!ToggleType(type) PROVE CategoryInv'
  <2>0. PICK first, category :
           /\ first = Category!First(ui.lists[type])
           /\ category = CASE ui.form = "entry"     -> first
                           [] ui.form = "recurring" -> None
                           [] ui.form = "row"       ->
                                IF first = None THEN ui.category ELSE first
    OBVIOUS
  <2>1. /\ ui' = [ui EXCEPT !.type = type, !.category = category]
        /\ ui.form \in {"entry", "recurring", "row"}
    BY <1>0, <1>5, <2>0 DEF Category!ToggleType, Category!Forms
  <2>2. (ui = CategoryState)'
    BY <2>1 DEF CategoryState
  <2>3. /\ ui'.category = category /\ ui'.type = type
        /\ UNCHANGED <<ui.form, ui.loaded, ui.lists, ui.chosen, ui.budgeted, ui.saving,
                       ui.sent, ui.shown, ui.sentChosen, ui.asked, ui.removed>>
    BY <2>1 DEF CategoryState
  <2>4. /\ category \in Category!Names \cup {None}
        /\ ui.form = "recurring" => category = None
    BY <1>0, <2>0, <2>1, FirstOfList
  <2>5. Category!TypeOK' /\ BudgetRight'
    BY <2>1, <2>3, <2>4 DEF Category!TypeOK, BudgetRight, Category!BudgetsAreDistinct
  <2>6. RecurringRight'
    BY <2>3, <2>4 DEF RecurringRight
  <2> QED BY <2>2, <2>3, <2>5, <2>6
<1>6. ASSUME NEW type \in Category!Types, NEW c \in Category!Names,
             Category!AddCategory(type, c)
      PROVE  CategoryInv'
  <2>0. PICK list : list = Append(ui.loaded[type], c)
    OBVIOUS
  <2>1. ui' = [ui EXCEPT !.loaded = [ui.loaded EXCEPT ![type] = list],
                         !.edits = ui.edits + 1]
    BY <1>6, <2>0 DEF Category!AddCategory
  <2>2. (ui = CategoryState)'
    BY <2>1 DEF CategoryState
  <2>3. /\ ui'.loaded = [ui.loaded EXCEPT ![type] = list]
        /\ UNCHANGED <<ui.form, ui.lists, ui.type, ui.category, ui.budgeted, ui.saving,
                       ui.sent, ui.shown, ui.sentChosen, ui.asked, ui.chosen, ui.removed>>
    BY <2>1 DEF CategoryState
  <2>4. list \in NameLists /\ Category!ToSet(ui.loaded[type]) \subseteq Category!ToSet(list)
    BY <1>6, <2>0, AppendedList DEF Category!AddCategory
  <2>5. ui'.loaded \in [Category!Types -> NameLists]
    BY <2>3, <2>4
  <2>6. Category!TypeOK' /\ BudgetRight'
    BY <2>3, <2>5 DEF Category!TypeOK, BudgetRight, Category!BudgetsAreDistinct, NameLists
  <2>7. RecurringRight'
    BY <2>3, <2>4 DEF RecurringRight
  <2> QED BY <2>2, <2>3, <2>5, <2>6, <2>7
<1>7. ASSUME NEW type \in Category!Types, NEW i \in DOMAIN ui.loaded[type],
             Category!RemoveCategory(type, i)
      PROVE  CategoryInv'
  <2>0. PICK list : list = Category!RemoveAt(ui.loaded[type], i)
    OBVIOUS
  <2>1. ui' = [ui EXCEPT !.loaded = [ui.loaded EXCEPT ![type] = list],
                         !.edits = ui.edits + 1, !.removed = TRUE]
    BY <1>7, <2>0 DEF Category!RemoveCategory
  <2>2. (ui = CategoryState)'
    BY <2>1 DEF CategoryState
  <2>3. /\ ui'.loaded = [ui.loaded EXCEPT ![type] = list] /\ ui'.removed = TRUE
        /\ UNCHANGED <<ui.form, ui.lists, ui.type, ui.category, ui.budgeted, ui.saving,
                       ui.sent, ui.shown, ui.sentChosen, ui.asked, ui.chosen>>
    BY <2>1 DEF CategoryState
  <2>4. list \in NameLists
    BY <2>0, RemovedFromList
  <2>5. ui'.loaded \in [Category!Types -> NameLists]
    BY <2>3, <2>4
  <2>6. Category!TypeOK' /\ BudgetRight'
    BY <2>3, <2>5 DEF Category!TypeOK, BudgetRight, Category!BudgetsAreDistinct, NameLists
  <2>7. RecurringRight'
    BY <2>3 DEF RecurringRight
  <2>8. ui'.removed \in BOOLEAN
    BY <2>3, Zenon
  <2>9. {ui'.saving, ui'.sentChosen, ui'.asked, ui'.chosen, ui'.removed} \subseteq BOOLEAN
    BY <2>3, <2>8
  <2> QED BY <2>2, <2>3, <2>5, <2>6, <2>7, <2>9
<1>8. CASE UNCHANGED ui
  BY <1>8 DEF CategoryState, Category!TypeOK, RecurringRight, BudgetRight,
              Category!BudgetsAreDistinct
<1> QED BY <1>1, <1>2, <1>3, <1>4, <1>5, <1>6, <1>7, <1>8 DEF Category!Next

\* The invariant says what the run checks.
LEMMA CategoryRight ==
    CategoryInv => Category!RecurringSendsWhatItShows /\ Category!BudgetsAreDistinct
BY DEF CategoryInv, RecurringRight, BudgetRight, Category!RecurringSendsWhatItShows

-----------------------------------------------------------------------------
(* Forms of the Manage tab                                                  *)

\* n is the sum of what the answers of R say was added: the value at R of a sum over
\* the subsets of R.
Total(R, n) ==
    \E sum \in [SUBSET R -> Int] :
        /\ sum[{}] = 0
        /\ \A T \in SUBSET R : \A q \in R \ T : sum[T \cup {q}] = sum[T] + q.added
        /\ sum[R] = n

LEMMA TotalOfNone == \A n : Total({}, n) <=> n = 0
<1>1. ASSUME NEW n, Total({}, n) PROVE n = 0
  BY <1>1 DEF Total
<1>2. Total({}, 0)
  <2>1. PICK sum : sum = [T \in SUBSET {} |-> 0]
    OBVIOUS
  <2>2. sum \in [SUBSET {} -> Int] /\ sum[{}] = 0
    BY <2>1
  <2> QED BY <2>2 DEF Total
<1> QED BY <1>1, <1>2

LEMMA TotalWith ==
    ASSUME NEW R, NEW n, Total(R, n), NEW new, new \notin R,
           \A q \in R \cup {new} : q.added \in Int
    PROVE  Total(R \cup {new}, n + new.added)
<1>1. PICK sum \in [SUBSET R -> Int] :
        /\ sum[{}] = 0
        /\ \A T \in SUBSET R : \A q \in R \ T : sum[T \cup {q}] = sum[T] + q.added
        /\ sum[R] = n
  BY DEF Total
<1>2. PICK all : all = [T \in SUBSET (R \cup {new}) |->
                          sum[T \ {new}] + (IF new \in T THEN new.added ELSE 0)]
  OBVIOUS
<1>3. \A T \in SUBSET (R \cup {new}) : T \ {new} \in SUBSET R /\ sum[T \ {new}] \in Int
  BY <1>1
<1>4. all \in [SUBSET (R \cup {new}) -> Int]
  BY <1>2, <1>3
<1>5. all[{}] = 0
  <2>1. {} \ {new} = {}
    OBVIOUS
  <2>2. all[{}] = sum[{} \ {new}] + 0
    BY <1>2
  <2> QED BY <1>1, <2>1, <2>2
<1>6. ASSUME NEW T \in SUBSET (R \cup {new}), NEW q \in (R \cup {new}) \ T
      PROVE  all[T \cup {q}] = all[T] + q.added
  <2>0. PICK U \in SUBSET R : U = T \ {new}
    OBVIOUS
  <2>1. sum[U] \in Int /\ q.added \in Int /\ new.added \in Int
    BY <1>1
  <2>2. all[T] = sum[U] + (IF new \in T THEN new.added ELSE 0)
    BY <1>2, <2>0
  <2>3. CASE q = new
    <3>1. (T \cup {q}) \ {new} = U /\ new \notin T /\ new \in T \cup {q}
      BY <2>0, <2>3
    <3>2. all[T \cup {q}] = sum[U] + new.added
      BY <1>2, <3>1
    <3> QED BY <2>1, <2>2, <2>3, <3>1, <3>2
  <2>4. CASE q # new
    <3>1. /\ (T \cup {q}) \ {new} = U \cup {q} /\ q \in R \ U
          /\ (new \in T <=> new \in T \cup {q})
      BY <2>0, <2>4
    <3>2. sum[U \cup {q}] = sum[U] + q.added
      BY <1>1, <3>1
    <3>3. all[T \cup {q}] = sum[U \cup {q}] + (IF new \in T THEN new.added ELSE 0)
      BY <1>2, <3>1
    <3> QED BY <2>1, <2>2, <3>2, <3>3
  <2> QED BY <2>3, <2>4
<1>7. all[R \cup {new}] = n + new.added
  <2>1. (R \cup {new}) \ {new} = R
    OBVIOUS
  <2> QED BY <1>1, <1>2, <2>1
<1> QED BY <1>4, <1>5, <1>6, <1>7 DEF Total

LEMMA TotalWithout ==
    ASSUME NEW R, NEW n, Total(R, n), NEW q \in R, q.added \in Int
    PROVE  Total(R \ {q}, n - q.added)
<1>1. PICK sum \in [SUBSET R -> Int] :
        /\ sum[{}] = 0
        /\ \A T \in SUBSET R : \A p \in R \ T : sum[T \cup {p}] = sum[T] + p.added
        /\ sum[R] = n
  BY DEF Total
<1>2. PICK rest : rest = [T \in SUBSET (R \ {q}) |-> sum[T]]
  OBVIOUS
<1>3. \A T \in SUBSET (R \ {q}) : T \in SUBSET R /\ rest[T] = sum[T]
  BY <1>2
<1>4. rest \in [SUBSET (R \ {q}) -> Int]
  BY <1>1, <1>2
<1>5. rest[{}] = 0
  BY <1>1, <1>3
<1>6. ASSUME NEW T \in SUBSET (R \ {q}), NEW p \in (R \ {q}) \ T
      PROVE  rest[T \cup {p}] = rest[T] + p.added
  BY <1>1, <1>3
<1>7. rest[R \ {q}] = n - q.added
  <2>1. (R \ {q}) \cup {q} = R /\ q \in R \ (R \ {q}) /\ R \ {q} \in SUBSET R
    OBVIOUS
  <2>2. sum[R] = sum[R \ {q}] + q.added /\ sum[R \ {q}] \in Int
    BY <1>1, <2>1
  <2> QED BY <1>1, <1>3, <2>2
<1> QED BY <1>4, <1>5, <1>6, <1>7 DEF Total

ManageState == [form |-> ui.form, tab |-> ui.tab, locked |-> ui.locked, field |-> ui.field,
                menu |-> ui.menu, saving |-> ui.saving, error |-> ui.error,
                requests |-> ui.requests, server |-> ui.server, clicks |-> ui.clicks,
                failures |-> ui.failures, told |-> ui.told, left |-> ui.left]

\* Requests are numbered; until the tab is left the form waits for the last one.  With
\* nothing lost, what the answers under way say was added is not told of yet.
ManageInv ==
    /\ ui = ManageState
    /\ Manage!TypeOK /\ ui.failures \in Nat /\ ui.told \in Int
    /\ ui.saving \in BOOLEAN /\ ui.left \in BOOLEAN
    /\ \A p, q \in ui.requests : p.n = q.n => p = q
    /\ \A q \in ui.requests :
          /\ q.n <= ui.clicks
          /\ ui.form = "import" => q.value >= 0
          /\ q.answer # "ok" => q.added = 0
          /\ ui.left \/ (ui.saving /\ q.n = ui.clicks)
    /\ ui.failures = 0 => Total(ui.requests, ui.server - ui.told)

LEMMA ManageStarts == Manage!Init => ManageInv
<1> SUFFICES ASSUME Manage!Init PROVE ManageInv
  OBVIOUS
<1>1. PICK form \in Manage!Forms :
        ui = [form |-> form, tab |-> TRUE, locked |-> FALSE, field |-> 0,
              menu |-> FALSE, saving |-> FALSE, error |-> FALSE,
              requests |-> {}, server |-> 0, clicks |-> 0, failures |-> 0,
              told |-> 0, left |-> FALSE]
  BY DEF Manage!Init, Manage!Empty
<1>2. Total({}, 0)
  BY TotalOfNone
<1> QED
  BY <1>1, <1>2, BoundsAreNatural, ValuesAreNumbers DEF ManageInv, ManageState, Manage!TypeOK

\* The server answers q, and has added what the answer says if nothing went wrong.
LEMMA ManageServed ==
    ASSUME ManageInv, NEW q \in ui.requests, q.answer = "none",
           NEW answer \in {"ok", "refused", "401"}, NEW added \in Int,
           answer # "ok" => added = 0,
           (ui = ManageState)',
           ui'.requests = Manage!Answered(q, answer, added),
           UNCHANGED <<ui.form, ui.field, ui.saving, ui.clicks, ui.told, ui.left>>,
           ui'.server \in Nat, ui'.failures \in Nat,
           ui'.failures = 0 => ui.failures = 0 /\ ui'.server = ui.server + added
    PROVE  ManageInv'
<1> USE DEF ManageInv
<1>1. PICK new : new = [q EXCEPT !.answer = answer, !.added = added]
  OBVIOUS
<1>2. ui'.requests = (ui.requests \ {q}) \cup {new}
  BY <1>1 DEF Manage!Answered
<1>3. q \in Manage!Request /\ q.added = 0
  BY DEF Manage!TypeOK
<1>4. /\ new \in Manage!Request /\ new.n = q.n /\ new.value = q.value
      /\ new.answer = answer /\ new.added = added
  BY <1>1, <1>3 DEF Manage!Request
<1>5. new \notin ui.requests \ {q}
  BY <1>4
<1>6. Manage!TypeOK'
  BY <1>2, <1>4 DEF Manage!TypeOK
<1>7. (/\ \A p, r \in ui.requests : p.n = r.n => p = r
       /\ \A p \in ui.requests :
             /\ p.n <= ui.clicks
             /\ ui.form = "import" => p.value >= 0
             /\ p.answer # "ok" => p.added = 0
             /\ ui.left \/ (ui.saving /\ p.n = ui.clicks))'
  BY <1>2, <1>4
<1>8. ASSUME ui'.failures = 0 PROVE Total(ui'.requests, ui'.server - ui'.told)
  <2>1. PICK n \in Int : n = ui.server - ui.told
    BY DEF Manage!TypeOK
  <2>2. PICK rest \in Int : rest = n - q.added
    BY <1>3
  <2>3. Total(ui.requests \ {q}, rest)
    <3>1. Total(ui.requests, n) /\ q.added \in Int
      BY <1>3, <1>8, <2>1
    <3> QED BY <2>2, <3>1, TotalWithout
  <2>4. \A p \in (ui.requests \ {q}) \cup {new} : p.added \in Int
    BY <1>4 DEF Manage!TypeOK, Manage!Request
  <2>5. Total((ui.requests \ {q}) \cup {new}, rest + new.added)
    BY <1>5, <2>3, <2>4, TotalWith
  <2>6. rest + new.added = ui'.server - ui'.told
    BY <1>3, <1>4, <1>8, <2>1, <2>2 DEF Manage!TypeOK
  <2> QED BY <1>2, <2>5, <2>6
<1> QED BY <1>6, <1>7, <1>8

\* The handler of q goes on, and has told of what was added if nothing went wrong.
LEMMA ManageEnded ==
    ASSUME ManageInv, NEW q \in ui.requests,
           (ui = ManageState)',
           ui'.requests = ui.requests \ {q},
           ui'.saving = (ui.saving /\ ~Manage!Handler(q)),
           UNCHANGED <<ui.form, ui.clicks, ui.server, ui.left>>,
           ui'.field \in Values, ui'.told \in Int, ui'.failures \in Nat,
           ui'.failures = 0 => ui.failures = 0 /\ ui'.told = ui.told + q.added
    PROVE  ManageInv'
<1> USE DEF ManageInv
<1>1. q.added \in Int
  BY DEF Manage!TypeOK, Manage!Request
<1>2. Manage!TypeOK'
  BY DEF Manage!TypeOK
<1>3. ui'.saving = TRUE \/ ui'.saving = FALSE
  BY Zenon
<1>4. \A p \in ui'.requests : ui.left
  BY DEF Manage!Handler
<1>5. ASSUME ui'.failures = 0 PROVE Total(ui'.requests, ui'.server - ui'.told)
  <2>1. PICK n \in Int : n = ui.server - ui.told
    BY DEF Manage!TypeOK
  <2>2. Total(ui.requests \ {q}, n - q.added)
    BY <1>1, <1>5, <2>1, TotalWithout
  <2>3. n - q.added = ui'.server - ui'.told
    BY <1>1, <1>5, <2>1 DEF Manage!TypeOK
  <2> QED BY <2>2, <2>3
<1> QED BY <1>2, <1>3, <1>4, <1>5

LEMMA ManageKeeps == ManageInv /\ [Manage!Next]_ui => ManageInv'
<1> SUFFICES ASSUME ManageInv, [Manage!Next]_ui PROVE ManageInv'
  OBVIOUS
<1> USE DEF ManageInv
<1>0. /\ ui.clicks \in 0..MaxClicks /\ MaxClicks \in Nat /\ ui.server \in Nat
      /\ ui.requests \subseteq Manage!Request /\ ui.field \in Values
      /\ ui.form \in {"goal", "contribute", "import", "export"}
      /\ \A q \in ui.requests : q.n \in Nat /\ q.value \in Int /\ q.added \in Int
  <2>1. /\ ui.clicks \in 0..MaxClicks /\ ui.server \in Nat
        /\ ui.requests \subseteq Manage!Request /\ ui.field \in Values
        /\ ui.form \in {"goal", "contribute", "import", "export"}
    BY DEF Manage!TypeOK, Manage!Forms
  <2>2. \A q \in Manage!Request : q.n \in Nat /\ q.value \in Int /\ q.added \in Int
    <3> SUFFICES ASSUME NEW q \in Manage!Request
                 PROVE  q.n \in Nat /\ q.value \in Int /\ q.added \in Int
      OBVIOUS
    <3>1. q.n \in 1..MaxClicks /\ q.value \in Values /\ q.added \in Int
      BY DEF Manage!Request
    <3>2. q.n \in Nat
      BY <3>1, BoundsAreNatural
    <3>3. q.value \in Int
      BY <3>1, ValuesAreNumbers
    <3> QED BY <3>1, <3>2, <3>3
  <2> QED BY <2>1, <2>2, BoundsAreNatural
<1>1. CASE Manage!Submit
  <2>1. PICK v \in Manage!Input :
          /\ ui.form = "import" => Manage!Takes(v)
          /\ IF Manage!Takes(v) THEN ui' = Manage!Send(v) ELSE ui' = [ui EXCEPT !.error = TRUE]
    BY <1>1 DEF Manage!Submit
  <2>2. CASE ~Manage!Takes(v)
    <3>1. (ui = ManageState)' /\ ui' = [ui EXCEPT !.error = TRUE]
      BY <2>1, <2>2 DEF ManageState
    <3> QED BY <3>1 DEF ManageState, Manage!TypeOK
  <2>3. CASE Manage!Takes(v)
    <3>0. PICK new : new = [n |-> ui.clicks + 1, value |-> v, answer |-> "none", added |-> 0]
      OBVIOUS
    <3>1. ui' = [ui EXCEPT !.saving = TRUE, !.error = FALSE, !.menu = FALSE,
                           !.clicks = ui.clicks + 1, !.requests = ui.requests \cup {new}]
      BY <2>1, <2>3, <3>0 DEF Manage!Send
    <3>2. (ui = ManageState)'
      BY <3>1 DEF ManageState
    <3>3. /\ ui'.saving = TRUE /\ ui'.clicks = ui.clicks + 1
          /\ ui'.requests = ui.requests \cup {new}
          /\ UNCHANGED <<ui.form, ui.field, ui.server, ui.failures, ui.told, ui.left>>
      BY <3>1 DEF ManageState
    <3>4. v \in Values /\ (ui.form = "import" => v >= 0)
      BY <1>0, <2>1, <2>3, ValuesAreNumbers DEF Manage!Input, Manage!Takes
    <3>5. ~ui.saving /\ ui.clicks < MaxClicks
      BY <1>1 DEF Manage!Submit
    <3>6. /\ new \in Manage!Request /\ new.n = ui.clicks + 1 /\ new.value = v
          /\ new.answer = "none" /\ new.added = 0
      BY <1>0, <3>0, <3>4, <3>5 DEF Manage!Request
    <3>7. new \notin ui.requests
      BY <1>0, <3>6
    <3>8. Manage!TypeOK'
      BY <1>0, <3>3, <3>5, <3>6 DEF Manage!TypeOK
    <3>9. (/\ \A p, q \in ui.requests : p.n = q.n => p = q
           /\ \A q \in ui.requests :
                 /\ q.n <= ui.clicks
                 /\ ui.form = "import" => q.value >= 0
                 /\ q.answer # "ok" => q.added = 0
                 /\ ui.left \/ (ui.saving /\ q.n = ui.clicks))'
      BY <1>0, <3>3, <3>4, <3>5, <3>6
    <3>10. ASSUME ui.failures = 0 PROVE Total(ui'.requests, ui'.server - ui'.told)
      <4>1. PICK n \in Int : n = ui.server - ui.told
        BY <1>0
      <4>2. \A q \in ui.requests \cup {new} : q.added \in Int
        BY <1>0, <3>6
      <4>3. Total(ui.requests \cup {new}, n + new.added)
        BY <3>7, <3>10, <4>1, <4>2, TotalWith
      <4>4. n + new.added = ui'.server - ui'.told
        BY <3>3, <3>6, <4>1
      <4> QED BY <3>3, <4>3, <4>4
    <3> QED BY <3>2, <3>3, <3>8, <3>9, <3>10
  <2> QED BY <2>2, <2>3
<1>2. CASE Manage!Leave
  <2>1. ui' = [ui EXCEPT !.tab = FALSE, !.field = 0, !.menu = FALSE, !.saving = FALSE,
                         !.error = FALSE, !.left = (ui.left \/ ui.requests # {})]
    BY <1>2 DEF Manage!Leave, Manage!Empty
  <2>2. (ui = ManageState)'
    BY <2>1 DEF ManageState
  <2>3. /\ ui'.field = 0 /\ ui'.saving = FALSE
        /\ ui'.left = (ui.left \/ ui.requests # {})
        /\ UNCHANGED <<ui.form, ui.server, ui.failures, ui.told, ui.clicks, ui.requests>>
    BY <2>1 DEF ManageState
  <2>4. ui'.left = TRUE \/ ui'.left = FALSE
    BY <2>3, Zenon
  <2>5. \A q \in ui.requests : ui'.left
    BY <2>3
  <2>6. Manage!TypeOK'
    BY <1>0, <2>3, ValuesAreNumbers DEF Manage!TypeOK
  <2> QED BY <2>2, <2>3, <2>4, <2>5, <2>6
<1>3. CASE Manage!Return
  <2>1. ui' = [ui EXCEPT !.tab = TRUE] /\ (ui = ManageState)'
    BY <1>3 DEF Manage!Return, ManageState
  <2> QED BY <2>1 DEF ManageState, Manage!TypeOK
<1>4. ASSUME NEW v \in Values, Manage!Type(v) PROVE ManageInv'
  <2>1. ui' = [ui EXCEPT !.field = v] /\ (ui = ManageState)'
    BY <1>4 DEF Manage!Type, ManageState
  <2> QED BY <2>1 DEF ManageState, Manage!TypeOK
<1>5. ASSUME NEW open \in BOOLEAN, Manage!Menu(open) PROVE ManageInv'
  <2>1. ui' = [ui EXCEPT !.menu = open] /\ (ui = ManageState)'
    BY <1>5 DEF Manage!Menu, ManageState
  <2> QED BY <2>1 DEF ManageState, Manage!TypeOK
<1>6. ASSUME NEW q \in ui.requests, Manage!Serve(q) PROVE ManageInv'
  <2>1. PICK adds : adds = CASE ui.form = "goal" -> 1 [] ui.form = "export" -> 0
                             [] OTHER -> q.value
    OBVIOUS
  <2>2. adds \in Int
    BY <1>0, <2>1
  <2>3. CASE ui.server + adds < 0
    <3>1. ui' = [ui EXCEPT !.requests = Manage!Answered(q, "refused", 0)] /\ q.answer = "none"
      BY <1>6, <2>1, <2>3 DEF Manage!Serve
    <3>2. (ui = ManageState)'
      BY <3>1 DEF ManageState
    <3>3. /\ ui'.requests = Manage!Answered(q, "refused", 0)
          /\ UNCHANGED <<ui.form, ui.field, ui.saving, ui.clicks, ui.told, ui.left, ui.server,
                         ui.failures>>
      BY <3>1 DEF ManageState
    <3> QED BY <1>0, <3>1, <3>2, <3>3, ManageServed
  <2>4. CASE ~(ui.server + adds < 0)
    <3>1. /\ ui' = [ui EXCEPT !.requests = Manage!Answered(q, "ok", adds),
                              !.server = ui.server + adds]
          /\ q.answer = "none"
      BY <1>6, <2>1, <2>4 DEF Manage!Serve
    <3>2. (ui = ManageState)'
      BY <3>1 DEF ManageState
    <3>3. /\ ui'.requests = Manage!Answered(q, "ok", adds) /\ ui'.server = ui.server + adds
          /\ UNCHANGED <<ui.form, ui.field, ui.saving, ui.clicks, ui.told, ui.left, ui.failures>>
      BY <3>1 DEF ManageState
    <3>4. ui.server + adds \in Nat
      BY <1>0, <2>2, <2>4
    <3> QED BY <1>0, <2>2, <3>1, <3>2, <3>3, <3>4, ManageServed
  <2> QED BY <2>3, <2>4
<1>7. ASSUME NEW q \in ui.requests, Manage!ServeUnwritten(q) PROVE ManageInv'
  <2>1. /\ ui' = [ui EXCEPT !.requests = Manage!Answered(q, "ok", 0),
                            !.server = ui.server + q.value, !.failures = ui.failures + 1]
        /\ q.answer = "none" /\ ui.form = "import"
    BY <1>7 DEF Manage!ServeUnwritten
  <2>2. (ui = ManageState)'
    BY <2>1 DEF ManageState
  <2>3. /\ ui'.requests = Manage!Answered(q, "ok", 0) /\ ui'.server = ui.server + q.value
        /\ ui'.failures = ui.failures + 1
        /\ UNCHANGED <<ui.form, ui.field, ui.saving, ui.clicks, ui.told, ui.left>>
    BY <2>1 DEF ManageState
  <2>4. q.value \in Nat
    BY <1>0, <2>1
  <2>5. ui'.server \in Nat /\ ui'.failures \in Nat /\ ui'.failures # 0
    BY <1>0, <2>3, <2>4
  <2> QED BY <2>1, <2>2, <2>3, <2>5, ManageServed
<1>8. ASSUME NEW q \in ui.requests, Manage!ServeLoggedOut(q) PROVE ManageInv'
  <2>1. /\ ui' = [ui EXCEPT !.requests = Manage!Answered(q, "401", 0),
                            !.failures = ui.failures + 1]
        /\ q.answer = "none"
    BY <1>8 DEF Manage!ServeLoggedOut
  <2>2. (ui = ManageState)'
    BY <2>1 DEF ManageState
  <2>3. /\ ui'.requests = Manage!Answered(q, "401", 0)
        /\ ui'.failures = ui.failures + 1
        /\ UNCHANGED <<ui.form, ui.field, ui.saving, ui.clicks, ui.told, ui.left, ui.server>>
    BY <2>1 DEF ManageState
  <2>4. ui'.failures \in Nat /\ ui'.failures # 0
    BY <2>3
  <2> QED BY <1>0, <2>1, <2>2, <2>3, <2>4, ManageServed
<1>9. ASSUME NEW q \in ui.requests, Manage!Done(q) PROVE ManageInv'
  <2>1. ui' = [ui EXCEPT !.requests = ui.requests \ {q}, !.told = ui.told + q.added,
                         !.saving = (ui.saving /\ ~Manage!Handler(q)),
                         !.field = IF Manage!Handler(q) THEN 0 ELSE ui.field]
    BY <1>9 DEF Manage!Done, Manage!Empty
  <2>2. (ui = ManageState)'
    BY <2>1 DEF ManageState
  <2>3. ui'.saving = (ui.saving /\ ~Manage!Handler(q))
    BY <2>1 DEF ManageState
  <2>4. /\ ui'.requests = ui.requests \ {q} /\ ui'.told = ui.told + q.added
        /\ ui'.field \in {0, ui.field}
        /\ UNCHANGED <<ui.form, ui.clicks, ui.server, ui.left, ui.failures>>
    BY <2>1 DEF ManageState
  <2>5. ui'.told \in Int /\ ui'.field \in Values
    BY <1>0, <2>4, ValuesAreNumbers
  <2> QED BY <2>2, <2>3, <2>4, <2>5, ManageEnded
<1>10. ASSUME NEW q \in ui.requests, Manage!Refused(q) PROVE ManageInv'
  <2>1. PICK locked : locked = IF q.answer = "401" THEN TRUE ELSE ui.locked
    OBVIOUS
  <2>2. /\ q.answer \in {"refused", "401"}
        /\ ui' = [ui EXCEPT !.locked = locked, !.requests = ui.requests \ {q},
                            !.error = (ui.error \/ Manage!Handler(q)),
                            !.saving = (ui.saving /\ ~Manage!Handler(q))]
    BY <1>10, <2>1 DEF Manage!Refused, Manage!Failed, ManageState
  <2>3. (ui = ManageState)'
    BY <2>2 DEF ManageState
  <2>4. ui'.saving = (ui.saving /\ ~Manage!Handler(q))
    BY <2>2 DEF ManageState
  <2>5. /\ ui'.requests = ui.requests \ {q}
        /\ UNCHANGED <<ui.form, ui.field, ui.clicks, ui.server, ui.left, ui.failures, ui.told>>
    BY <2>2 DEF ManageState
  <2>6. q.added = 0 /\ ui.told + 0 = ui.told
    BY <2>2
  <2> QED BY <1>0, <2>3, <2>4, <2>5, <2>6, ManageEnded
<1>11. ASSUME NEW q \in ui.requests, Manage!Lost(q) PROVE ManageInv'
  <2>2. ui' = [ui EXCEPT !.failures = ui.failures + 1, !.requests = ui.requests \ {q},
                         !.error = (ui.error \/ Manage!Handler(q)),
                         !.saving = (ui.saving /\ ~Manage!Handler(q))]
    BY <1>11 DEF Manage!Lost, Manage!Failed, ManageState
  <2>3. (ui = ManageState)'
    BY <2>2 DEF ManageState
  <2>4. ui'.saving = (ui.saving /\ ~Manage!Handler(q))
    BY <2>2 DEF ManageState
  <2>5. /\ ui'.requests = ui.requests \ {q} /\ ui'.failures = ui.failures + 1
        /\ UNCHANGED <<ui.form, ui.field, ui.clicks, ui.server, ui.left, ui.told>>
    BY <2>2 DEF ManageState
  <2>6. ui'.failures \in Nat /\ ui'.failures # 0
    BY <2>5
  <2> QED BY <1>0, <2>3, <2>4, <2>5, <2>6, ManageEnded
<1>12. CASE UNCHANGED ui
  BY <1>12 DEF ManageState, Manage!TypeOK
<1> QED BY <1>1, <1>2, <1>3, <1>4, <1>5, <1>6, <1>7, <1>8, <1>9, <1>10, <1>11, <1>12
        DEF Manage!Next

\* The invariant says what the run checks.
LEMMA ManageRight == ManageInv => Manage!ToldIsDone /\ Manage!OneAtATime
<1> SUFFICES ASSUME ManageInv PROVE Manage!ToldIsDone /\ Manage!OneAtATime
  OBVIOUS
<1> USE DEF ManageInv
<1>1. Manage!ToldIsDone
  BY TotalOfNone DEF Manage!ToldIsDone, Manage!TypeOK
<1>2. ASSUME ~ui.left PROVE Manage!Cardinality(ui.requests) <= 1
  <2>0. Manage!Cardinality(ui.requests) = Cardinality(ui.requests)
    BY DEF Manage!Cardinality, Cardinality, Manage!IsFiniteSet, IsFiniteSet
  <2>1. \A p, q \in ui.requests : p = q
    BY <1>2
  <2>2. CASE ui.requests = {}
    BY <2>0, <2>2, FS_EmptySet
  <2>3. ASSUME NEW q \in ui.requests PROVE Manage!Cardinality(ui.requests) <= 1
    <3>1. ui.requests = {q}
      BY <2>1
    <3>2. Cardinality({q}) = 1
      BY FS_Singleton, Zenon
    <3> QED BY <2>0, <3>1, <3>2
  <2> QED BY <2>2, <2>3
<1> QED BY <1>1, <1>2 DEF Manage!OneAtATime

-----------------------------------------------------------------------------
(* Alerts                                                                   *)

AlertState == [server |-> ui.server, budgetTiers |-> ui.budgetTiers,
               recurringDue |-> ui.recurringDue, hasSeen |-> ui.hasSeen,
               changes |-> ui.changes, refreshes |-> ui.refreshes, spends |-> ui.spends,
               made |-> ui.made, failures |-> ui.failures, crossed |-> ui.crossed,
               ran |-> ui.ran, reordered |-> ui.reordered]

\* What one refresh applied after another alerts to: an "over", or an entry.
News(kind, a, b) ==
    IF kind = "over" THEN IF b.budget = "over" /\ a.budget # "over" THEN 1 ELSE 0
    ELSE IF {a.due, b.due} \subseteq 1..MaxDue /\ a.due # b.due THEN 1 ELSE 0

\* The first one alerts to nothing.
NewsFirst(kind, hasSeen, seen, b) == IF hasSeen THEN News(kind, seen, b) ELSE 0

\* There is enough left to alert to: however few of the refreshes R are applied after what
\* was seen last, in the order of their reading, and the server's data after them, what
\* they alert to is at most `left`.  `most` bounds what they do up to the n-th.
Enough(kind, R, hasSeen, seen, server, left) ==
    \E most \in [Nat -> Int] :
        /\ \A r \in R : most[r.n] >= NewsFirst(kind, hasSeen, seen, r.data)
        /\ \A r, s \in R : r.n < s.n => most[s.n] >= most[r.n] + News(kind, r.data, s.data)
        /\ \A r \in R : left >= most[r.n] + News(kind, r.data, server)
        /\ left >= NewsFirst(kind, hasSeen, seen, server)

LEMMA NewsIsNumber ==
    \A kind, a, b, hasSeen :
        /\ News(kind, a, b) \in {0, 1} /\ NewsFirst(kind, hasSeen, a, b) \in {0, 1}
        /\ News(kind, a, a) = 0
BY DEF News, NewsFirst

\* The server's data change, which is worth `more` alerts.
LEMMA EnoughForServer ==
    ASSUME NEW kind, NEW R, \A r \in R : r.n \in Nat, NEW hasSeen \in BOOLEAN, NEW seen,
           NEW server, NEW left \in Int, Enough(kind, R, hasSeen, seen, server, left),
           NEW after, NEW more \in Nat,
           \A r \in R : News(kind, r.data, after) <= News(kind, r.data, server) + more,
           hasSeen => News(kind, seen, after) <= News(kind, seen, server) + more
    PROVE  Enough(kind, R, hasSeen, seen, after, left + more)
<1>1. PICK most \in [Nat -> Int] :
        /\ \A r \in R : most[r.n] >= NewsFirst(kind, hasSeen, seen, r.data)
        /\ \A r, s \in R : r.n < s.n => most[s.n] >= most[r.n] + News(kind, r.data, s.data)
        /\ \A r \in R : left >= most[r.n] + News(kind, r.data, server)
        /\ left >= NewsFirst(kind, hasSeen, seen, server)
  BY DEF Enough
<1>2. ASSUME NEW r \in R PROVE left + more >= most[r.n] + News(kind, r.data, after)
  <2>1. /\ most[r.n] \in Int /\ left >= most[r.n] + News(kind, r.data, server)
        /\ News(kind, r.data, after) <= News(kind, r.data, server) + more
        /\ News(kind, r.data, after) \in Int /\ News(kind, r.data, server) \in Int
    BY <1>1, NewsIsNumber
  <2> QED BY <2>1
<1>3. left + more >= NewsFirst(kind, hasSeen, seen, after)
  <2>1. CASE hasSeen
    <3>1. /\ left >= News(kind, seen, server)
          /\ News(kind, seen, after) <= News(kind, seen, server) + more
          /\ News(kind, seen, after) \in Int /\ News(kind, seen, server) \in Int
      BY <1>1, <2>1, NewsIsNumber DEF NewsFirst
    <3> QED BY <2>1, <3>1 DEF NewsFirst
  <2>2. CASE ~hasSeen
    BY <1>1, <2>2 DEF NewsFirst
  <2> QED BY <2>1, <2>2
<1> QED BY <1>1, <1>2, <1>3 DEF Enough

\* A refresh reads the server's data after the others.
LEMMA EnoughForRead ==
    ASSUME NEW kind, NEW R, \A r \in R : r.n \in Nat, NEW hasSeen \in BOOLEAN, NEW seen,
           NEW server, NEW left \in Int, Enough(kind, R, hasSeen, seen, server, left),
           NEW new, new.data = server, new.n \in Nat, \A r \in R : r.n < new.n
    PROVE  Enough(kind, R \cup {new}, hasSeen, seen, server, left)
<1>1. PICK most \in [Nat -> Int] :
        /\ \A r \in R : most[r.n] >= NewsFirst(kind, hasSeen, seen, r.data)
        /\ \A r, s \in R : r.n < s.n => most[s.n] >= most[r.n] + News(kind, r.data, s.data)
        /\ \A r \in R : left >= most[r.n] + News(kind, r.data, server)
        /\ left >= NewsFirst(kind, hasSeen, seen, server)
  BY DEF Enough
<1>2. PICK all : all = [most EXCEPT ![new.n] = left]
  OBVIOUS
<1>3. /\ all \in [Nat -> Int] /\ all[new.n] = left
      /\ \A r \in R : r.n # new.n /\ all[r.n] = most[r.n]
  BY <1>2
<1>4. \A r \in R \cup {new} : all[r.n] >= NewsFirst(kind, hasSeen, seen, r.data)
  BY <1>1, <1>3
<1>5. \A r, s \in R \cup {new} :
         r.n < s.n => all[s.n] >= all[r.n] + News(kind, r.data, s.data)
  BY <1>1, <1>3
<1>6. left >= all[new.n] + News(kind, new.data, server)
  BY <1>3, NewsIsNumber
<1>7. \A r \in R \cup {new} : left >= all[r.n] + News(kind, r.data, server)
  BY <1>1, <1>3, <1>6
<1> QED BY <1>1, <1>3, <1>4, <1>5, <1>7 DEF Enough

\* The refresh r is applied: those read after it are compared with its data.
LEMMA EnoughForApplied ==
    ASSUME NEW kind, NEW R, \A r \in R : r.n \in Nat, NEW hasSeen \in BOOLEAN, NEW seen,
           NEW server, NEW left \in Int, Enough(kind, R, hasSeen, seen, server, left),
           NEW r \in R
    PROVE  Enough(kind, {s \in R : s.n > r.n}, TRUE, r.data, server,
                  left - NewsFirst(kind, hasSeen, seen, r.data))
<1>1. PICK most \in [Nat -> Int] :
        /\ \A s \in R : most[s.n] >= NewsFirst(kind, hasSeen, seen, s.data)
        /\ \A s, t \in R : s.n < t.n => most[t.n] >= most[s.n] + News(kind, s.data, t.data)
        /\ \A s \in R : left >= most[s.n] + News(kind, s.data, server)
        /\ left >= NewsFirst(kind, hasSeen, seen, server)
  BY DEF Enough
<1>2. PICK given \in Int : given = NewsFirst(kind, hasSeen, seen, r.data)
  BY NewsIsNumber
<1>3. PICK all : all = [n \in Nat |-> most[n] - given]
  OBVIOUS
<1>4. all \in [Nat -> Int] /\ \A s \in R : all[s.n] = most[s.n] - given /\ most[s.n] \in Int
  BY <1>1, <1>3
<1>5. /\ \A s, t : News(kind, s, t) \in Int /\ NewsFirst(kind, TRUE, s, t) = News(kind, s, t)
      /\ most[r.n] >= given
  BY <1>1, <1>2, NewsIsNumber DEF NewsFirst
<1>6. ASSUME NEW s \in R, s.n > r.n PROVE all[s.n] >= NewsFirst(kind, TRUE, r.data, s.data)
  <2>1. most[s.n] >= most[r.n] + News(kind, r.data, s.data)
    BY <1>1, <1>6
  <2>2. News(kind, r.data, s.data) \in Int /\ most[r.n] \in Int /\ most[s.n] \in Int
    BY <1>4, NewsIsNumber
  <2>3. all[s.n] >= News(kind, r.data, s.data)
    BY <1>4, <1>5, <2>1, <2>2
  <2> QED BY <2>3 DEF NewsFirst
<1>7. ASSUME NEW s \in R, NEW t \in R, s.n < t.n
      PROVE  all[t.n] >= all[s.n] + News(kind, s.data, t.data)
  <2>1. most[t.n] >= most[s.n] + News(kind, s.data, t.data)
    BY <1>1, <1>7
  <2> QED BY <1>4, <1>5, <2>1
<1>8. ASSUME NEW s \in R PROVE left - given >= all[s.n] + News(kind, s.data, server)
  <2>1. left >= most[s.n] + News(kind, s.data, server)
    BY <1>1
  <2> QED BY <1>4, <1>5, <2>1
<1>9. left - given >= NewsFirst(kind, TRUE, r.data, server)
  <2>1. left >= most[r.n] + News(kind, r.data, server)
    BY <1>1
  <2>2. News(kind, r.data, server) \in Int /\ most[r.n] \in Int
    BY <1>4, NewsIsNumber
  <2>3. left - given >= News(kind, r.data, server)
    BY <1>2, <1>5, <2>1, <2>2
  <2> QED BY <2>3 DEF NewsFirst
<1> QED BY <1>2, <1>4, <1>6, <1>7, <1>8, <1>9 DEF Enough

\* S is some of R, with new numbers: n is free.
Renumbered(R, n, S) ==
    \A s \in S : \E r \in R : /\ r.n # n /\ s.data = r.data
                              /\ s.n = IF r.n > n THEN r.n - 1 ELSE r.n

LEMMA EnoughRenumbered ==
    ASSUME NEW kind, NEW R, \A r \in R : r.n \in Nat, NEW hasSeen \in BOOLEAN, NEW seen,
           NEW server, NEW left \in Int, Enough(kind, R, hasSeen, seen, server, left),
           NEW n \in Nat, NEW S, Renumbered(R, n, S)
    PROVE  Enough(kind, S, hasSeen, seen, server, left)
<1>1. PICK most \in [Nat -> Int] :
        /\ \A s \in R : most[s.n] >= NewsFirst(kind, hasSeen, seen, s.data)
        /\ \A s, t \in R : s.n < t.n => most[t.n] >= most[s.n] + News(kind, s.data, t.data)
        /\ \A s \in R : left >= most[s.n] + News(kind, s.data, server)
        /\ left >= NewsFirst(kind, hasSeen, seen, server)
  BY DEF Enough
<1>2. PICK all : all = [m \in Nat |-> most[IF m < n THEN m ELSE m + 1]]
  OBVIOUS
<1>3. all \in [Nat -> Int]
  BY <1>1, <1>2
<1>4. ASSUME NEW s \in S
      PROVE  \E r \in R : /\ s.data = r.data /\ all[s.n] = most[r.n] /\ r.n \in Nat
                          /\ s.n \in Nat /\ r.n = IF s.n < n THEN s.n ELSE s.n + 1
  <2>1. PICK r \in R : /\ r.n # n /\ s.data = r.data
                       /\ s.n = IF r.n > n THEN r.n - 1 ELSE r.n
    BY DEF Renumbered
  <2>2. s.n \in Nat /\ r.n \in Nat /\ r.n = IF s.n < n THEN s.n ELSE s.n + 1
    BY <2>1
  <2> QED BY <1>2, <2>1, <2>2
<1>5. ASSUME NEW s \in S, NEW t \in S, s.n < t.n
      PROVE  all[t.n] >= all[s.n] + News(kind, s.data, t.data)
  <2>1. PICK p \in R : /\ s.data = p.data /\ all[s.n] = most[p.n] /\ p.n \in Nat
                       /\ s.n \in Nat /\ p.n = IF s.n < n THEN s.n ELSE s.n + 1
    BY <1>4
  <2>2. PICK q \in R : /\ t.data = q.data /\ all[t.n] = most[q.n] /\ q.n \in Nat
                       /\ t.n \in Nat /\ q.n = IF t.n < n THEN t.n ELSE t.n + 1
    BY <1>4
  <2>3. p.n < q.n
    BY <1>5, <2>1, <2>2
  <2> QED BY <1>1, <2>1, <2>2, <2>3
<1>6. \A s \in S : /\ all[s.n] >= NewsFirst(kind, hasSeen, seen, s.data)
                   /\ left >= all[s.n] + News(kind, s.data, server)
  BY <1>1, <1>4
<1> QED BY <1>1, <1>3, <1>5, <1>6 DEF Enough

\* The refreshes that have read, numbered from 1 in the order of their reading.
Numbered(R) ==
    \E k \in Nat : /\ \A r \in R : r.n \in 0..k
                   /\ \A i \in 1..k : \E r \in R : r.n = i
                   /\ \A r, s \in R : r.n = s.n /\ r.n # 0 => r = s

\* Those that are still to be applied, no newer data being applied already.
OnTime == {r \in ui.refreshes : r.n # 0 /\ ~r.late}
Seen == [budget |-> ui.budgetTiers, due |-> ui.recurringDue]

\* Refreshes have read when they have a number; a rule that the server does not have yet
\* is not known; as long as nothing was reordered, there is enough to alert to.
AlertInv ==
    /\ ui = AlertState
    /\ Alert!TypeOK
    /\ Numbered(ui.refreshes)
    /\ \A r \in ui.refreshes : r.n # 0 <=> r.data # Alert!Unread
    /\ "createRecurring" \in ui.changes => ui.server.due = 0
    /\ ui.server.due = 0 =>
          ui.recurringDue = 0 /\ \A r \in ui.refreshes : r.data.due = 0
    /\ ~ui.reordered =>
          /\ Enough("over", OnTime, ui.hasSeen, Seen, ui.server, ui.crossed)
          /\ Enough("entry", OnTime, ui.hasSeen, Seen, ui.server, ui.ran)

LEMMA StartedIsRefresh ==
    ASSUME NEW silent \in BOOLEAN, NEW new, new = Alert!Started(silent)
    PROVE  /\ new \in Alert!Refresh /\ new.n = 0 /\ new.data = Alert!Unread
           /\ new.data.due = 0
BY DEF Alert!Started, Alert!Refresh, Alert!Unread

LEMMA AlertStarts == Alert!Init => AlertInv
<1> SUFFICES ASSUME Alert!Init PROVE AlertInv
  OBVIOUS
<1>1. PICK server \in [budget : {"none", "ok", "over"}, due : {0, 1}] :
        ui = [server |-> server, budgetTiers |-> "none", recurringDue |-> 0,
              hasSeen |-> FALSE, changes |-> {}, refreshes |-> {Alert!Started(FALSE)},
              spends |-> 0, made |-> 0, failures |-> 0, crossed |-> 0, ran |-> 0,
              reordered |-> FALSE]
  BY DEF Alert!Init, Alert!NoBudget
<1>2. PICK new : new = Alert!Started(FALSE)
  OBVIOUS
<1>3. /\ new \in Alert!Refresh /\ new.n = 0 /\ new.data = Alert!Unread /\ new.data.due = 0
  BY <1>2, StartedIsRefresh
<1>4. /\ ui = AlertState /\ ui.refreshes = {new} /\ ui.server = server
      /\ ui.budgetTiers = "none" /\ ui.recurringDue = 0 /\ ui.hasSeen = FALSE
      /\ ui.changes = {} /\ ui.crossed = 0 /\ ui.ran = 0 /\ ui.reordered = FALSE
  BY <1>1, <1>2 DEF AlertState
<1>5. server \in Alert!Data
  BY BoundsAreNatural DEF Alert!Data, Alert!Tiers, Alert!NoBudget, Alert!GoneRule
<1>6. Alert!TypeOK
  <2>1. 0 \in 0..Alert!GoneRule
    BY BoundsAreNatural DEF Alert!GoneRule
  <2>2. /\ ui.server \in Alert!Data /\ \A r \in ui.refreshes : r \in Alert!Refresh
        /\ ui.budgetTiers \in {Alert!NoBudget} /\ ui.recurringDue \in 0..Alert!GoneRule
    BY <1>3, <1>4, <1>5, <2>1 DEF Alert!NoBudget
  <2>3. /\ ui.hasSeen \in BOOLEAN /\ ui.reordered \in BOOLEAN
        /\ ui.changes \subseteq Alert!Operation
    BY <1>4, Zenon
  <2>4. ui.crossed \in Int /\ ui.ran \in Int
    BY <1>4
  <2> QED BY <2>2, <2>3, <2>4 DEF Alert!TypeOK
<1>7. Numbered(ui.refreshes)
  BY <1>3, <1>4 DEF Numbered
<1>8. ASSUME NEW kind PROVE Enough(kind, OnTime, ui.hasSeen, Seen, ui.server, 0)
  <2>1. PICK most : most = [n \in Nat |-> 0]
    OBVIOUS
  <2>2. OnTime = {} /\ most \in [Nat -> Int]
    BY <1>3, <1>4, <2>1 DEF OnTime
  <2>3. NewsFirst(kind, ui.hasSeen, Seen, ui.server) = 0
    BY <1>4 DEF NewsFirst
  <2> QED BY <2>2, <2>3 DEF Enough
<1> QED BY <1>3, <1>4, <1>6, <1>7, <1>8 DEF AlertInv

\* What the server's data may become, with so many more alerts to give.
ServerMay(server, crossings, runs) ==
    /\ server \in Alert!Data /\ crossings \in Nat /\ runs \in Nat
    /\ server.due = 0 => ui.server.due = 0
    /\ server.budget = "over" /\ ui.server.budget # "over" => crossings = 1
    /\ \/ server.due = ui.server.due \/ ui.server.due = 0
       \/ server.due \notin 1..MaxDue \/ runs = 1

\* The server, or what is under way, changes; another refresh may have started.
ServerChanges(server, crossings, runs, started) ==
    /\ (ui = AlertState)' /\ ui'.server = server
    /\ ui'.crossed = ui.crossed + crossings /\ ui'.ran = ui.ran + runs
    /\ UNCHANGED <<ui.budgetTiers, ui.recurringDue, ui.hasSeen, ui.reordered>>
    /\ ui'.changes \subseteq Alert!Operation
    /\ "createRecurring" \in ui'.changes => server.due = 0
    /\ ui'.refreshes \in {ui.refreshes, ui.refreshes \cup {started}}

LEMMA AlertServer ==
    ASSUME AlertInv, NEW silent \in BOOLEAN, NEW server, NEW crossings, NEW runs,
           ServerMay(server, crossings, runs),
           ServerChanges(server, crossings, runs, Alert!Started(silent))
    PROVE  AlertInv'
<1> USE DEF AlertInv, ServerMay, ServerChanges
<1>1. PICK new : new = Alert!Started(silent)
  OBVIOUS
<1>2. /\ new \in Alert!Refresh /\ new.n = 0 /\ new.data = Alert!Unread /\ new.data.due = 0
  BY <1>1, StartedIsRefresh
<1>3. \A r \in ui'.refreshes : r \in ui.refreshes \/ r = new
  BY <1>1
<1>4. ui.refreshes \subseteq ui'.refreshes
  OBVIOUS
<1>5. Alert!TypeOK'
  BY <1>2, <1>3 DEF Alert!TypeOK
<1>6. Numbered(ui'.refreshes)
  <2>1. PICK k \in Nat : /\ \A r \in ui.refreshes : r.n \in 0..k
                         /\ \A i \in 1..k : \E r \in ui.refreshes : r.n = i
                         /\ \A r, s \in ui.refreshes : r.n = s.n /\ r.n # 0 => r = s
    BY DEF Numbered
  <2>2. \A r \in ui'.refreshes : r.n \in 0..k
    BY <1>2, <1>3, <2>1
  <2>3. \A i \in 1..k : \E r \in ui'.refreshes : r.n = i
    BY <1>4, <2>1
  <2>4. \A r, s \in ui'.refreshes : r.n = s.n /\ r.n # 0 => r = s
    BY <1>2, <1>3, <2>1
  <2> QED BY <2>2, <2>3, <2>4 DEF Numbered
<1>7. OnTime' = OnTime /\ Seen' = Seen
  BY <1>2, <1>3, <1>4 DEF OnTime, Seen
<1>8. ASSUME ~ui.reordered
      PROVE  /\ Enough("over", OnTime, ui.hasSeen, Seen, server, ui'.crossed)
             /\ Enough("entry", OnTime, ui.hasSeen, Seen, server, ui'.ran)
  <2>1. /\ \A r \in OnTime : r.n \in Nat /\ r \in ui.refreshes
        /\ ui.hasSeen \in BOOLEAN /\ ui.crossed \in Int /\ ui.ran \in Int
    BY DEF OnTime, Alert!TypeOK, Alert!Refresh
  <2>2. \A a : News("over", a, server) <= News("over", a, ui.server) + crossings
    BY DEF News
  <2>3. Enough("over", OnTime, ui.hasSeen, Seen, server, ui.crossed + crossings)
    BY <1>8, <2>1, <2>2, EnoughForServer
  <2>4. \A a : (ui.server.due = 0 => a.due = 0) =>
                  News("entry", a, server) <= News("entry", a, ui.server) + runs
    <3>1. CASE server.due = ui.server.due
      BY <3>1 DEF News
    <3>2. CASE ui.server.due = 0
      BY <3>2 DEF News
    <3>3. CASE server.due \notin 1..MaxDue
      BY <3>3 DEF News
    <3>4. CASE runs = 1
      BY <3>4 DEF News
    <3> QED BY <3>1, <3>2, <3>3, <3>4
  <2>5. /\ \A r \in OnTime : ui.server.due = 0 => r.data.due = 0
        /\ ui.server.due = 0 => Seen.due = 0
    BY <2>1 DEF Seen
  <2>6. /\ \A r \in OnTime :
              News("entry", r.data, server) <= News("entry", r.data, ui.server) + runs
        /\ News("entry", Seen, server) <= News("entry", Seen, ui.server) + runs
    BY <2>4, <2>5
  <2>7. Enough("entry", OnTime, ui.hasSeen, Seen, server, ui.ran + runs)
    BY <1>8, <2>1, <2>6, EnoughForServer
  <2> QED BY <2>3, <2>7
<1>9. \A r \in ui'.refreshes : r.n # 0 <=> r.data # Alert!Unread
  BY <1>2, <1>3
<1>10. server.due = 0 => ui'.recurringDue = 0 /\ \A r \in ui'.refreshes : r.data.due = 0
  BY <1>2, <1>3
<1> QED BY <1>5, <1>6, <1>7, <1>8, <1>9, <1>10

\* What Without makes of another refresh when r is gone.
Moved(r, applied, x) ==
    [x EXCEPT !.late = x.late \/ (applied /\ x.n \in 1..r.n),
              !.n = IF r.n # 0 /\ x.n > r.n THEN x.n - 1 ELSE x.n]

\* It has the same data and the next number; if it is on time, so was the other one.
IsMoved(r, applied, x, y) ==
    /\ y.data = x.data
    /\ y.n = IF r.n # 0 /\ x.n > r.n THEN x.n - 1 ELSE x.n
    /\ ~y.late => ~x.late /\ (applied => x.n \notin 1..r.n)

LEMMA MovedIsRefresh ==
    ASSUME NEW r \in Alert!Refresh, NEW x \in Alert!Refresh, NEW applied \in BOOLEAN,
           NEW y, y = Moved(r, applied, x)
    PROVE  y \in Alert!Refresh /\ IsMoved(r, applied, x, y)
<1>1. PICK late \in BOOLEAN : late = (x.late \/ (applied /\ x.n \in 1..r.n))
  OBVIOUS
<1>2. PICK n : n = IF r.n # 0 /\ x.n > r.n THEN x.n - 1 ELSE x.n
  OBVIOUS
<1>3. y = [x EXCEPT !.late = late, !.n = n]
  BY <1>1, <1>2 DEF Moved
<1>4. n \in Nat
  BY <1>2 DEF Alert!Refresh
<1>5. y \in Alert!Refresh /\ y.data = x.data /\ y.n = n /\ y.late = late
  BY <1>3, <1>4 DEF Alert!Refresh
<1>6. ~late => ~x.late /\ (applied => x.n \notin 1..r.n)
  BY <1>1, Zenon
<1> QED BY <1>2, <1>5, <1>6 DEF IsMoved

\* What has the same number after that had the same number before: n is free.
LEMMA SameNumber ==
    \A n, p, q \in Nat :
        /\ n # 0 => p # n /\ q # n
        /\ (IF n # 0 /\ p > n THEN p - 1 ELSE p) = (IF n # 0 /\ q > n THEN q - 1 ELSE q)
        /\ (IF n # 0 /\ p > n THEN p - 1 ELSE p) # 0
        => p = q /\ p # 0
  OBVIOUS

LEMMA NumberedWithout ==
    ASSUME NEW R, R \subseteq Alert!Refresh, Numbered(R), NEW r \in R,
           NEW applied \in BOOLEAN, NEW S, S = {Moved(r, applied, x) : x \in R \ {r}}
    PROVE  Numbered(S)
<1>1. PICK k \in Nat : /\ \A x \in R : x.n \in 0..k
                       /\ \A i \in 1..k : \E x \in R : x.n = i
                       /\ \A x, y \in R : x.n = y.n /\ x.n # 0 => x = y
  BY DEF Numbered
<1>2. ASSUME NEW x \in R \ {r}
      PROVE  Moved(r, applied, x).n = IF r.n # 0 /\ x.n > r.n THEN x.n - 1 ELSE x.n
  <2>1. IsMoved(r, applied, x, Moved(r, applied, x))
    BY MovedIsRefresh
  <2> QED BY <2>1 DEF IsMoved
<1>3. PICK m \in Nat : m = IF r.n = 0 THEN k ELSE k - 1
  BY <1>1
<1>4. \A y \in S : y.n \in 0..m
  <2> SUFFICES ASSUME NEW y \in S PROVE y.n \in 0..m
    OBVIOUS
  <2>1. PICK x \in R \ {r} : y = Moved(r, applied, x)
    OBVIOUS
  <2>2. y.n = IF r.n # 0 /\ x.n > r.n THEN x.n - 1 ELSE x.n
    BY <1>2, <2>1
  <2>3. x.n \in 0..k /\ r.n \in 0..k /\ (r.n # 0 => x.n # r.n)
    BY <1>1
  <2> QED BY <1>3, <2>2, <2>3
<1>5. ASSUME NEW i \in 1..m PROVE \E y \in S : y.n = i
  <2>1. PICK j \in 1..k : j = IF r.n # 0 /\ i >= r.n THEN i + 1 ELSE i
    BY <1>1, <1>3
  <2>2. PICK x \in R : x.n = j
    BY <1>1
  <2>3. r.n \in 0..k
    BY <1>1
  <2>4. j # r.n
    BY <2>1, <2>3
  <2>5. Moved(r, applied, x) \in S /\ Moved(r, applied, x).n = i
    BY <1>2, <2>1, <2>2, <2>3, <2>4
  <2> QED BY <2>5
<1>6. ASSUME NEW y \in S, NEW z \in S, y.n = z.n, y.n # 0 PROVE y = z
  <2>1. PICK x \in R \ {r} : y = Moved(r, applied, x)
    OBVIOUS
  <2>2. PICK w \in R \ {r} : z = Moved(r, applied, w)
    OBVIOUS
  <2>3. /\ y.n = IF r.n # 0 /\ x.n > r.n THEN x.n - 1 ELSE x.n
        /\ z.n = IF r.n # 0 /\ w.n > r.n THEN w.n - 1 ELSE w.n
    BY <1>2, <2>1, <2>2
  <2>4. /\ x.n \in Nat /\ w.n \in Nat /\ r.n \in Nat
        /\ r.n # 0 => x.n # r.n /\ w.n # r.n
    BY <1>1
  <2>5. x.n = w.n /\ x.n # 0
    <3>1. PICK n, p, q \in Nat : n = r.n /\ p = x.n /\ q = w.n
      BY <2>4
    <3>2. /\ n # 0 => p # n /\ q # n
          /\ (IF n # 0 /\ p > n THEN p - 1 ELSE p) = (IF n # 0 /\ q > n THEN q - 1 ELSE q)
          /\ (IF n # 0 /\ p > n THEN p - 1 ELSE p) # 0
      BY <1>6, <2>3, <2>4, <3>1
    <3>3. p = q /\ p # 0
      BY <3>2, SameNumber
    <3> QED BY <3>1, <3>3
  <2> QED BY <1>1, <2>1, <2>2, <2>5
<1> QED BY <1>4, <1>5, <1>6 DEF Numbered

\* As many refreshes have a number as the highest one.
LEMMA HighestNumber ==
    ASSUME NEW R, Numbered(R), NEW n, n = 1 + Alert!Cardinality({x \in R : x.n # 0})
    PROVE  n \in Nat \ {0} /\ Numbered(R) /\ (\A x \in R : x.n \in 0..n - 1)
           /\ \A i \in 1..n - 1 : \E x \in R : x.n = i
<1>1. PICK k \in Nat : /\ \A x \in R : x.n \in 0..k
                       /\ \A i \in 1..k : \E x \in R : x.n = i
                       /\ \A x, y \in R : x.n = y.n /\ x.n # 0 => x = y
  BY DEF Numbered
<1>2. PICK read : read = {x \in R : x.n # 0}
  OBVIOUS
<1>3. PICK f : f = [i \in 1..k |-> CHOOSE x \in R : x.n = i]
  OBVIOUS
<1>4. \A i \in 1..k : f[i] \in read /\ f[i].n = i
  BY <1>1, <1>2, <1>3
<1>5. f \in Bijection(1..k, read)
  <2>1. f \in [1..k -> read]
    BY <1>3, <1>4
  <2>2. \A i, j \in 1..k : f[i] = f[j] => i = j
    BY <1>4
  <2>3. \A x \in read : x.n \in 1..k /\ f[x.n] = x
    BY <1>1, <1>2, <1>4
  <2> QED BY <2>1, <2>2, <2>3
          DEF Bijection, Injection, Surjection, IsInjective
<1>6. IsFiniteSet(1..k) /\ Cardinality(1..k) = k
  BY FS_Interval
<1>7. Cardinality(read) = k
  BY <1>5, <1>6, FS_Bijection DEF ExistsBijection
<1>8. Alert!Cardinality(read) = Cardinality(read)
  BY DEF Alert!Cardinality, Cardinality, Alert!IsFiniteSet, IsFiniteSet
<1>9. n = 1 + k
  BY <1>2, <1>7, <1>8
<1> QED
  <2>1. n \in Nat \ {0} /\ n - 1 = k
    BY <1>9
  <2> QED BY <1>1, <2>1

\* An answer has come: the server's data as they are, after those of the others.
LEMMA AlertRead ==
    ASSUME AlertInv, NEW r \in ui.refreshes, Alert!Read(r)
    PROVE  AlertInv'
<1> USE DEF AlertInv
<1>0. /\ ui.refreshes \subseteq Alert!Refresh /\ ui.server \in Alert!Data
      /\ ui.hasSeen \in BOOLEAN /\ ui.crossed \in Int /\ ui.ran \in Int
  BY DEF Alert!TypeOK
<1>1. PICK n, new : /\ n = 1 + Alert!Cardinality({x \in ui.refreshes : x.n # 0})
                    /\ new = [r EXCEPT !.data = ui.server, !.n = n]
  OBVIOUS
<1>2. ui' = [ui EXCEPT !.refreshes = (ui.refreshes \ {r}) \cup {new}]
  BY <1>1 DEF Alert!Read
<1>3. /\ (ui = AlertState)' /\ ui'.refreshes = (ui.refreshes \ {r}) \cup {new}
      /\ UNCHANGED <<ui.server, ui.budgetTiers, ui.recurringDue, ui.hasSeen, ui.changes,
                     ui.crossed, ui.ran, ui.reordered>>
  BY <1>2 DEF AlertState
<1>4. /\ n \in Nat \ {0} /\ \A x \in ui.refreshes : x.n \in 0..n - 1
      /\ \A i \in 1..n - 1 : \E x \in ui.refreshes : x.n = i
  BY <1>1, HighestNumber
<1>5. r.data = Alert!Unread /\ r.n = 0
  BY DEF Alert!Read
<1>6. /\ new \in Alert!Refresh /\ new.n = n /\ new.data = ui.server /\ new.late = r.late
  BY <1>0, <1>1, <1>4 DEF Alert!Refresh
<1>7. Alert!TypeOK'
  BY <1>0, <1>3, <1>6 DEF Alert!TypeOK
<1>8. Numbered(ui'.refreshes)
  <2>1. \A x \in ui'.refreshes : x.n \in 0..n
    BY <1>3, <1>4, <1>6
  <2>2. \A i \in 1..n : \E x \in ui'.refreshes : x.n = i
    <3>1. ASSUME NEW i \in 1..n - 1 PROVE \E x \in ui'.refreshes : x.n = i
      <4>1. PICK x \in ui.refreshes : x.n = i
        BY <1>4
      <4>2. x # r
        BY <1>5, <4>1
      <4> QED BY <1>3, <4>1, <4>2
    <3>2. new \in ui'.refreshes
      BY <1>3
    <3> QED BY <1>4, <1>6, <3>1, <3>2
  <2>3. \A x, y \in ui'.refreshes : x.n = y.n /\ x.n # 0 => x = y
    <3>1. \A x \in ui.refreshes : x.n # n
      BY <1>4
    <3>2. \A x, y \in ui.refreshes : x.n = y.n /\ x.n # 0 => x = y
      BY DEF Numbered
    <3> QED BY <1>3, <1>6, <3>1, <3>2
  <2> QED BY <1>4, <2>1, <2>2, <2>3 DEF Numbered
<1>9. \A x \in ui'.refreshes : x.n # 0 <=> x.data # Alert!Unread
  <2>1. ui.server # Alert!Unread
    BY <1>0 DEF Alert!Data, Alert!Unread, Alert!Tiers, Alert!NoBudget, Alert!GoneBudget
  <2> QED BY <1>3, <1>4, <1>6, <2>1
<1>10. ui.server.due = 0 => \A x \in ui'.refreshes : x.data.due = 0
  BY <1>3, <1>6
<1>11. OnTime' \in {OnTime, OnTime \cup {new}}
  BY <1>3, <1>4, <1>5, <1>6 DEF OnTime
<1>12. ASSUME NEW kind, NEW left \in Int,
              Enough(kind, OnTime, ui.hasSeen, Seen, ui.server, left)
       PROVE  Enough(kind, OnTime', ui.hasSeen, Seen, ui.server, left)
  <2>1. \A x \in OnTime : x.n \in Nat /\ x.n < new.n
    BY <1>4, <1>6 DEF OnTime
  <2>2. Enough(kind, OnTime \cup {new}, ui.hasSeen, Seen, ui.server, left)
    BY <1>0, <1>4, <1>6, <1>12, <2>1, EnoughForRead
  <2> QED BY <1>11, <1>12, <2>2
<1>13. Seen' = Seen
  BY <1>3 DEF Seen
<1> QED BY <1>0, <1>3, <1>7, <1>8, <1>9, <1>10, <1>12, <1>13

\* A refresh has gone; what is left of the others.
LEMMA AlertWithout ==
    ASSUME AlertInv, NEW r \in ui.refreshes, NEW applied \in BOOLEAN,
           ui'.refreshes = Alert!Without(r, applied)
    PROVE  /\ \A y \in ui'.refreshes : y \in Alert!Refresh
           /\ Numbered(ui'.refreshes)
           /\ \A y \in ui'.refreshes : y.n # 0 <=> y.data # Alert!Unread
           /\ (\A x \in ui.refreshes : x.data.due = 0) => \A y \in ui'.refreshes : y.data.due = 0
           /\ r.n \in Nat
           /\ \A y \in OnTime' : \E x \in OnTime :
                 /\ x.n # r.n /\ y.data = x.data
                 /\ applied /\ r.n # 0 => x.n > r.n
                 /\ y.n = IF r.n # 0 /\ x.n > r.n THEN x.n - 1 ELSE x.n
<1> USE DEF AlertInv
<1>0. ui.refreshes \subseteq Alert!Refresh /\ r.n \in Nat /\ \A x \in ui.refreshes : x.n \in Nat
  BY DEF Alert!TypeOK, Alert!Refresh
<1>1. ui'.refreshes = {Moved(r, applied, x) : x \in ui.refreshes \ {r}}
  BY DEF Alert!Without, Moved
<1>2. ASSUME NEW y \in ui'.refreshes
      PROVE  \E x \in ui.refreshes \ {r} :
                /\ y \in Alert!Refresh /\ y.data = x.data
                /\ y.n = IF r.n # 0 /\ x.n > r.n THEN x.n - 1 ELSE x.n
                /\ ~y.late => ~x.late /\ (applied => x.n \notin 1..r.n)
  <2>1. PICK x \in ui.refreshes \ {r} : y = Moved(r, applied, x)
    BY <1>1
  <2>2. r \in Alert!Refresh /\ x \in Alert!Refresh
    BY <1>0
  <2>3. y \in Alert!Refresh /\ IsMoved(r, applied, x, y)
    BY <2>1, <2>2, MovedIsRefresh
  <2> QED BY <2>3 DEF IsMoved
<1>3. Numbered(ui'.refreshes)
  BY <1>0, <1>1, NumberedWithout
<1>4. ASSUME NEW y \in ui'.refreshes PROVE y.n # 0 <=> y.data # Alert!Unread
  <2>1. PICK x \in ui.refreshes \ {r} :
            y.data = x.data /\ y.n = IF r.n # 0 /\ x.n > r.n THEN x.n - 1 ELSE x.n
    BY <1>2
  <2>2. y.n # 0 <=> x.n # 0
    BY <1>0, <2>1
  <2> QED BY <2>1, <2>2
<1>5. (\A x \in ui.refreshes : x.data.due = 0) => \A y \in ui'.refreshes : y.data.due = 0
  BY <1>2
<1>6. ASSUME NEW y \in OnTime'
      PROVE  \E x \in OnTime :
                /\ x.n # r.n /\ y.data = x.data
                /\ applied /\ r.n # 0 => x.n > r.n
                /\ y.n = IF r.n # 0 /\ x.n > r.n THEN x.n - 1 ELSE x.n
  <2>1. y \in ui'.refreshes /\ y.n # 0 /\ ~y.late
    BY DEF OnTime
  <2>2. PICK x \in ui.refreshes \ {r} :
                /\ y.data = x.data
                /\ y.n = IF r.n # 0 /\ x.n > r.n THEN x.n - 1 ELSE x.n
                /\ ~y.late => ~x.late /\ (applied => x.n \notin 1..r.n)
    BY <1>2, <2>1
  <2>3. x.n # 0 /\ x.n \in Nat
    BY <1>0, <2>1, <2>2
  <2>4. x.n # r.n
    BY <2>3 DEF Numbered
  <2>5. applied /\ r.n # 0 => x.n > r.n
    BY <1>0, <2>1, <2>2, <2>3, <2>4
  <2> QED BY <2>1, <2>2, <2>3, <2>4, <2>5 DEF OnTime
<1> QED BY <1>0, <1>2, <1>3, <1>4, <1>5, <1>6

\* A refresh has failed: nothing else changes.
LEMMA AlertFailed ==
    ASSUME AlertInv, NEW r \in ui.refreshes, Alert!RefreshFails(r)
    PROVE  AlertInv'
<1> USE DEF AlertInv
<1>1. ui' = [ui EXCEPT !.refreshes = Alert!Without(r, FALSE), !.failures = ui.failures + 1]
  BY DEF Alert!RefreshFails
<1>2. /\ (ui = AlertState)' /\ ui'.refreshes = Alert!Without(r, FALSE)
      /\ UNCHANGED <<ui.server, ui.budgetTiers, ui.recurringDue, ui.hasSeen, ui.changes,
                     ui.crossed, ui.ran, ui.reordered>>
  BY <1>1 DEF AlertState
<1>3. /\ \A y \in ui'.refreshes : y \in Alert!Refresh
      /\ Numbered(ui'.refreshes)
      /\ \A y \in ui'.refreshes : y.n # 0 <=> y.data # Alert!Unread
      /\ (\A x \in ui.refreshes : x.data.due = 0) => \A y \in ui'.refreshes : y.data.due = 0
      /\ r.n \in Nat
      /\ \A y \in OnTime' : \E x \in OnTime :
            /\ x.n # r.n /\ y.data = x.data
            /\ y.n = IF r.n # 0 /\ x.n > r.n THEN x.n - 1 ELSE x.n
  BY <1>2, AlertWithout
<1>4. Alert!TypeOK'
  BY <1>2, <1>3 DEF Alert!TypeOK
<1>5. ASSUME NEW kind, NEW left \in Int,
             Enough(kind, OnTime, ui.hasSeen, Seen, ui.server, left)
      PROVE  Enough(kind, OnTime', ui.hasSeen, Seen, ui.server, left)
  <2>1. ui.hasSeen \in BOOLEAN /\ \A x \in OnTime : x.n \in Nat /\ x.n # 0
    BY DEF OnTime, Alert!TypeOK, Alert!Refresh
  <2>2. CASE r.n # 0
    <3>1. Renumbered(OnTime, r.n, OnTime')
      BY <1>3, <2>2 DEF Renumbered
    <3>2. r.n \in Nat
      BY <1>3
    <3> QED BY <1>5, <2>1, <3>1, <3>2, EnoughRenumbered
  <2>3. CASE r.n = 0
    <3>1. \A y \in OnTime' : \E x \in OnTime : y.data = x.data /\ y.n = x.n
      BY <1>3, <2>3
    <3> QED BY <1>5, <3>1 DEF Enough
  <2> QED BY <2>2, <2>3
<1>6. Seen' = Seen /\ ui.crossed \in Int /\ ui.ran \in Int
  BY <1>2 DEF Seen, Alert!TypeOK
<1> QED BY <1>2, <1>3, <1>4, <1>5, <1>6

\* A refresh is applied: it alerts, and those read before it are late.
LEMMA AlertApplied ==
    ASSUME AlertInv, NEW r \in ui.refreshes, Alert!Apply(r)
    PROVE  AlertInv'
<1> USE DEF AlertInv
<1>0. /\ r \in Alert!Refresh /\ r.n # 0 /\ r.data \in Alert!Data
      /\ ui.hasSeen \in BOOLEAN /\ ui.crossed \in Int /\ ui.ran \in Int
  BY DEF Alert!TypeOK, Alert!Apply, Alert!Refresh
<1>1. PICK over, entries : /\ over = NewsFirst("over", ui.hasSeen, Seen, r.data)
                           /\ entries = NewsFirst("entry", ui.hasSeen, Seen, r.data)
  OBVIOUS
<1>2. over \in Int /\ entries \in Int
  BY <1>1, NewsIsNumber
<1>3. /\ (ui = AlertState)' /\ ui'.refreshes = Alert!Without(r, TRUE)
      /\ ui'.hasSeen = TRUE /\ ui'.budgetTiers = r.data.budget
      /\ ui'.recurringDue = r.data.due
      /\ ui'.crossed = ui.crossed - over /\ ui'.ran = ui.ran - entries
      /\ ui'.server = ui.server /\ ui'.changes = ui.changes
  <2>1. CASE ui.hasSeen
    <3>1. PICK alerted, announced :
            /\ alerted = IF r.data.budget = "over" /\ ui.budgetTiers # "over" THEN 1 ELSE 0
            /\ announced = IF /\ ui.recurringDue \in 1..MaxDue
                             /\ r.data.due \in (1..MaxDue) \ {ui.recurringDue} THEN 1 ELSE 0
      OBVIOUS
    <3>2. ui' = [[ui EXCEPT !.budgetTiers = r.data.budget, !.crossed = ui.crossed - alerted,
                            !.recurringDue = r.data.due, !.ran = ui.ran - announced]
                    EXCEPT !.refreshes = Alert!Without(r, TRUE),
                           !.reordered = @ \/ r.late]
      BY <2>1, <3>1 DEF Alert!Apply, Alert!Compared, Alert!checkBudgetAlerts,
                        Alert!checkRecurringFires, Alert!Dues
    <3>3. alerted = over /\ announced = entries
      BY <1>1, <2>1, <3>1 DEF NewsFirst, News, Seen
    <3> QED BY <2>1, <3>2, <3>3 DEF AlertState
  <2>2. CASE ~ui.hasSeen
    <3>1. ui' = [[ui EXCEPT !.hasSeen = TRUE, !.budgetTiers = r.data.budget,
                            !.recurringDue = r.data.due]
                    EXCEPT !.refreshes = Alert!Without(r, TRUE),
                           !.reordered = @ \/ r.late]
      BY <2>2 DEF Alert!Apply, Alert!SeenAtFirst
    <3>2. over = 0 /\ entries = 0
      BY <1>1, <2>2 DEF NewsFirst
    <3>3. PICK reordered : reordered = (ui.reordered \/ r.late)
      OBVIOUS
    <3>4. ui' = [ui EXCEPT !.hasSeen = TRUE, !.budgetTiers = r.data.budget,
                           !.recurringDue = r.data.due,
                           !.refreshes = Alert!Without(r, TRUE), !.reordered = reordered]
      BY <3>1, <3>3 DEF AlertState
    <3>5. (ui = AlertState)' /\ ui'.hasSeen = TRUE
      BY <3>4 DEF AlertState
    <3>6. /\ ui'.refreshes = Alert!Without(r, TRUE) /\ ui'.budgetTiers = r.data.budget
          /\ ui'.recurringDue = r.data.due
          /\ ui'.crossed = ui.crossed /\ ui'.ran = ui.ran
          /\ ui'.server = ui.server /\ ui'.changes = ui.changes
      BY <3>4 DEF AlertState
    <3> QED BY <1>0, <3>2, <3>5, <3>6
  <2> QED BY <1>0, <2>1, <2>2
<1>4. PICK reordered \in BOOLEAN : reordered = (ui.reordered \/ r.late)
  OBVIOUS
<1>5. ui'.reordered = reordered /\ (~reordered => ~ui.reordered /\ ~r.late)
  <2>1. CASE ui.hasSeen
    BY <1>4, <2>1 DEF Alert!Apply, Alert!Compared, AlertState
  <2>2. CASE ~ui.hasSeen
    BY <1>4, <2>2 DEF Alert!Apply, Alert!SeenAtFirst, AlertState
  <2> QED BY <1>0, <2>1, <2>2
<1>6. /\ \A y \in ui'.refreshes : y \in Alert!Refresh
      /\ Numbered(ui'.refreshes)
      /\ \A y \in ui'.refreshes : y.n # 0 <=> y.data # Alert!Unread
      /\ (\A x \in ui.refreshes : x.data.due = 0) => \A y \in ui'.refreshes : y.data.due = 0
      /\ r.n \in Nat
      /\ \A y \in OnTime' : \E x \in OnTime :
            /\ x.n # r.n /\ y.data = x.data
            /\ TRUE /\ r.n # 0 => x.n > r.n
            /\ y.n = IF r.n # 0 /\ x.n > r.n THEN x.n - 1 ELSE x.n
  BY <1>3, AlertWithout
<1>7. Alert!TypeOK'
  <2>1. /\ r.data.budget \in Alert!Tiers \cup {Alert!NoBudget, Alert!GoneBudget}
        /\ r.data.due \in 0..Alert!GoneRule
    BY <1>0 DEF Alert!Data
  <2>2. ui'.crossed \in Int /\ ui'.ran \in Int
    BY <1>0, <1>2, <1>3
  <2> QED BY <1>3, <1>5, <1>6, <2>1, <2>2 DEF Alert!TypeOK
<1>8. ASSUME NEW kind, NEW left \in Int, ~r.late,
             Enough(kind, OnTime, ui.hasSeen, Seen, ui.server, left)
      PROVE  Enough(kind, OnTime', TRUE, r.data, ui.server,
                    left - NewsFirst(kind, ui.hasSeen, Seen, r.data))
  <2>1. PICK after : after = {x \in OnTime : x.n > r.n}
    OBVIOUS
  <2>2. PICK given \in Int : given = left - NewsFirst(kind, ui.hasSeen, Seen, r.data)
    BY NewsIsNumber
  <2>3. r \in OnTime /\ \A x \in OnTime : x.n \in Nat
    BY <1>0, <1>8 DEF OnTime, Alert!TypeOK, Alert!Refresh
  <2>4. Enough(kind, after, TRUE, r.data, ui.server, given)
    BY <1>0, <1>8, <2>1, <2>2, <2>3, EnoughForApplied
  <2>5. Renumbered(after, r.n, OnTime')
    BY <1>0, <1>6, <2>1 DEF Renumbered
  <2>6. Enough(kind, OnTime', TRUE, r.data, ui.server, given)
    <3>1. PICK true \in BOOLEAN : true
      BY Zenon
    <3>2. Enough(kind, after, true, r.data, ui.server, given)
      BY <2>4, <3>1 DEF Enough, NewsFirst
    <3>3. r.n \in Nat /\ \A x \in after : x.n \in Nat
      BY <1>6, <2>1, <2>3
    <3>4. Enough(kind, OnTime', true, r.data, ui.server, given)
      BY <2>5, <3>2, <3>3, EnoughRenumbered
    <3> QED BY <3>1, <3>4 DEF Enough, NewsFirst
  <2> QED BY <2>2, <2>6
<1>9. Seen' = r.data
  BY <1>0, <1>3 DEF Seen, Alert!Data
<1>10. ~reordered =>
          /\ Enough("over", OnTime', TRUE, r.data, ui.server, ui'.crossed)
          /\ Enough("entry", OnTime', TRUE, r.data, ui.server, ui'.ran)
  BY <1>0, <1>1, <1>3, <1>5, <1>8
<1> QED BY <1>3, <1>5, <1>6, <1>7, <1>9, <1>10

LEMMA AlertKeeps == AlertInv /\ [Alert!Next]_ui => AlertInv'
<1> SUFFICES ASSUME AlertInv, [Alert!Next]_ui PROVE AlertInv'
  OBVIOUS
<1> USE DEF AlertInv
<1>0. /\ ui.server \in Alert!Data /\ ui.hasSeen \in BOOLEAN /\ ui.reordered \in BOOLEAN
      /\ ui.changes \subseteq Alert!Operation /\ ui.refreshes \subseteq Alert!Refresh
      /\ ui.crossed \in Int /\ ui.ran \in Int
  BY DEF Alert!TypeOK
<1>1. ASSUME NEW tier \in Alert!Tiers, Alert!Spend(tier) PROVE AlertInv'
  <2>0. PICK server, crossings : /\ server = [ui.server EXCEPT !.budget = tier]
                                 /\ crossings = Alert!Crossing(tier)
    OBVIOUS
  <2>1. ui' = [ui EXCEPT !.server = server, !.spends = ui.spends + 1,
                         !.crossed = ui.crossed + crossings]
    BY <1>1, <2>0 DEF Alert!Spend
  <2>2. (ui = AlertState)'
    BY <2>1 DEF AlertState
  <2>3. /\ ui'.server = server /\ ui'.crossed = ui.crossed + crossings /\ ui'.ran = ui.ran + 0
        /\ UNCHANGED <<ui.budgetTiers, ui.recurringDue, ui.hasSeen, ui.reordered, ui.changes,
                       ui.refreshes>>
    BY <1>0, <2>1 DEF AlertState
  <2>4. /\ server \in Alert!Data /\ server.due = ui.server.due /\ crossings \in {0, 1}
        /\ server.budget = "over" /\ ui.server.budget # "over" => crossings = 1
    BY <1>0, <2>0 DEF Alert!Data, Alert!Crossing
  <2>5. ServerMay(server, crossings, 0)
    BY <2>4 DEF ServerMay
  <2>6. ServerChanges(server, crossings, 0, Alert!Started(FALSE))
    BY <1>0, <2>2, <2>3, <2>4 DEF ServerChanges
  <2> QED BY <2>5, <2>6, AlertServer
<1>2. CASE Alert!RunRule
  <2>0. PICK server : server = [ui.server EXCEPT !.due = ui.server.due + 1]
    OBVIOUS
  <2>1. ui' = [ui EXCEPT !.server = server, !.ran = ui.ran + 1]
    BY <1>2, <2>0 DEF Alert!RunRule
  <2>2. (ui = AlertState)'
    BY <2>1 DEF AlertState
  <2>3. /\ ui'.server = server /\ ui'.crossed = ui.crossed + 0 /\ ui'.ran = ui.ran + 1
        /\ UNCHANGED <<ui.budgetTiers, ui.recurringDue, ui.hasSeen, ui.reordered, ui.changes,
                       ui.refreshes>>
    BY <1>0, <2>1 DEF AlertState
  <2>4. ui.server.due \in 1..MaxDue - 1
    BY <1>2 DEF Alert!RunRule
  <2>5. /\ server \in Alert!Data /\ server.budget = ui.server.budget
        /\ server.due # 0 /\ ui.server.due # 0
    BY <1>0, <2>0, <2>4, BoundsAreNatural DEF Alert!Data, Alert!GoneRule
  <2>6. ServerMay(server, 0, 1)
    BY <2>5 DEF ServerMay
  <2>7. ServerChanges(server, 0, 1, Alert!Started(FALSE))
    BY <1>0, <2>2, <2>3, <2>5 DEF ServerChanges
  <2> QED BY <2>6, <2>7, AlertServer
<1>3. CASE Alert!Poll
  <2>1. ui' = [ui EXCEPT !.refreshes = ui.refreshes \cup {Alert!Started(TRUE)}]
    BY <1>3 DEF Alert!Poll, Alert!Refreshed
  <2>2. (ui = AlertState)'
    BY <2>1 DEF AlertState
  <2>3. /\ ui'.server = ui.server /\ ui'.crossed = ui.crossed + 0 /\ ui'.ran = ui.ran + 0
        /\ UNCHANGED <<ui.budgetTiers, ui.recurringDue, ui.hasSeen, ui.reordered, ui.changes>>
        /\ ui'.refreshes = ui.refreshes \cup {Alert!Started(TRUE)}
    BY <1>0, <2>1 DEF AlertState
  <2>4. ServerMay(ui.server, 0, 0)
    BY <1>0 DEF ServerMay
  <2>5. ServerChanges(ui.server, 0, 0, Alert!Started(TRUE))
    BY <1>0, <2>2, <2>3 DEF ServerChanges
  <2> QED BY <2>4, <2>5, AlertServer
<1>4. ASSUME NEW op \in Alert!Operation, Alert!Maintain(op) PROVE AlertInv'
  <2>1. /\ ui' = [ui EXCEPT !.changes = {op}, !.made = ui.made + 1]
        /\ op = "createRecurring" => ui.server.due = 0
    BY <1>4 DEF Alert!Maintain
  <2>2. (ui = AlertState)'
    BY <2>1 DEF AlertState
  <2>3. /\ ui'.server = ui.server /\ ui'.crossed = ui.crossed + 0 /\ ui'.ran = ui.ran + 0
        /\ UNCHANGED <<ui.budgetTiers, ui.recurringDue, ui.hasSeen, ui.reordered, ui.refreshes>>
        /\ ui'.changes = {op}
    BY <1>0, <2>1 DEF AlertState
  <2>4. ui'.changes \subseteq Alert!Operation
    BY <2>3
  <2>5. ServerMay(ui.server, 0, 0)
    BY <1>0 DEF ServerMay
  <2>6. ServerChanges(ui.server, 0, 0, Alert!Started(FALSE))
    BY <1>0, <2>1, <2>2, <2>3, <2>4 DEF ServerChanges
  <2> QED BY <2>5, <2>6, AlertServer
<1>5. ASSUME NEW op \in ui.changes, NEW after \in Alert!Done(op) \cup {ui.server}
      PROVE  /\ after \in Alert!Data /\ (after.due = 0 => ui.server.due = 0)
             /\ \/ after.due = ui.server.due \/ ui.server.due = 0
                \/ after.due \notin 1..MaxDue
             /\ Alert!Crossing(after.budget) \in {0, 1}
             /\ after.budget = "over" /\ ui.server.budget # "over"
                   => Alert!Crossing(after.budget) = 1
  <2>1. CASE after = ui.server
    BY <1>0, <2>1 DEF Alert!Crossing
  <2>2. CASE op \in {"createBudget", "updateBudget"} /\ after # ui.server
    <3>1. PICK tier \in Alert!Tiers : after = [ui.server EXCEPT !.budget = tier]
      BY <2>2 DEF Alert!Done
    <3> QED BY <1>0, <3>1 DEF Alert!Data, Alert!Crossing
  <2>3. CASE op = "deleteBudget" /\ after # ui.server
    <3>1. after = [ui.server EXCEPT !.budget = Alert!GoneBudget]
      BY <2>3 DEF Alert!Done
    <3> QED BY <1>0, <3>1 DEF Alert!Data, Alert!Crossing
  <2>4. CASE op = "createRecurring" /\ after # ui.server
    <3>1. PICK d \in 1..MaxDue : after = [ui.server EXCEPT !.due = d]
      BY <2>4 DEF Alert!Done, Alert!Dues
    <3> QED BY <1>0, <2>4, <3>1, BoundsAreNatural
            DEF Alert!Data, Alert!Crossing, Alert!GoneRule
  <2>5. CASE op = "deleteRecurring" /\ after # ui.server
    <3>1. after = [ui.server EXCEPT !.due = MaxDue + 1]
      BY <2>5 DEF Alert!Done, Alert!GoneRule
    <3> QED BY <1>0, <3>1, BoundsAreNatural DEF Alert!Data, Alert!Crossing, Alert!GoneRule
  <2>6. CASE op = "other" /\ after # ui.server
    BY <2>6 DEF Alert!Done
  <2> QED BY <1>0, <2>1, <2>2, <2>3, <2>4, <2>5, <2>6 DEF Alert!Operation
<1>6. ASSUME NEW op \in ui.changes, Alert!MaintainDone(op) PROVE AlertInv'
  <2>0. PICK after \in Alert!Done(op) :
          ui' = [Alert!Refreshed(FALSE) EXCEPT !.server = after, !.changes = {},
                                               !.crossed = @ + Alert!Crossing(after.budget)]
    BY <1>6 DEF Alert!MaintainDone
  <2>1. ui' = [ui EXCEPT !.refreshes = ui.refreshes \cup {Alert!Started(FALSE)},
                         !.server = after, !.changes = {},
                         !.crossed = ui.crossed + Alert!Crossing(after.budget)]
    BY <2>0 DEF Alert!Refreshed, AlertState
  <2>2. (ui = AlertState)'
    BY <2>1 DEF AlertState
  <2>3. /\ ui'.server = after /\ ui'.crossed = ui.crossed + Alert!Crossing(after.budget)
        /\ ui'.ran = ui.ran + 0 /\ ui'.changes = {}
        /\ UNCHANGED <<ui.budgetTiers, ui.recurringDue, ui.hasSeen, ui.reordered>>
        /\ ui'.refreshes = ui.refreshes \cup {Alert!Started(FALSE)}
    BY <1>0, <2>1 DEF AlertState
  <2>4. PICK crossings : crossings = Alert!Crossing(after.budget)
    OBVIOUS
  <2>5. ServerMay(after, crossings, 0)
    BY <1>5, <2>4 DEF ServerMay
  <2>6. ServerChanges(after, crossings, 0, Alert!Started(FALSE))
    BY <1>0, <2>2, <2>3, <2>4 DEF ServerChanges
  <2> QED BY <2>5, <2>6, AlertServer
<1>7. ASSUME NEW op \in ui.changes, Alert!MaintainLost(op) PROVE AlertInv'
  <2>1. PICK after \in Alert!Done(op) \cup {ui.server} :
          ui' = [ui EXCEPT !.server = after, !.changes = {}, !.failures = ui.failures + 1,
                           !.crossed = ui.crossed + Alert!Crossing(after.budget)]
    BY <1>7 DEF Alert!MaintainLost
  <2>2. (ui = AlertState)'
    BY <2>1 DEF AlertState
  <2>3. /\ ui'.server = after /\ ui'.crossed = ui.crossed + Alert!Crossing(after.budget)
        /\ ui'.ran = ui.ran + 0 /\ ui'.changes = {}
        /\ UNCHANGED <<ui.budgetTiers, ui.recurringDue, ui.hasSeen, ui.reordered, ui.refreshes>>
    BY <1>0, <2>1 DEF AlertState
  <2>4. PICK crossings : crossings = Alert!Crossing(after.budget)
    OBVIOUS
  <2>5. ServerMay(after, crossings, 0)
    BY <1>5, <2>4 DEF ServerMay
  <2>6. ServerChanges(after, crossings, 0, Alert!Started(FALSE))
    BY <1>0, <2>2, <2>3, <2>4 DEF ServerChanges
  <2> QED BY <2>5, <2>6, AlertServer
<1>8. ASSUME NEW r \in ui.refreshes, Alert!Read(r) PROVE AlertInv'
  BY <1>8, AlertRead
<1>9. ASSUME NEW r \in ui.refreshes, Alert!Apply(r) PROVE AlertInv'
  BY <1>9, AlertApplied
<1>10. ASSUME NEW r \in ui.refreshes, Alert!RefreshFails(r) PROVE AlertInv'
  BY <1>10, AlertFailed
<1>11. CASE UNCHANGED ui
  <2>1. OnTime' = OnTime /\ Seen' = Seen
    BY <1>11 DEF OnTime, Seen
  <2> QED BY <1>11, <2>1 DEF AlertState, Alert!TypeOK
<1> QED BY <1>1, <1>2, <1>3, <1>4, <1>6, <1>7, <1>8, <1>9, <1>10, <1>11 DEF Alert!Next

\* The invariant says what the run checks.
LEMMA AlertRight == AlertInv => Alert!AlertsAreNews
<1> SUFFICES ASSUME AlertInv, ~ui.reordered PROVE ui.crossed >= 0 /\ ui.ran >= 0
  BY DEF Alert!AlertsAreNews
<1>1. \A kind, left : left \in Int /\ Enough(kind, OnTime, ui.hasSeen, Seen, ui.server, left)
                         => left >= 0
  BY NewsIsNumber DEF Enough
<1> QED BY <1>1 DEF AlertInv, Alert!TypeOK

-----------------------------------------------------------------------------
(* Least, greatest and sums                                                 *)

LEMMA SomeFirst ==
  ASSUME NEW S, S \subseteq Nat, S # {}
  PROVE  \E m \in S : \A k \in S : m <= k
<1>1. PICK m \in S : \A k \in S : ~ (<<k, m>> \in OpToRel(<, Nat))
  BY NatLessThanWellFounded, WFMin
<1>2. \A k \in S : ~(k < m)
  BY <1>1 DEF OpToRel
<1> QED BY <1>2

LEMMA SomeLast ==
  ASSUME NEW n \in Nat, NEW S, S \subseteq 1..n, S # {}
  PROVE  \E m \in S : \A k \in S : k <= m
<1> DEFINE T == {n - i : i \in S}
<1>1. T \subseteq Nat /\ T # {}
  <2>1. \A i \in S : n - i \in Nat
    OBVIOUS
  <2> QED BY <2>1
<1>2. PICK t \in T : \A k \in T : t <= k
  BY <1>1, SomeFirst, Zenon
<1>3. PICK m \in S : t = n - m
  OBVIOUS
<1>4. ASSUME NEW k \in S PROVE k <= m
  <2>1. n - k \in T
    OBVIOUS
  <2>2. n - m <= n - k
    BY <1>2, <1>3, <2>1
  <2> QED BY <2>2
<1> QED BY <1>4

\* An induction on finite sets: of some sets, one is smallest.
LEMMA SomeSmallest ==
  ASSUME NEW S, IsFiniteSet(S), NEW B, B \subseteq SUBSET S, B # {}
  PROVE  \E T \in B : /\ IsFiniteSet(T)
                      /\ \A x \in T : IsFiniteSet(T \ {x}) /\ T \ {x} \notin B
<1> DEFINE sizes == {Cardinality(T) : T \in B}
<1>1. ASSUME NEW T \in B
      PROVE  IsFiniteSet(T) /\ Cardinality(T) \in Nat
  BY FS_Subset, FS_CardinalityType
<1>2. sizes \subseteq Nat /\ sizes # {}
  BY <1>1
<1>3. PICK m \in sizes : \A k \in sizes : m <= k
  BY <1>2, SomeFirst, Zenon
<1>4. PICK T \in B : Cardinality(T) = m
  BY <1>3
<1>5. ASSUME NEW x \in T PROVE IsFiniteSet(T \ {x}) /\ T \ {x} \notin B
  <2>1. IsFiniteSet(T \ {x}) /\ Cardinality(T \ {x}) = Cardinality(T) - 1
    BY <1>1, FS_RemoveElement
  <2>2. ~(m <= m - 1)
    BY <1>1, <1>4
  <2>3. T \ {x} \in B => Cardinality(T \ {x}) \in sizes
    OBVIOUS
  <2> QED BY <1>3, <1>4, <2>1, <2>2, <2>3
<1> QED BY <1>1, <1>5

\* A sum takes the elements of its set in some order.
Sum(f, S) == Report!SumFunctionOnSet(f, S)
Pick(S) == CHOOSE x \in S : TRUE
Sums(g, f, sets) ==
    g = [s \in sets |-> IF s = {} THEN 0 ELSE f[Pick(s)] + g[s \ {Pick(s)}]]

LEMMA Picked == ASSUME NEW S, S # {} PROVE Pick(S) \in S
BY DEF Pick

LEMMA SumsAre ==
  ASSUME NEW g, NEW f, NEW sets, Sums(g, f, sets), NEW s \in sets
  PROVE  g[s] = IF s = {} THEN 0 ELSE f[Pick(s)] + g[s \ {Pick(s)}]
<1> DEFINE body(t) == IF t = {} THEN 0 ELSE f[Pick(t)] + g[t \ {Pick(t)}]
<1>1. g = [t \in sets |-> body(t)]
  BY DEF Sums
<1> HIDE DEF body
<1>2. g[s] = body(s)
  BY <1>1
<1> QED BY <1>2 DEF body

LEMMA SumsExist ==
  ASSUME NEW f, NEW S, IsFiniteSet(S)
  PROVE  \E g : Sums(g, f, SUBSET S)
<1> DEFINE upTo(k) == {s \in SUBSET S : Cardinality(s) <= k}
           bad == {k \in Nat : ~\E g : Sums(g, f, upTo(k))}
<1>1. \A s \in SUBSET S : IsFiniteSet(s) /\ Cardinality(s) \in 0..Cardinality(S)
  BY FS_Subset, FS_CardinalityType
<1>2. Cardinality(S) \in Nat
  BY FS_CardinalityType
<1>3. ASSUME bad # {} PROVE FALSE
  <2>1. bad \subseteq Nat
    OBVIOUS
  <2>2. PICK k \in bad : \A j \in bad : k <= j
    BY <1>3, <2>1, SomeFirst, Zenon
  <2>3. CASE k = 0
    <3>1. \A s \in upTo(0) : s = {}
      BY <1>1, FS_EmptySet
    <3>2. Sums([s \in upTo(0) |-> 0], f, upTo(0))
      BY <3>1 DEF Sums
    <3> QED BY <2>2, <2>3, <3>2
  <2>4. CASE k # 0
    <3>1. k \in Nat /\ k - 1 \in Nat /\ k - 1 \notin bad
      BY <2>2, <2>4
    <3>2. PICK g : Sums(g, f, upTo(k - 1))
      BY <3>1
    <3> DEFINE body(s) == IF s = {} THEN 0 ELSE f[Pick(s)] + g[s \ {Pick(s)}]
               h == [s \in upTo(k) |-> body(s)]
    <3>3. ASSUME NEW s \in upTo(k), s # {}
          PROVE  /\ s \ {Pick(s)} \in upTo(k - 1) /\ s \ {Pick(s)} \in upTo(k)
      <4>1. Cardinality(s \ {Pick(s)}) = Cardinality(s) - 1
        BY <1>1, <3>3, FS_RemoveElement, Picked
      <4> QED BY <1>1, <3>1, <4>1
    <3>4. \A s \in upTo(k - 1) : g[s] = body(s)
      BY <3>2, SumsAre
    <3>5. \A s \in upTo(k) : h[s] = body(s)
      OBVIOUS
    <3>6. ASSUME NEW s \in upTo(k), s # {} PROVE h[s \ {Pick(s)}] = g[s \ {Pick(s)}]
      <4>1. PICK t : t = s \ {Pick(s)}
        OBVIOUS
      <4>2. t \in upTo(k - 1) /\ t \in upTo(k)
        BY <3>3, <3>6, <4>1, Zenon
      <4> HIDE DEF body, h, upTo
      <4> QED BY <3>4, <3>5, <4>1, <4>2
    <3>7. \A s \in upTo(k) : body(s) = IF s = {} THEN 0 ELSE f[Pick(s)] + h[s \ {Pick(s)}]
      <4> SUFFICES ASSUME NEW s \in upTo(k)
                   PROVE  body(s) = IF s = {} THEN 0 ELSE f[Pick(s)] + h[s \ {Pick(s)}]
        OBVIOUS
      <4>1. s # {} => h[s \ {Pick(s)}] = g[s \ {Pick(s)}]
        BY <3>6
      <4> HIDE DEF h, upTo
      <4> QED BY <4>1
    <3>8. Sums(h, f, upTo(k))
      <4> HIDE DEF body, upTo
      <4>1. h = [s \in upTo(k) |-> IF s = {} THEN 0 ELSE f[Pick(s)] + h[s \ {Pick(s)}]]
        BY <3>7
      <4> HIDE DEF h
      <4> QED BY <4>1 DEF Sums
    <3> QED BY <2>2, <3>8
  <2> QED BY <2>3, <2>4
<1>4. Cardinality(S) \notin bad
  BY <1>3
<1>5. upTo(Cardinality(S)) = SUBSET S
  BY <1>1, <1>2
<1> HIDE DEF upTo
<1> QED BY <1>2, <1>4, <1>5

LEMMA SumsAgree ==
  ASSUME NEW S, IsFiniteSet(S), NEW f, NEW g, Sums(g, f, SUBSET S),
         NEW T \in SUBSET S, NEW h, Sums(h, f, SUBSET T)
  PROVE  \A s \in SUBSET T : g[s] = h[s]
<1> DEFINE bad == {s \in SUBSET T : g[s] # h[s]}
<1> SUFFICES ASSUME bad # {} PROVE FALSE
  OBVIOUS
<1>1. IsFiniteSet(T) /\ bad \subseteq SUBSET T
  BY FS_Subset
<1>2. PICK s \in bad : \A x \in s : s \ {x} \notin bad
  BY <1>1, SomeSmallest, Zenon
<1>3. s \in SUBSET T /\ s \in SUBSET S /\ g[s] # h[s]
  OBVIOUS
<1>4. /\ g[s] = IF s = {} THEN 0 ELSE f[Pick(s)] + g[s \ {Pick(s)}]
      /\ h[s] = IF s = {} THEN 0 ELSE f[Pick(s)] + h[s \ {Pick(s)}]
  BY <1>3, SumsAre
<1>5. s # {}
  BY <1>3, <1>4
<1>6. g[s \ {Pick(s)}] = h[s \ {Pick(s)}]
  <2>1. Pick(s) \in s
    BY <1>5, Picked
  <2>2. s \ {Pick(s)} \in SUBSET T /\ s \ {Pick(s)} \notin bad
    BY <1>2, <1>3, <2>1
  <2> QED BY <2>2
<1> QED BY <1>3, <1>4, <1>5, <1>6

LEMMA SumUnfolds ==
  ASSUME NEW f, NEW S, IsFiniteSet(S)
  PROVE  Sum(f, S) = IF S = {} THEN 0 ELSE f[Pick(S)] + Sum(f, S \ {Pick(S)})
<1> DEFINE G(T) == CHOOSE g : Sums(g, f, SUBSET T)
<1>1. ASSUME NEW T PROVE Sum(f, T) = G(T)[T]
  BY DEF Sum, Report!SumFunctionOnSet, Report!FoldFunctionOnSet, Report!MapThenFoldSet,
         Sums, Pick
<1>2. ASSUME NEW T, IsFiniteSet(T) PROVE Sums(G(T), f, SUBSET T)
  <2>1. \E g : Sums(g, f, SUBSET T)
    BY <1>2, SumsExist
  <2> QED BY <2>1
<1> HIDE DEF G
<1>3. CASE S = {}
  <2>1. Sums(G(S), f, SUBSET S) /\ S \in SUBSET S
    BY <1>2
  <2>2. G(S)[S] = 0
    BY <1>3, <2>1, SumsAre
  <2> QED BY <1>1, <1>3, <2>2
<1>4. CASE S # {}
  <2>1. PICK T : T = S \ {Pick(S)}
    OBVIOUS
  <2>2. IsFiniteSet(T) /\ T \in SUBSET S
    BY <2>1, FS_Subset
  <2>3. Sums(G(S), f, SUBSET S) /\ Sums(G(T), f, SUBSET T) /\ S \in SUBSET S
    BY <1>2, <2>2
  <2>4. G(S)[S] = f[Pick(S)] + G(S)[S \ {Pick(S)}]
    BY <1>4, <2>3, SumsAre
  <2>5. G(S)[T] = G(T)[T]
    BY <2>2, <2>3, SumsAgree
  <2> QED BY <1>1, <1>4, <2>1, <2>4, <2>5
<1> QED BY <1>3, <1>4

LEMMA SumInt ==
  ASSUME NEW S, IsFiniteSet(S), NEW f, \A x \in S : f[x] \in Int
  PROVE  Sum(f, S) \in Int
<1> DEFINE bad == {T \in SUBSET S : Sum(f, T) \notin Int}
<1>1. ASSUME bad # {} PROVE FALSE
  <2>1. bad \subseteq SUBSET S
    OBVIOUS
  <2>2. PICK T \in bad : IsFiniteSet(T) /\ \A x \in T : T \ {x} \notin bad
    BY <1>1, <2>1, SomeSmallest, Zenon
  <2>3. Sum(f, T) = IF T = {} THEN 0 ELSE f[Pick(T)] + Sum(f, T \ {Pick(T)})
    BY <2>2, SumUnfolds
  <2>4. T # {}
    BY <2>2, <2>3
  <2>5. Pick(T) \in T
    BY <2>4, Picked
  <2>6. Sum(f, T \ {Pick(T)}) \in Int
    BY <2>2, <2>5
  <2>7. f[Pick(T)] \in Int
    BY <2>1, <2>2, <2>5
  <2> QED BY <2>2, <2>3, <2>4, <2>6, <2>7
<1> QED BY <1>1

\* Any element can be the first.
LEMMA SumPicks ==
  ASSUME NEW S, IsFiniteSet(S), NEW f, \A x \in S : f[x] \in Int, NEW x \in S
  PROVE  Sum(f, S) = f[x] + Sum(f, S \ {x})
<1> DEFINE bad == {T \in SUBSET S : \E y \in T : Sum(f, T) # f[y] + Sum(f, T \ {y})}
<1>1. ASSUME bad # {} PROVE FALSE
  <2>1. bad \subseteq SUBSET S
    OBVIOUS
  <2>2. PICK T \in bad : /\ IsFiniteSet(T)
                         /\ \A y \in T : IsFiniteSet(T \ {y}) /\ T \ {y} \notin bad
    BY <1>1, <2>1, SomeSmallest, Zenon
  <2>3. PICK y \in T : Sum(f, T) # f[y] + Sum(f, T \ {y})
    BY <2>2
  <2>4. PICK p \in T : p = Pick(T)
    BY <2>3, Picked
  <2>5. Sum(f, T) = f[p] + Sum(f, T \ {p})
    BY <2>2, <2>4, SumUnfolds
  <2>6. p # y
    BY <2>3, <2>5
  <2>7. Sum(f, T \ {p}) = f[y] + Sum(f, (T \ {p}) \ {y})
    <3>1. T \ {p} \notin bad /\ T \ {p} \in SUBSET S /\ y \in T \ {p}
      BY <2>1, <2>2, <2>6
    <3> QED BY <3>1
  <2>8. Sum(f, T \ {y}) = f[p] + Sum(f, (T \ {y}) \ {p})
    <3>1. T \ {y} \notin bad /\ T \ {y} \in SUBSET S /\ p \in T \ {y}
      BY <2>1, <2>2, <2>6
    <3> QED BY <3>1
  <2>9. PICK U : U = (T \ {p}) \ {y} /\ U = (T \ {y}) \ {p}
    OBVIOUS
  <2>10. f[p] \in Int /\ f[y] \in Int /\ Sum(f, U) \in Int
    <3>1. IsFiniteSet(U) /\ U \subseteq S
      BY <2>1, <2>2, <2>9, FS_Subset
    <3> QED BY <2>1, <3>1, SumInt
  <2>11. Sum(f, T \ {p}) = f[y] + Sum(f, U) /\ Sum(f, T \ {y}) = f[p] + Sum(f, U)
    BY <2>7, <2>8, <2>9, Zenon
  <2> HIDE DEF bad
  <2> QED BY <2>3, <2>5, <2>10, <2>11
<1> QED BY <1>1

LEMMA SumNothing == \A f : Sum(f, {}) = 0
BY SumUnfolds, FS_EmptySet

LEMMA SumAdd ==
  ASSUME NEW S, IsFiniteSet(S), NEW f, \A y \in S : f[y] \in Int,
         NEW x, x \notin S, f[x] \in Int
  PROVE  Sum(f, S \cup {x}) = Sum(f, S) + f[x]
<1>1. PICK T : T = S \cup {x}
  OBVIOUS
<1>2. IsFiniteSet(T) /\ (\A y \in T : f[y] \in Int) /\ x \in T /\ T \ {x} = S
  BY <1>1, FS_AddElement
<1>3. Sum(f, T) = f[x] + Sum(f, T \ {x})
  BY <1>2, SumPicks
<1>4. Sum(f, T) = f[x] + Sum(f, S)
  BY <1>2, <1>3, Zenon
<1> QED BY <1>1, <1>4, SumInt

LEMMA SumSame ==
  ASSUME NEW S, IsFiniteSet(S), NEW f, NEW g, \A x \in S : f[x] = g[x]
  PROVE  Sum(f, S) = Sum(g, S)
<1> DEFINE bad == {T \in SUBSET S : Sum(f, T) # Sum(g, T)}
<1>1. ASSUME bad # {} PROVE FALSE
  <2>1. bad \subseteq SUBSET S
    OBVIOUS
  <2>2. PICK T \in bad : IsFiniteSet(T) /\ \A x \in T : T \ {x} \notin bad
    BY <1>1, <2>1, SomeSmallest, Zenon
  <2>3. /\ Sum(f, T) = IF T = {} THEN 0 ELSE f[Pick(T)] + Sum(f, T \ {Pick(T)})
        /\ Sum(g, T) = IF T = {} THEN 0 ELSE g[Pick(T)] + Sum(g, T \ {Pick(T)})
    BY <2>2, SumUnfolds
  <2>4. T # {} /\ Sum(f, T) # Sum(g, T)
    BY <2>2, <2>3
  <2>5. PICK p \in T : p = Pick(T)
    BY <2>4, Picked
  <2>6. f[p] = g[p] /\ Sum(f, T \ {p}) = Sum(g, T \ {p})
    BY <2>1, <2>2
  <2> QED BY <2>3, <2>4, <2>5, <2>6
<1> QED BY <1>1

\* One value changes, of an element of the set or of one that had none.
LEMMA SumBump ==
  ASSUME NEW S, IsFiniteSet(S), NEW f, NEW g, NEW x, NEW e \in Int,
         \A y \in S \cup {x} : f[y] \in Int,
         x \notin S => f[x] = 0,
         g[x] = f[x] + e, \A y \in S \ {x} : g[y] = f[y]
  PROVE  Sum(g, S \cup {x}) = Sum(f, S) + e
<1>1. PICK R : R = S \ {x}
  OBVIOUS
<1>2. IsFiniteSet(R) /\ x \notin R /\ R \cup {x} = S \cup {x}
      /\ (\A y \in R : f[y] \in Int /\ g[y] \in Int /\ f[y] = g[y])
      /\ f[x] \in Int /\ g[x] \in Int
  BY <1>1, FS_Subset
<1>3. Sum(g, R \cup {x}) = Sum(g, R) + g[x]
  BY <1>2, SumAdd
<1>4. Sum(g, R) = Sum(f, R) /\ Sum(f, R) \in Int
  BY <1>2, SumSame, SumInt
<1>5. Sum(f, S) = Sum(f, R) + f[x]
  <2>1. CASE x \in S
    <3>1. Sum(f, S) = f[x] + Sum(f, S \ {x})
      BY <2>1, SumPicks
    <3> QED BY <1>1, <1>2, <1>4, <3>1
  <2>2. CASE x \notin S
    <3>1. R = S
      BY <1>1, <2>2
    <3> QED BY <1>2, <1>4, <2>2, <3>1
  <2> QED BY <2>1, <2>2
<1>6. Sum(g, S \cup {x}) = Sum(g, R) + g[x]
  BY <1>2, <1>3, Zenon
<1>7. Sum(f, R) \in Int /\ Sum(g, R) = Sum(f, R)
  BY <1>4
<1> QED BY <1>2, <1>5, <1>6, <1>7

-----------------------------------------------------------------------------
(* Reports                                                                  *)

ReportState == [tab |-> ui.tab, transactions |-> ui.transactions, time |-> ui.time,
                offset |-> ui.offset, period |-> ui.period, customFrom |-> ui.customFrom,
                customTo |-> ui.customTo, filters |-> ui.filters]

FilterState == [query |-> ui.filters.query, type |-> ui.filters.type,
                category |-> ui.filters.category, dateFrom |-> ui.filters.dateFrom,
                dateTo |-> ui.filters.dateTo]

\* The browser is at most half a day ahead of UTC or behind it.
ReportInv ==
    /\ ui = ReportState /\ ui.filters = FilterState
    /\ Report!TypeOK
    /\ ui.offset \in {-1, 0, 1}

LEMMA ReportStarts == Report!Init => ReportInv
<1> SUFFICES ASSUME Report!Init PROVE ReportInv
  OBVIOUS
<1>1. PICK time : time = CHOOSE t \in Clock : \A u \in Clock : t <= u
  OBVIOUS
<1>2. time \in Clock
  BY <1>1, ClockHasAStart
<1>3. PICK offset \in {-1, 0, 1}, tab \in {"reports", "ledger"} :
        ui = [tab |-> tab, transactions |-> <<>>, time |-> time, offset |-> offset,
              period |-> "this-month", customFrom |-> time \div 2, customTo |-> time \div 2,
              filters |-> Report!NoFilters]
  BY <1>1 DEF Report!Init
<1>4. <<>> \in Seq(Report!Transaction)
  BY EmptySeq
<1>5. ui = ReportState /\ ui.filters = FilterState
  BY <1>3 DEF ReportState, FilterState, Report!NoFilters
<1>6. ui.period \in Report!Periods /\ ui.filters.type \in {Report!Any, "income", "expense"}
  BY <1>3 DEF Report!NoFilters, Report!Periods
<1> QED BY <1>2, <1>3, <1>4, <1>5, <1>6 DEF ReportInv, Report!TypeOK

\* A filter is set.
LEMMA ReportFiltered ==
    ASSUME ReportInv, NEW f, Report!update(f),
           f = [query |-> f.query, type |-> f.type, category |-> f.category,
                dateFrom |-> f.dateFrom, dateTo |-> f.dateTo],
           f.type \in {Report!Any, "income", "expense"}
    PROVE  ReportInv'
<1>1. ui' = [ui EXCEPT !.filters = f]
  BY DEF Report!update
<1>2. /\ (ui = ReportState)' /\ ui'.filters = f
      /\ UNCHANGED <<ui.transactions, ui.time, ui.offset, ui.period>>
  BY <1>1 DEF ReportInv, ReportState
<1>3. (ui.filters = FilterState)'
  BY <1>2 DEF FilterState
<1> QED BY <1>2, <1>3 DEF ReportInv, Report!TypeOK

LEMMA ReportKeeps == ReportInv /\ [Report!Next]_ui => ReportInv'
<1> SUFFICES ASSUME ReportInv, [Report!Next]_ui PROVE ReportInv'
  OBVIOUS
<1> USE DEF ReportInv
<1>1. ASSUME NEW t \in Report!Transaction, Report!Add(t) PROVE ReportInv'
  <2>1. ui' = [ui EXCEPT !.transactions = Append(ui.transactions, t)]
    BY <1>1 DEF Report!Add
  <2>2. /\ (ui = ReportState)' /\ ui'.transactions = Append(ui.transactions, t)
        /\ UNCHANGED <<ui.time, ui.offset, ui.period, ui.filters>>
    BY <2>1 DEF ReportState
  <2>3. ui'.transactions \in Seq(Report!Transaction)
    BY <2>2, AppendProperties DEF Report!TypeOK
  <2> QED BY <2>2, <2>3 DEF FilterState, Report!TypeOK
<1>2. CASE Report!Tick
  <2>1. ui' = [ui EXCEPT !.time = ui.time + 1] /\ ui.time + 1 \in Clock
    BY <1>2 DEF Report!Tick
  <2>2. /\ (ui = ReportState)' /\ ui'.time \in Clock
        /\ UNCHANGED <<ui.transactions, ui.offset, ui.period, ui.filters>>
    BY <2>1 DEF ReportState
  <2> QED BY <2>2 DEF FilterState, Report!TypeOK
<1>3. ASSUME NEW p \in Report!Periods, Report!Choose(p) PROVE ReportInv'
  <2>1. ui' = [ui EXCEPT !.period = p]
    BY <1>3 DEF Report!Choose
  <2>2. /\ (ui = ReportState)' /\ ui'.period = p
        /\ UNCHANGED <<ui.transactions, ui.offset, ui.time, ui.filters>>
    BY <2>1 DEF ReportState
  <2> QED BY <2>2 DEF FilterState, Report!TypeOK
<1>4. ASSUME NEW from, NEW to, Report!ChooseCustom(from, to) PROVE ReportInv'
  <2>1. ui' = [ui EXCEPT !.customFrom = from, !.customTo = to]
    BY <1>4 DEF Report!ChooseCustom
  <2>2. /\ (ui = ReportState)'
        /\ UNCHANGED <<ui.transactions, ui.offset, ui.time, ui.period, ui.filters>>
    BY <2>1 DEF ReportState
  <2> QED BY <2>2 DEF FilterState, Report!TypeOK
<1>5. CASE Report!Filter
  <2>1. ASSUME NEW v, NEW f, Report!update(f),
               \/ f = [ui.filters EXCEPT !.query = v]
               \/ f = [ui.filters EXCEPT !.category = v]
               \/ f = [ui.filters EXCEPT !.dateFrom = v]
               \/ f = [ui.filters EXCEPT !.dateTo = v]
               \/ /\ f = [ui.filters EXCEPT !.type = v]
                  /\ v \in {Report!Any, "income", "expense"}
        PROVE  ReportInv'
    <3>1. /\ f = [query |-> f.query, type |-> f.type, category |-> f.category,
                  dateFrom |-> f.dateFrom, dateTo |-> f.dateTo]
          /\ f.type \in {ui.filters.type, v}
          /\ f.type = ui.filters.type \/ v \in {Report!Any, "income", "expense"}
      BY <2>1 DEF FilterState
    <3>2. f.type \in {Report!Any, "income", "expense"}
      BY <3>1 DEF Report!TypeOK
    <3> QED BY <2>1, <3>1, <3>2, ReportFiltered
  <2> QED BY <1>5, <2>1 DEF Report!Filter
<1>6. CASE Report!clearAll
  <2>1. PICK f : f = [Report!NoFilters EXCEPT !.query = ui.filters.query]
    OBVIOUS
  <2>2. /\ f = [query |-> f.query, type |-> f.type, category |-> f.category,
                dateFrom |-> f.dateFrom, dateTo |-> f.dateTo]
        /\ f.type = Report!Any
    BY <2>1 DEF Report!NoFilters
  <2>3. Report!update(f)
    BY <1>6, <2>1 DEF Report!clearAll
  <2> QED BY <2>2, <2>3, ReportFiltered
<1>7. CASE UNCHANGED ui
  BY <1>7 DEF ReportState, FilterState, Report!TypeOK
<1> QED BY <1>1, <1>2, <1>3, <1>4, <1>5, <1>6, <1>7 DEF Report!Next

\* An entry dated today is in every period that ends today.
LEMMA ReportsToday == ReportInv => Report!TodayIsReported
<1> SUFFICES ASSUME ReportInv,
                    Report!FirstOf(Report!LocalDay, Report!DaysPerMonth)
                        = Report!FirstOf(Report!todayISO, Report!DaysPerMonth),
                    NEW p \in Report!Periods \ {"custom"}
             PROVE  Report!InRange(Report!todayISO, Report!getPeriodRange(p))
  BY DEF Report!TodayIsReported
<1>1. PICK time \in Int, offset \in {-1, 0, 1} : time = ui.time /\ offset = ui.offset
  BY ClockHasAStart DEF ReportInv, Report!TypeOK
<1>2. PICK today \in Int, here \in Int : today = time \div 2 /\ here = (time + offset) \div 2
  BY <1>1
<1>3. Report!todayISO = today /\ Report!LocalDay = here
  BY <1>1, <1>2 DEF Report!todayISO, Report!LocalDay
<1>4. here - (here % 2) = today - (today % 2)
  BY <1>3 DEF Report!FirstOf, Report!DaysPerMonth
<1>5. here - (here % 2) <= today /\ here - (here % 4) <= today
  BY <1>4
<1>6. Report!isoMonthsAgo(2) <= today
  <2>1. PICK first \in Int : first = here - (here % 2) - 4
    BY <1>2
  <2>2. Report!isoMonthsAgo(2) = (2 * first + ((time + offset) % 2) - offset) \div 2
    BY <1>1, <1>3, <2>1 DEF Report!isoMonthsAgo, Report!FirstOf, Report!DaysPerMonth
  <2> QED BY <1>2, <1>5, <2>1, <2>2
<1>7. CASE p = "this-month"
  BY <1>3, <1>5, <1>7
  DEF Report!InRange, Report!getPeriodRange, Report!PeriodRange, Report!firstOfMonthISO,
      Report!FirstOf, Report!DaysPerMonth
<1>8. CASE p = "last-3-months"
  BY <1>3, <1>6, <1>8
  DEF Report!InRange, Report!getPeriodRange, Report!PeriodRange
<1>9. CASE p = "this-year"
  BY <1>3, <1>5, <1>9
  DEF Report!InRange, Report!getPeriodRange, Report!PeriodRange, Report!firstOfYearISO,
      Report!FirstOf, Report!DaysPerYear
<1>10. CASE p = "all-time"
  BY <1>10 DEF Report!InRange, Report!getPeriodRange, Report!PeriodRange
<1> QED BY <1>7, <1>8, <1>9, <1>10 DEF Report!Periods

\* When the browser and UTC agree on the day, the periods start where they say.
LEMMA ReportsWhole == ReportInv => Report!PeriodsAreWhole
<1> SUFFICES ASSUME ReportInv, Report!LocalDay = Report!todayISO
             PROVE  /\ Report!getPeriodRange("this-month").from
                           = Report!FirstOf(Report!todayISO, Report!DaysPerMonth)
                    /\ Report!getPeriodRange("last-3-months").from
                           = Report!FirstOf(Report!todayISO, Report!DaysPerMonth)
                                 - 2 * Report!DaysPerMonth
                    /\ Report!getPeriodRange("this-year").from % Report!DaysPerYear = 0
  BY DEF Report!PeriodsAreWhole
<1>1. PICK time \in Int, offset \in {-1, 0, 1} : time = ui.time /\ offset = ui.offset
  BY ClockHasAStart DEF ReportInv, Report!TypeOK
<1>2. PICK today \in Int : today = time \div 2 /\ today = (time + offset) \div 2
  BY <1>1 DEF Report!todayISO, Report!LocalDay
<1>3. Report!todayISO = today /\ Report!LocalDay = today
  BY <1>1, <1>2 DEF Report!todayISO, Report!LocalDay
<1>4. Report!getPeriodRange("this-month").from
          = Report!FirstOf(Report!todayISO, Report!DaysPerMonth)
  BY <1>3 DEF Report!getPeriodRange, Report!PeriodRange, Report!firstOfMonthISO
<1>5. Report!getPeriodRange("last-3-months").from = Report!isoMonthsAgo(2)
  BY DEF Report!getPeriodRange, Report!PeriodRange
<1>6. Report!isoMonthsAgo(2)
          = Report!FirstOf(Report!todayISO, Report!DaysPerMonth) - 2 * Report!DaysPerMonth
  <2>1. PICK first \in Int : first = today - (today % 2) - 4
    BY <1>2
  <2>2. Report!isoMonthsAgo(2) = (2 * first + ((time + offset) % 2) - offset) \div 2
    BY <1>1, <1>3, <2>1 DEF Report!isoMonthsAgo, Report!FirstOf, Report!DaysPerMonth
  <2>3. (2 * first + ((time + offset) % 2) - offset) \div 2 = first
    BY <1>2
  <2> QED BY <1>3, <2>1, <2>2, <2>3 DEF Report!FirstOf, Report!DaysPerMonth
<1>7. Report!getPeriodRange("this-year").from = today - (today % 4)
  BY <1>3 DEF Report!getPeriodRange, Report!PeriodRange, Report!firstOfYearISO,
              Report!FirstOf, Report!DaysPerYear
<1>8. (today - (today % 4)) % 4 = 0
  BY <1>2
<1> QED BY <1>4, <1>5, <1>6, <1>7, <1>8 DEF Report!DaysPerYear

-----------------------------------------------------------------------------
(* Figures of a report                                                      *)

Types == {"income", "expense"}
Months == {d \div Report!DaysPerMonth : d \in Dates}
Figures == [total : [Types -> Int], months : SUBSET Months, month : [Months -> [Types -> Int]],
            categories : SUBSET Categories,
            category : [Categories -> [total : Int, count : Int]]]

LEMMA FSCardinality == ASSUME NEW S PROVE Report!Cardinality(S) = Cardinality(S)
BY DEF Report!Cardinality, Cardinality

LEMMA TransactionIs ==
  ASSUME NEW t \in Report!Transaction
  PROVE  /\ t.type \in Types /\ t.category \in Categories /\ Report!Month(t) \in Months
         /\ t.amount \in Int /\ Report!Effect(t) \in Int
<1>1. t.type \in Types /\ t.category \in Categories /\ t.date \in Dates /\ t.amount \in Prices
  BY DEF Report!Transaction, Types
<1>2. Prices \subseteq Int
  BY TransactionsAreDated
<1>3. t.amount \in Int
  BY <1>1, <1>2
<1> QED BY <1>1, <1>3 DEF Report!Month, Report!Effect, Months

LEMMA NetTaken ==
  ASSUME NEW t \in Report!Transaction, NEW total \in [Types -> Int],
         NEW taken, taken = [total EXCEPT ![t.type] = @ + t.amount]
  PROVE  /\ taken \in [Types -> Int] /\ Report!Net(total) \in Int
         /\ Report!Net(taken) = Report!Net(total) + Report!Effect(t)
<1>1. t.type \in Types /\ t.amount \in Int
  BY TransactionIs
<1>2. taken \in [Types -> Int]
  BY <1>1
<1>3. CASE t.type = "income"
  <2>1. taken["income"] = total["income"] + t.amount /\ taken["expense"] = total["expense"]
    BY <1>3 DEF Types
  <2> QED BY <1>1, <1>2, <1>3, <2>1 DEF Report!Net, Report!Effect, Types
<1>4. CASE t.type = "expense"
  <2>1. taken["expense"] = total["expense"] + t.amount /\ taken["income"] = total["income"]
    BY <1>4 DEF Types
  <2> QED BY <1>1, <1>2, <1>4, <2>1 DEF Report!Net, Report!Effect, Types
<1> QED BY <1>1, <1>3, <1>4 DEF Types

\* What the loop's body does.
LEMMA Taken ==
  ASSUME NEW t \in Report!Transaction, NEW r \in Figures,
         NEW s, s = Report!Take(t, r), NEW c, c = t.category, NEW m, m = Report!Month(t)
  PROVE  /\ s \in Figures
         /\ s.months = r.months \cup {m} /\ s.categories = r.categories \cup {c}
         /\ Report!Net(s.total) = Report!Net(r.total) + Report!Effect(t)
         /\ Report!Net(s.month[m]) = Report!Net(r.month[m]) + Report!Effect(t)
         /\ \A n \in Months \ {m} : s.month[n] = r.month[n]
         /\ s.category[c].total = r.category[c].total + Report!Effect(t)
         /\ s.category[c].count = r.category[c].count + 1
         /\ \A d \in Categories \ {c} : s.category[d] = r.category[d]
<1>1. t.type \in Types /\ c \in Categories /\ m \in Months /\ Report!Effect(t) \in Int
  BY TransactionIs
<1>2. /\ r = [total |-> r.total, months |-> r.months, month |-> r.month,
              categories |-> r.categories, category |-> r.category]
      /\ r.total \in [Types -> Int] /\ r.months \in SUBSET Months
      /\ r.month \in [Months -> [Types -> Int]]
      /\ r.categories \in SUBSET Categories
      /\ r.category \in [Categories -> [total : Int, count : Int]]
  BY DEF Figures
<1> DEFINE total == [r.total EXCEPT ![t.type] = r.total[t.type] + t.amount]
           month == [r.month EXCEPT
                        ![m] = [r.month[m] EXCEPT ![t.type] = r.month[m][t.type] + t.amount]]
           category == [r.category EXCEPT
                           ![c] = [total |-> r.category[c].total + Report!Effect(t),
                                   count |-> r.category[c].count + 1]]
<1>3. s = [total |-> total, months |-> r.months \cup {m}, month |-> month,
           categories |-> r.categories \cup {c}, category |-> category]
  <2>1. s = [r EXCEPT !.total = total, !.months = r.months \cup {m}, !.month = month,
                      !.categories = r.categories \cup {c}, !.category = category]
    BY DEF Report!Take
  <2> HIDE DEF total, month, category
  <2> QED BY <1>2, <2>1
<1>4. /\ s.total \in [Types -> Int]
      /\ Report!Net(s.total) = Report!Net(r.total) + Report!Effect(t)
  <2>1. s.total = [r.total EXCEPT ![t.type] = @ + t.amount]
    BY <1>3
  <2> QED BY <1>2, <2>1, NetTaken
<1>5. /\ s.month \in [Months -> [Types -> Int]]
      /\ Report!Net(s.month[m]) = Report!Net(r.month[m]) + Report!Effect(t)
      /\ \A n \in Months \ {m} : s.month[n] = r.month[n]
  <2>1. PICK taken : taken = [r.month[m] EXCEPT ![t.type] = @ + t.amount]
    OBVIOUS
  <2>2. /\ taken \in [Types -> Int]
        /\ Report!Net(taken) = Report!Net(r.month[m]) + Report!Effect(t)
    BY <1>1, <1>2, <2>1, NetTaken
  <2>3. s.month = [r.month EXCEPT ![m] = taken]
    <3>1. month = [r.month EXCEPT ![m] = taken]
      BY <2>1, Zenon
    <3> HIDE DEF month
    <3> QED BY <1>3, <3>1
  <2> QED BY <1>1, <1>2, <2>2, <2>3
<1>6. /\ s.category \in [Categories -> [total : Int, count : Int]]
      /\ s.category[c].total = r.category[c].total + Report!Effect(t)
      /\ s.category[c].count = r.category[c].count + 1
      /\ \A d \in Categories \ {c} : s.category[d] = r.category[d]
  <2>1. r.category[c] \in [total : Int, count : Int]
    BY <1>1, <1>2
  <2>2. PICK entry : entry = [total |-> r.category[c].total + Report!Effect(t),
                             count |-> r.category[c].count + 1]
    OBVIOUS
  <2>3. entry \in [total : Int, count : Int]
    BY <1>1, <2>1, <2>2
  <2>4. s.category = [r.category EXCEPT ![c] = entry]
    <3>1. category = [r.category EXCEPT ![c] = entry]
      BY <2>2, Zenon
    <3> HIDE DEF category
    <3> QED BY <1>3, <3>1
  <2> QED BY <1>1, <1>2, <2>2, <2>3, <2>4
<1> HIDE DEF total, month, category
<1>7. s \in Figures
  BY <1>1, <1>2, <1>3, <1>4, <1>5, <1>6 DEF Figures
<1> QED BY <1>3, <1>4, <1>5, <1>6, <1>7

\* The figures r are those of the entries in range among the first k.
Effects == [i \in DOMAIN ui.transactions |-> Report!Effect(ui.transactions[i])]
Within(k, range) == {i \in 1..k : Report!InRange(ui.transactions[i].date, range)}
Booked(c, k, range) == {i \in Within(k, range) : ui.transactions[i].category = c}
TotalsOf(r) == [c \in Categories |-> r.category[c].total]
CountsOf(r) == [c \in Categories |-> r.category[c].count]
NetsOf(r) == [m \in Months |-> Report!Net(r.month[m])]

AddUp(r, k, range) ==
    /\ r \in Figures /\ IsFiniteSet(r.months) /\ IsFiniteSet(r.categories)
    /\ Report!Net(r.total) = Sum(Effects, Within(k, range))
    /\ Sum(TotalsOf(r), r.categories) = Sum(Effects, Within(k, range))
    /\ Sum(CountsOf(r), r.categories) = Cardinality(Within(k, range))
    /\ Sum(NetsOf(r), r.months) = Sum(Effects, Within(k, range))
    /\ \A c \in Categories : r.category[c].total = Sum(Effects, Booked(c, k, range))
    /\ \A c \in Categories \ r.categories : r.category[c] = [total |-> 0, count |-> 0]
    /\ \A m \in Months \ r.months : Report!Net(r.month[m]) = 0

LEMMA TransactionsAre ==
  ASSUME ReportInv
  PROVE  /\ Len(ui.transactions) \in Nat /\ DOMAIN ui.transactions = 1..Len(ui.transactions)
         /\ \A i \in 1..Len(ui.transactions) : ui.transactions[i] \in Report!Transaction
<1>1. ui.transactions \in Seq(Report!Transaction)
  BY DEF ReportInv, Report!TypeOK
<1> QED BY <1>1, LenProperties, ElementOfSeq

LEMMA WithinIs ==
  ASSUME ReportInv, NEW k \in 0..Len(ui.transactions), NEW range
  PROVE  /\ IsFiniteSet(Within(k, range)) /\ Cardinality(Within(k, range)) \in Nat
         /\ \A c : IsFiniteSet(Booked(c, k, range))
         /\ \A i \in Within(k, range) : Effects[i] \in Int
         /\ Sum(Effects, Within(k, range)) \in Int
<1>1. k \in Nat /\ 1..k \subseteq 1..Len(ui.transactions)
  BY TransactionsAre
<1>2. IsFiniteSet(1..k)
  BY <1>1, FS_Interval
<1>3. Within(k, range) \subseteq 1..k
  BY DEF Within
<1>4. IsFiniteSet(Within(k, range)) /\ Cardinality(Within(k, range)) \in Nat
  BY <1>2, <1>3, FS_Subset, FS_CardinalityType
<1>5. ASSUME NEW c PROVE IsFiniteSet(Booked(c, k, range))
  BY <1>4, FS_Subset DEF Booked
<1>6. ASSUME NEW i \in Within(k, range) PROVE Effects[i] \in Int
  <2>1. i \in DOMAIN ui.transactions /\ ui.transactions[i] \in Report!Transaction
    BY <1>1, <1>3, TransactionsAre
  <2> QED BY <2>1, TransactionIs DEF Effects
<1> QED BY <1>4, <1>5, <1>6, SumInt

LEMMA EmptyAddsUp == ASSUME NEW range PROVE AddUp(Report!Empty, 0, range)
<1>1. PICK r : r = Report!Empty
  OBVIOUS
<1>2. Report!Nothing \in [Types -> Int] /\ Report!Net(Report!Nothing) = 0
  BY DEF Report!Nothing, Report!Net, Types
<1>3. /\ r.total = Report!Nothing /\ r.months = {} /\ r.categories = {}
      /\ r.month = [m \in Months |-> Report!Nothing]
      /\ r.category = [c \in Categories |-> [total |-> 0, count |-> 0]]
      /\ r = [total |-> r.total, months |-> r.months, month |-> r.month,
              categories |-> r.categories, category |-> r.category]
  BY <1>1 DEF Report!Empty, Months
<1>4. r \in Figures
  BY <1>2, <1>3 DEF Figures
<1>5. Within(0, range) = {} /\ \A c : Booked(c, 0, range) = {}
  BY DEF Within, Booked
<1>6. \A f : Sum(f, {}) = 0
  BY SumNothing
<1>7. IsFiniteSet({}) /\ Cardinality({}) = 0
  BY FS_EmptySet
<1>8. \A c \in Categories : r.category[c].total = Sum(Effects, Booked(c, 0, range))
  BY <1>3, <1>5, <1>6
<1>9. AddUp(r, 0, range)
  BY <1>2, <1>3, <1>4, <1>5, <1>6, <1>7, <1>8 DEF AddUp
<1> QED BY <1>1, <1>9

LEMMA TakeAddsUp ==
  ASSUME ReportInv, NEW range, NEW k \in 1..Len(ui.transactions),
         NEW r, AddUp(r, k - 1, range),
         Report!InRange(ui.transactions[k].date, range)
  PROVE  AddUp(Report!Take(ui.transactions[k], r), k, range)
<1>1. PICK t : t = ui.transactions[k]
  OBVIOUS
<1>2. PICK s : s = Report!Take(t, r)
  OBVIOUS
<1>3. PICK c, m, e : c = t.category /\ m = Report!Month(t) /\ e = Report!Effect(t)
  OBVIOUS
<1>4. /\ t \in Report!Transaction /\ Len(ui.transactions) \in Nat
      /\ c \in Categories /\ m \in Months /\ e \in Int
  BY <1>1, <1>3, TransactionsAre, TransactionIs
<1>5. /\ s \in Figures /\ r \in Figures
      /\ s.months = r.months \cup {m} /\ s.categories = r.categories \cup {c}
      /\ Report!Net(s.total) = Report!Net(r.total) + e
      /\ Report!Net(s.month[m]) = Report!Net(r.month[m]) + e
      /\ \A n \in Months \ {m} : s.month[n] = r.month[n]
      /\ s.category[c].total = r.category[c].total + e
      /\ s.category[c].count = r.category[c].count + 1
      /\ \A d \in Categories \ {c} : s.category[d] = r.category[d]
  <2>1. r \in Figures
    BY DEF AddUp
  <2> QED BY <1>2, <1>3, <1>4, <2>1, Taken
<1>6. /\ k - 1 \in 0..Len(ui.transactions)
      /\ Within(k, range) = Within(k - 1, range) \cup {k} /\ k \notin Within(k - 1, range)
  BY <1>4 DEF Within
<1>7. Effects[k] = e
  BY <1>1, <1>3, TransactionsAre DEF Effects
<1>8. Sum(Effects, Within(k, range)) = Sum(Effects, Within(k - 1, range)) + e
  BY <1>4, <1>6, <1>7, WithinIs, SumAdd
<1>9. Cardinality(Within(k, range)) = Cardinality(Within(k - 1, range)) + 1
  BY <1>6, WithinIs, FS_AddElement
<1>10. /\ r.months \subseteq Months /\ r.categories \subseteq Categories
       /\ s.months \subseteq Months /\ s.categories \subseteq Categories
       /\ \A d \in Categories : r.category[d].total \in Int /\ r.category[d].count \in Int
       /\ \A n \in Months : r.month[n] \in [Types -> Int]
  BY <1>5 DEF Figures
<1>11. \A n \in Months : Report!Net(r.month[n]) \in Int
  BY <1>10 DEF Report!Net, Types
<1>12. IsFiniteSet(r.months) /\ IsFiniteSet(r.categories)
  BY DEF AddUp
<1>13. IsFiniteSet(s.months) /\ IsFiniteSet(s.categories)
  BY <1>5, <1>12, FS_AddElement
<1>14. Sum(TotalsOf(s), s.categories) = Sum(TotalsOf(r), r.categories) + e
  <2>1. PICK f, g, K : f = TotalsOf(r) /\ g = TotalsOf(s) /\ K = r.categories
    OBVIOUS
  <2>2. \A y \in K \cup {c} : f[y] \in Int
    BY <1>4, <1>10, <2>1 DEF TotalsOf
  <2>3. c \notin K => f[c] = 0
    BY <1>4, <2>1 DEF TotalsOf, AddUp
  <2>4. g[c] = f[c] + e
    BY <1>4, <1>5, <1>10, <2>1 DEF TotalsOf
  <2>5. \A y \in K \ {c} : g[y] = f[y]
    BY <1>4, <1>5, <1>10, <2>1 DEF TotalsOf
  <2>6. IsFiniteSet(K) /\ e \in Int
    BY <1>4, <1>12, <2>1
  <2>7. Sum(g, K \cup {c}) = Sum(f, K) + e
    BY <2>2, <2>3, <2>4, <2>5, <2>6, SumBump
  <2> QED BY <1>5, <2>1, <2>7
<1>15. Sum(CountsOf(s), s.categories) = Sum(CountsOf(r), r.categories) + 1
  <2>1. PICK f, g, K : f = CountsOf(r) /\ g = CountsOf(s) /\ K = r.categories
    OBVIOUS
  <2>2. \A y \in K \cup {c} : f[y] \in Int
    BY <1>4, <1>10, <2>1 DEF CountsOf
  <2>3. c \notin K => f[c] = 0
    BY <1>4, <2>1 DEF CountsOf, AddUp
  <2>4. g[c] = f[c] + 1
    BY <1>4, <1>5, <1>10, <2>1 DEF CountsOf
  <2>5. \A y \in K \ {c} : g[y] = f[y]
    BY <1>4, <1>5, <1>10, <2>1 DEF CountsOf
  <2>6. IsFiniteSet(K) /\ 1 \in Int
    BY <1>4, <1>12, <2>1
  <2>7. Sum(g, K \cup {c}) = Sum(f, K) + 1
    BY <2>2, <2>3, <2>4, <2>5, <2>6, SumBump
  <2> QED BY <1>5, <2>1, <2>7
<1>16. Sum(NetsOf(s), s.months) = Sum(NetsOf(r), r.months) + e
  <2>1. PICK f, g, K : f = NetsOf(r) /\ g = NetsOf(s) /\ K = r.months
    OBVIOUS
  <2>2. \A y \in K \cup {m} : f[y] \in Int
    BY <1>4, <1>10, <1>11, <2>1 DEF NetsOf
  <2>3. m \notin K => f[m] = 0
    BY <1>4, <2>1 DEF NetsOf, AddUp
  <2>4. g[m] = f[m] + e
    BY <1>4, <1>5, <1>10, <2>1 DEF NetsOf
  <2>5. \A y \in K \ {m} : g[y] = f[y]
    BY <1>4, <1>5, <1>10, <2>1 DEF NetsOf
  <2>6. IsFiniteSet(K) /\ e \in Int
    BY <1>4, <1>12, <2>1
  <2>7. Sum(g, K \cup {m}) = Sum(f, K) + e
    BY <2>2, <2>3, <2>4, <2>5, <2>6, SumBump
  <2> QED BY <1>5, <2>1, <2>7
<1>17. ASSUME NEW d \in Categories
       PROVE  s.category[d].total = Sum(Effects, Booked(d, k, range))
  <2>1. r.category[d].total = Sum(Effects, Booked(d, k - 1, range))
    BY DEF AddUp
  <2>2. CASE d = c
    <3>1. /\ Booked(d, k, range) = Booked(d, k - 1, range) \cup {k}
          /\ k \notin Booked(d, k - 1, range)
      BY <1>1, <1>3, <1>6, <2>2 DEF Booked
    <3>2. /\ IsFiniteSet(Booked(d, k - 1, range))
          /\ \A i \in Booked(d, k - 1, range) : Effects[i] \in Int
      BY <1>6, WithinIs DEF Booked
    <3>3. Sum(Effects, Booked(d, k - 1, range) \cup {k})
              = Sum(Effects, Booked(d, k - 1, range)) + e
      BY <1>4, <1>7, <3>1, <3>2, SumAdd
    <3> QED BY <1>5, <2>1, <2>2, <3>1, <3>3
  <2>3. CASE d # c
    <3>1. Booked(d, k, range) = Booked(d, k - 1, range)
      BY <1>1, <1>3, <1>6, <2>3 DEF Booked
    <3> QED BY <1>5, <2>1, <2>3, <3>1
  <2> QED BY <2>2, <2>3
<1>18. \A d \in Categories \ s.categories : s.category[d] = [total |-> 0, count |-> 0]
  BY <1>5 DEF AddUp
<1>19. \A n \in Months \ s.months : Report!Net(s.month[n]) = 0
  BY <1>5 DEF AddUp
<1>20. /\ Report!Net(s.total) = Sum(Effects, Within(k, range))
       /\ Sum(TotalsOf(s), s.categories) = Sum(Effects, Within(k, range))
       /\ Sum(CountsOf(s), s.categories) = Cardinality(Within(k, range))
       /\ Sum(NetsOf(s), s.months) = Sum(Effects, Within(k, range))
  BY <1>5, <1>8, <1>9, <1>14, <1>15, <1>16 DEF AddUp
<1>21. AddUp(s, k, range)
  BY <1>5, <1>13, <1>17, <1>18, <1>19, <1>20 DEF AddUp
<1> QED BY <1>1, <1>2, <1>21

LEMMA SkipAddsUp ==
  ASSUME ReportInv, NEW range, NEW k \in 1..Len(ui.transactions),
         NEW r, AddUp(r, k - 1, range),
         ~Report!InRange(ui.transactions[k].date, range)
  PROVE  AddUp(r, k, range)
<1>1. Within(k, range) = Within(k - 1, range)
  BY TransactionsAre DEF Within
<1>2. \A c : Booked(c, k, range) = Booked(c, k - 1, range)
  BY <1>1 DEF Booked
<1> QED BY <1>1, <1>2 DEF AddUp

\* The loop over the first n entries, as a function.
Body(r, k, range) ==
    IF k = 0 THEN Report!Empty
    ELSE IF Report!InRange(ui.transactions[k].date, range)
    THEN Report!Take(ui.transactions[k], r[k - 1])
    ELSE r[k - 1]
Loop(r, n, range) == r = [k \in 0..n |-> Body(r, k, range)]

LEMMA LoopDoes ==
  ASSUME NEW r, NEW n, NEW range, Loop(r, n, range), NEW k \in 0..n
  PROVE  r[k] = Body(r, k, range)
<1> DEFINE B(j) == Body(r, j, range)
<1>1. r = [j \in 0..n |-> B(j)]
  BY DEF Loop
<1> HIDE DEF B
<1>2. r[k] = B(k)
  BY <1>1
<1> QED BY <1>2 DEF B

LEMMA LoopRuns == ASSUME NEW n \in Nat, NEW range PROVE \E r : Loop(r, n, range)
<1> DEFINE bad == {j \in Nat : ~\E r : Loop(r, j, range)}
<1>1. ASSUME bad # {} PROVE FALSE
  <2>1. bad \subseteq Nat
    OBVIOUS
  <2>2. PICK j \in bad : \A i \in bad : j <= i
    BY <1>1, <2>1, SomeFirst, Zenon
  <2>3. CASE j = 0
    <3>1. PICK r : r = [k \in 0..0 |-> Report!Empty]
      OBVIOUS
    <3>2. \A k \in 0..0 : Body(r, k, range) = Report!Empty
      BY DEF Body
    <3>3. Loop(r, 0, range)
      BY <3>1, <3>2 DEF Loop
    <3> QED BY <2>2, <2>3, <3>3
  <2>4. CASE j # 0
    <3>1. j \in Nat /\ j - 1 \in Nat /\ j - 1 \notin bad
      BY <2>2, <2>4
    <3>2. PICK r : Loop(r, j - 1, range)
      BY <3>1
    <3>3. PICK h : h = [k \in 0..j |-> Body(r, k, range)]
      OBVIOUS
    <3>4. ASSUME NEW k \in 0..(j - 1) PROVE h[k] = r[k]
      <4>1. k \in 0..j
        BY <3>1
      <4>2. h[k] = Body(r, k, range)
        BY <3>3, <4>1
      <4> QED BY <3>2, <4>2, LoopDoes
    <3>5. ASSUME NEW k \in 0..j PROVE Body(h, k, range) = Body(r, k, range)
      <4>1. k # 0 => h[k - 1] = r[k - 1]
        BY <3>1, <3>4
      <4> QED BY <4>1 DEF Body
    <3>6. Loop(h, j, range)
      BY <3>3, <3>5 DEF Loop
    <3> QED BY <2>2, <3>6
  <2> QED BY <2>3, <2>4
<1> QED BY <1>1

LEMMA LoopAddsUp ==
  ASSUME ReportInv, NEW range, NEW r, Loop(r, Len(ui.transactions), range),
         NEW k \in 0..Len(ui.transactions)
  PROVE  AddUp(r[k], k, range)
<1> DEFINE bad == {j \in 0..Len(ui.transactions) : ~AddUp(r[j], j, range)}
<1>1. Len(ui.transactions) \in Nat
  BY TransactionsAre
<1>2. ASSUME bad # {} PROVE FALSE
  <2>1. bad \subseteq Nat
    BY <1>1
  <2>2. PICK j \in bad : \A i \in bad : j <= i
    BY <1>2, <2>1, SomeFirst, Zenon
  <2>3. j \in 0..Len(ui.transactions) /\ r[j] = Body(r, j, range) /\ ~AddUp(r[j], j, range)
    BY <2>2, LoopDoes
  <2>4. j # 0
    BY <2>3, EmptyAddsUp DEF Body
  <2>5. j \in 1..Len(ui.transactions) /\ AddUp(r[j - 1], j - 1, range)
    <3>1. j \in 1..Len(ui.transactions) /\ j - 1 \in 0..Len(ui.transactions) /\ j - 1 \notin bad
      BY <1>1, <2>2, <2>3, <2>4
    <3> QED BY <3>1
  <2> HIDE DEF bad
  <2>6. AddUp(r[j], j, range)
    <3>1. CASE Report!InRange(ui.transactions[j].date, range)
      <4>1. r[j] = Report!Take(ui.transactions[j], r[j - 1])
        BY <2>3, <2>4, <3>1 DEF Body
      <4> QED BY <2>5, <3>1, <4>1, TakeAddsUp
    <3>2. CASE ~Report!InRange(ui.transactions[j].date, range)
      <4>1. r[j] = r[j - 1]
        BY <2>3, <2>4, <3>2 DEF Body
      <4> QED BY <2>5, <3>2, <4>1, SkipAddsUp
    <3> QED BY <3>1, <3>2
  <2> QED BY <2>3, <2>6
<1> QED BY <1>2

LEMMA ReportAddsUp ==
  ASSUME ReportInv, NEW range
  PROVE  AddUp(Report!buildReport(range), Len(ui.transactions), range)
<1> DEFINE r == CHOOSE f : Loop(f, Len(ui.transactions), range)
<1>1. Len(ui.transactions) \in Nat
  BY TransactionsAre
<1>2. Loop(r, Len(ui.transactions), range)
  <2>1. \E f : Loop(f, Len(ui.transactions), range)
    BY <1>1, LoopRuns
  <2> QED BY <2>1
<1>3. Report!buildReport(range) = r[Len(ui.transactions)]
  BY DEF Report!buildReport, Loop, Body
<1> HIDE DEF r
<1> QED BY <1>1, <1>2, <1>3, LoopAddsUp

\* Some month is the last one.
LEMMA SomeGreatest ==
  ASSUME NEW S, IsFiniteSet(S), S \subseteq Int, S # {}
  PROVE  \E m \in S : \A x \in S : m >= x
<1> DEFINE bad == {T \in SUBSET S : T # {} /\ ~\E m \in T : \A x \in T : m >= x}
<1>1. ASSUME bad # {} PROVE FALSE
  <2>1. bad \subseteq SUBSET S
    OBVIOUS
  <2>2. PICK T \in bad : \A x \in T : T \ {x} \notin bad
    BY <1>1, <2>1, SomeSmallest, Zenon
  <2>3. PICK y \in T : y \in Int
    BY <2>2
  <2>4. T \ {y} # {}
    BY <2>2, <2>3
  <2>5. PICK m \in T \ {y} : \A x \in T \ {y} : m >= x
    BY <2>1, <2>2, <2>4
  <2>6. m \in Int /\ \A x \in T : x \in Int
    BY <2>1, <2>2
  <2>7. CASE m >= y
    BY <2>2, <2>5, <2>7
  <2>8. CASE y >= m
    <3>1. \A x \in T : y >= x
      BY <2>3, <2>5, <2>6, <2>8
    <3> QED BY <2>2, <3>1
  <2> QED BY <2>3, <2>6, <2>7, <2>8
<1> QED BY <1>1

\* However many transactions there are, and whichever period is chosen, the figures agree.
LEMMA ReportsAgree == ReportInv => Report!FiguresAgree
<1> SUFFICES ASSUME ReportInv PROVE Report!FiguresAgree
  OBVIOUS
<1>1. PICK range, r, n : /\ range = Report!getPeriodRange(ui.period)
                         /\ r = Report!report /\ n = Len(ui.transactions)
  OBVIOUS
<1>2. AddUp(r, n, range)
  BY <1>1, ReportAddsUp DEF Report!report
<1>3. Within(n, range) = {i \in DOMAIN ui.transactions :
                              Report!InRange(ui.transactions[i].date, range)}
  BY <1>1, TransactionsAre DEF Within
<1>4. /\ r.months \subseteq Months /\ r.categories \subseteq Categories
      /\ IsFiniteSet(r.months) /\ IsFiniteSet(r.categories)
  BY <1>2 DEF AddUp, Figures
<1>5. \A f, S : Report!SumFunctionOnSet(f, S) = Sum(f, S)
  BY DEF Sum
<1>6. Report!SumFunction([c \in r.categories |-> r.category[c].total])
          = Sum(Effects, Within(n, range))
  <2>1. PICK f : f = [c \in r.categories |-> r.category[c].total]
    OBVIOUS
  <2>2. DOMAIN f = r.categories /\ \A c \in r.categories : f[c] = TotalsOf(r)[c]
    BY <1>4, <2>1 DEF TotalsOf
  <2>3. Sum(f, r.categories) = Sum(TotalsOf(r), r.categories)
    BY <1>4, <2>2, SumSame
  <2>4. Report!SumFunction(f) = Sum(f, r.categories)
    BY <2>2 DEF Report!SumFunction, Sum
  <2> QED BY <1>2, <2>1, <2>3, <2>4 DEF AddUp
<1>7. Report!SumFunction([c \in r.categories |-> r.category[c].count])
          = Report!Cardinality(Within(n, range))
  <2>1. PICK f : f = [c \in r.categories |-> r.category[c].count]
    OBVIOUS
  <2>2. DOMAIN f = r.categories /\ \A c \in r.categories : f[c] = CountsOf(r)[c]
    BY <1>4, <2>1 DEF CountsOf
  <2>3. Sum(f, r.categories) = Sum(CountsOf(r), r.categories)
    BY <1>4, <2>2, SumSame
  <2>4. Report!SumFunction(f) = Sum(f, r.categories)
    BY <2>2 DEF Report!SumFunction, Sum
  <2> QED BY <1>2, <2>1, <2>3, <2>4, FSCardinality DEF AddUp
<1>8. ASSUME NEW c \in r.categories
      PROVE  r.category[c].total
                 = Sum(Effects, {i \in Within(n, range) : ui.transactions[i].category = c})
  BY <1>2, <1>4 DEF AddUp, Booked
<1>9. ASSUME r.months # {}
      PROVE  Report!monthlyTrend(r)[Report!Max(r.months)] = Sum(Effects, Within(n, range))
  <2>1. Months \subseteq Int
    BY TransactionsAreDated DEF Months, Report!DaysPerMonth
  <2>2. PICK last \in r.months : \A m \in r.months : last >= m
    BY <1>4, <1>9, <2>1, SomeGreatest
  <2>3. \A m \in r.months : m \in Int
    BY <1>4, <2>1
  <2>4. Report!Max(r.months) = last
    <3>1. ASSUME NEW x \in r.months, \A m \in r.months : x >= m PROVE x = last
      <4>1. x >= last /\ last >= x
        BY <2>2, <3>1
      <4> QED BY <2>3, <4>1
    <3> QED BY <2>2, <3>1 DEF Report!Max
  <2>5. {m \in r.months : m <= last} = r.months
    BY <2>2, <2>3
  <2>6. PICK f : f = [m \in r.months |-> Report!Net(r.month[m])]
    OBVIOUS
  <2>7. \A m \in r.months : f[m] = NetsOf(r)[m]
    BY <1>4, <2>6 DEF NetsOf
  <2>8. Sum(f, r.months) = Sum(NetsOf(r), r.months)
    BY <1>4, <2>7, SumSame
  <2>9. Report!monthlyTrend(r)
            = [m \in r.months |-> Sum(f, {j \in r.months : j <= m})]
    BY <2>6 DEF Report!monthlyTrend, Sum
  <2>10. Report!monthlyTrend(r)[last] = Sum(f, {j \in r.months : j <= last})
    BY <2>9
  <2>11. Report!monthlyTrend(r)[last] = Sum(f, r.months)
    BY <2>5, <2>10, Zenon
  <2> QED BY <1>2, <2>4, <2>8, <2>11 DEF AddUp
<1>10. /\ Report!Net(r.total) = Sum(Effects, Within(n, range))
  BY <1>2 DEF AddUp
<1> QED BY <1>1, <1>3, <1>5, <1>6, <1>7, <1>8, <1>9, <1>10 DEF Report!FiguresAgree, Effects

\* Without filters all rows are shown.
LEMMA ReportsHideNothing == Report!NothingHiddenSilently
<1> SUFFICES ASSUME ~Report!isFiltering,
                    NEW i \in DOMAIN ui.transactions
             PROVE  Report!Passes(ui.transactions[i], {"", Report!Blank})
  BY DEF Report!NothingHiddenSilently, Report!filteredTransactions
<1> QED BY DEF Report!isFiltering, Report!Passes

-----------------------------------------------------------------------------
(* Screenshots                                                              *)

LEMMA LastIs ==
  ASSUME NEW S, S \subseteq Int, NEW m \in S, \A k \in S : k <= m
  PROVE  Parser!Max(S) = m
<1>1. \A x \in S : (\A y \in S : x >= y) => x = m
  OBVIOUS
<1>2. \A y \in S : m >= y
  OBVIOUS
<1> QED BY <1>1, <1>2 DEF Parser!Max

LEMMA ShapeOfLines ==
  \E year, stamps :
    /\ year = Parser!ThisYear - 1
    /\ stamps = {Parser!NoDate, Parser!Unresolved}
                   \cup [day : 0..5, year : {Parser!Missing, year}]
    /\ Parser!Line = [noise : BOOLEAN, date : stamps, amount : {"", "plain", "-", "+"},
                      title : Parser!Titles, typeLine : BOOLEAN]
<1>1. PICK year : year = Parser!ThisYear - 1
  OBVIOUS
<1>2. PICK stamps : stamps = {Parser!NoDate, Parser!Unresolved}
                                \cup [day : 0..5, year : {Parser!Missing, year}]
  OBVIOUS
<1>3. Parser!Line = [noise : BOOLEAN, date : stamps, amount : {"", "plain", "-", "+"},
                     title : Parser!Titles, typeLine : BOOLEAN]
  BY <1>1, <1>2 DEF Parser!Line, Parser!DaysPerYear
<1> QED BY <1>1, <1>2, <1>3

\* A line is a date, or has none.
LEMMA StampsOfLines ==
  ASSUME NEW line \in Parser!Line
  PROVE  /\ line.date.day \in Int /\ line.date.year \in Int
         /\ line.date.day < 0 => line.date \in {Parser!NoDate, Parser!Unresolved}
         /\ line.date.day >= 0 => /\ line.date.day \in 0..5
                                  /\ line.date.year \in {-1, (Today \div 6) - 1}
<1> SUFFICES line.date \in {Parser!NoDate, Parser!Unresolved}
                   \cup [day : 0..5, year : {-1, (Today \div 6) - 1}]
  BY AYearIsBehind DEF Parser!NoDate, Parser!Unresolved, Parser!Stamp, Parser!Missing
<1>1. PICK year, stamps :
        /\ year = Parser!ThisYear - 1
        /\ stamps = {Parser!NoDate, Parser!Unresolved}
                       \cup [day : 0..5, year : {Parser!Missing, year}]
        /\ Parser!Line = [noise : BOOLEAN, date : stamps, amount : {"", "plain", "-", "+"},
                          title : Parser!Titles, typeLine : BOOLEAN]
  BY ShapeOfLines
<1>2. line.date \in stamps
  BY <1>1
<1>3. year = (Today \div 6) - 1
  BY <1>1 DEF Parser!ThisYear, Parser!DaysPerYear
<1> QED BY <1>1, <1>2, <1>3 DEF Parser!Missing

LEMMA DatesAreNear ==
  ASSUME NEW line \in Parser!Line
  PROVE  /\ line.date.day < 0 => Parser!parseDateHeader(line.date) = Parser!Missing
         /\ line.date.day >= 0 =>
               LET date == Parser!parseDateHeader(line.date)
               IN  /\ date \in Nat /\ date <= Today + 2
                   /\ line.date.year = Parser!Missing => date > Today - Parser!DaysPerYear
<1> DEFINE stamp == line.date
<1>1. CASE stamp.day < 0
  BY <1>1, StampsOfLines DEF Parser!parseDateHeader
<1>2. CASE stamp.day >= 0
  <2>1. PICK year \in Nat : year = Today \div 6 /\ year >= 1
                            /\ year * 6 <= Today /\ Today <= year * 6 + 5
    BY AYearIsBehind DEF Parser!DaysPerYear
  <2>2. PICK day \in 0..5 : day = stamp.day
    BY <1>2, StampsOfLines
  <2>3. stamp.year \in {-1, year - 1}
    BY <1>2, <2>1, StampsOfLines
  <2>4. Parser!parseDateHeader(stamp) =
           IF stamp.year # -1 THEN stamp.year * 6 + day
           ELSE IF year * 6 + day > Today + 2 THEN (year - 1) * 6 + day ELSE year * 6 + day
    BY <2>1, <2>2 DEF Parser!parseDateHeader, Parser!Missing, Parser!ThisYear,
                      Parser!DaysPerYear
  <2>5. CASE stamp.year # -1
    BY <2>1, <2>2, <2>3, <2>4, <2>5, <1>2, AYearIsBehind DEF Parser!Missing
  <2>6. CASE stamp.year = -1
    BY <2>1, <2>2, <2>4, <2>6, <1>2, AYearIsBehind DEF Parser!Missing, Parser!DaysPerYear
  <2> QED BY <2>5, <2>6
<1> QED BY <1>1, <1>2, StampsOfLines

LEMMA HintsAreSome ==
  /\ DOMAIN Parser!Hints = 1..2
  /\ \A i \in 1..2 : Parser!Hints[i].category \in {"Data & Airtime", "Transport"}
<1>1. DOMAIN Parser!Hints = 1..2
  BY DEF Parser!Hints
<1>2. Parser!Hints[1].category = "Data & Airtime" /\ Parser!Hints[2].category = "Transport"
  BY DEF Parser!Hints
<1>3. 1..2 = {1, 2}
  OBVIOUS
<1>4. ASSUME NEW i \in {1, 2}
      PROVE  Parser!Hints[i].category \in {"Data & Airtime", "Transport"}
  BY <1>2, <1>4
<1> QED BY <1>1, <1>3, <1>4

\* A guess is a category there is, and one more word does not unmake it.
LEMMA Guesses ==
  /\ \A titles : Parser!guessCategory(titles) \in ui.categories \cup {""}
  /\ \A title, more : Parser!guessCategory({title}) \notin {"Other", ""} =>
                         Parser!guessCategory({title, more}) \notin {"Other", ""}
<1> DEFINE Of(titles) == {i \in DOMAIN Parser!Hints :
                             /\ Parser!Hints[i].title \in titles
                             /\ Parser!Hints[i].category \in ui.categories}
<1>1. ASSUME NEW titles, Of(titles) # {}
      PROVE  /\ Parser!guessCategory(titles) = Parser!Hints[Parser!Min(Of(titles))].category
             /\ Parser!Min(Of(titles)) \in Of(titles)
  <2>1. Of(titles) \subseteq DOMAIN Parser!Hints /\ 1..2 \subseteq Nat
    OBVIOUS
  <2>2. \E m \in Of(titles) : \A k \in Of(titles) : m <= k
    BY <1>1, <2>1, HintsAreSome, SomeFirst, Zenon
  <2>3. Parser!Min(Of(titles)) \in Of(titles)
    BY <2>2 DEF Parser!Min
  <2> QED BY <1>1, <2>3 DEF Parser!guessCategory
<1>2. ASSUME NEW titles, Of(titles) = {}
      PROVE  Parser!guessCategory(titles) = IF "Other" \in ui.categories THEN "Other" ELSE ""
  BY <1>2 DEF Parser!guessCategory
<1>3. ASSUME NEW titles PROVE Parser!guessCategory(titles) \in ui.categories \cup {""}
  <2>1. CASE Of(titles) # {}
    BY <1>1, <2>1
  <2>2. CASE Of(titles) = {}
    BY <1>2, <2>2
  <2> QED BY <2>1, <2>2
<1>4. ASSUME NEW title, NEW more, Parser!guessCategory({title}) \notin {"Other", ""}
      PROVE  Parser!guessCategory({title, more}) \notin {"Other", ""}
  <2>1. Of({title}) # {}
    BY <1>2, <1>4
  <2>2. Of({title, more}) # {}
    BY <2>1
  <2>3. PICK i \in DOMAIN Parser!Hints :
           Parser!guessCategory({title, more}) = Parser!Hints[i].category
    BY <1>1, <2>2
  <2> QED BY <2>3, HintsAreSome
<1> QED BY <1>3, <1>4
LEMMA LinesAreLines == Parser!Lines \subseteq Parser!Line
<1>1. PICK year, stamps :
        /\ year = Parser!ThisYear - 1
        /\ stamps = {Parser!NoDate, Parser!Unresolved}
                       \cup [day : 0..5, year : {Parser!Missing, year}]
        /\ Parser!Line = [noise : BOOLEAN, date : stamps, amount : {"", "plain", "-", "+"},
                          title : Parser!Titles, typeLine : BOOLEAN]
  BY ShapeOfLines
<1>2. /\ {Parser!NoDate, Parser!Unresolved} \subseteq stamps
      /\ \A d \in 0..5, y \in {Parser!Missing, year} : Parser!Stamp(d, y) \in stamps
  BY <1>1 DEF Parser!Stamp
<1>3. year = Parser!ThisYear - 1
  BY <1>1
<1>4. {Parser!NoDate, Parser!Unresolved, Parser!Stamp(1, Parser!Missing),
       Parser!Stamp(2, Parser!Missing),
       Parser!Stamp(5, Parser!Missing), Parser!Stamp(2, year)} \subseteq stamps
  BY <1>2
<1>5. ASSUME NEW noise \in BOOLEAN, NEW date \in stamps,
             NEW amount \in {"", "plain", "-", "+"}, NEW title \in Parser!Titles,
             NEW typeLine \in BOOLEAN
      PROVE  [noise |-> noise, date |-> date, amount |-> amount, title |-> title,
              typeLine |-> typeLine] \in Parser!Line
  BY <1>1
<1>6. PICK no, yes \in BOOLEAN : no = FALSE /\ yes = TRUE
  BY Zenon
<1>7. ASSUME NEW title \in Parser!Titles
      PROVE  /\ Parser!Text(title) = [noise |-> no, date |-> Parser!NoDate, amount |-> "",
                                      title |-> title, typeLine |-> no]
             /\ Parser!Text(title) \in Parser!Line
  <2>1. Parser!Text(title) = [noise |-> no, date |-> Parser!NoDate, amount |-> "",
                              title |-> title, typeLine |-> no]
    BY <1>6 DEF Parser!Text
  <2>2. Parser!NoDate \in stamps /\ "" \in {"", "plain", "-", "+"}
    BY <1>4
  <2> QED BY <1>5, <2>1, <2>2
<1>8. ASSUME NEW line \in Parser!Line
      PROVE  /\ \A date \in stamps : [line EXCEPT !.date = date] \in Parser!Line
             /\ \A sign \in {"", "plain", "-", "+"} :
                   [line EXCEPT !.amount = sign] \in Parser!Line
             /\ \A known \in BOOLEAN : /\ [line EXCEPT !.noise = known] \in Parser!Line
                                       /\ [line EXCEPT !.typeLine = known] \in Parser!Line
  <2>1. \A date \in stamps : [line EXCEPT !.date = date] \in Parser!Line
    BY <1>1
  <2>2. \A sign \in {"", "plain", "-", "+"} : [line EXCEPT !.amount = sign] \in Parser!Line
    BY <1>1
  <2>3. \A known \in BOOLEAN : [line EXCEPT !.noise = known] \in Parser!Line
    BY <1>1
  <2>4. \A known \in BOOLEAN : [line EXCEPT !.typeLine = known] \in Parser!Line
    BY <1>1
  <2> QED BY <2>1, <2>2, <2>3, <2>4
<1>9. {"", "uber", "bob", "ab", "airtime"} \subseteq Parser!Titles
  BY DEF Parser!Titles
<1>10. ASSUME NEW date \in stamps PROVE Parser!On(date) \in Parser!Line
  BY <1>7, <1>8, <1>9 DEF Parser!On
<1>11. ASSUME NEW title \in Parser!Titles, NEW sign \in {"", "plain", "-", "+"}
       PROVE  Parser!Paid(title, sign) \in Parser!Line
  BY <1>7, <1>8 DEF Parser!Paid
<1>12. {Parser!Text(t) : t \in {"uber", "ab"}} \subseteq Parser!Line
  BY <1>7, <1>9
<1>13. [Parser!Text("airtime") EXCEPT !.typeLine = TRUE] \in Parser!Line
  BY <1>6, <1>7, <1>8, <1>9
<1>14. [Parser!Paid("bob", "+") EXCEPT !.noise = TRUE] \in Parser!Line
  BY <1>6, <1>8, <1>9, <1>11
<1>15. [Parser!Paid("uber", "-") EXCEPT !.date = Parser!Stamp(2, Parser!Missing)]
          \in Parser!Line
  BY <1>4, <1>8, <1>9, <1>11
<1> QED BY <1>3, <1>4, <1>9, <1>10, <1>11, <1>12, <1>13, <1>14, <1>15 DEF Parser!Lines

\* What the walk holds: a draft for every entry so far, with the date and the title above
\* it; the date and the title for the next one; near dates; and guesses of categories.
FromAbove(i, draft) ==
    /\ draft.date = Parser!DateAbove(i)
    /\ ui.lines[i].title = "" => \/ draft.description = "Transaction"
                                 \/ Parser!StandsAbove(draft.description, i)

Guessed(draft) == draft.category = Parser!guessCategory({draft.description})

WalkInv ==
    /\ Len(ui.walk.drafts) = Cardinality(Parser!Entries)
    /\ \A i \in Parser!Entries : FromAbove(i, Parser!DraftOf(i, ui.walk.drafts))
    /\ \A k \in DOMAIN ui.walk.drafts :
          Parser!Near(ui.walk.drafts[k].date) /\ Guessed(ui.walk.drafts[k])
    /\ ui.walk.currentDate = Parser!DateAbove(Len(ui.lines) + 1)
    /\ Parser!Near(ui.walk.currentDate)
    /\ \/ ui.walk.pendingTitle = ""
       \/ Parser!StandsAbove(ui.walk.pendingTitle, Len(ui.lines) + 1)

WalkState(lines, categories, drafts, date, title) ==
    [lines |-> lines, categories |-> categories,
     walk |-> [drafts |-> drafts, currentDate |-> date, pendingTitle |-> title]]

ParserInv ==
    /\ ui = WalkState(ui.lines, ui.categories, ui.walk.drafts, ui.walk.currentDate,
                      ui.walk.pendingTitle)
    /\ Parser!TypeOK /\ WalkInv

EntryLine(line) == ~line.noise /\ line.date = Parser!NoDate /\ line.amount # ""
DateLine(line) == ~line.noise /\ line.date.day >= 0

LEMMA EntriesAreFinite ==
  ASSUME Parser!TypeOK
  PROVE  /\ Len(ui.lines) \in Nat /\ DOMAIN ui.lines = 1..Len(ui.lines)
         /\ Parser!Entries \subseteq 1..Len(ui.lines)
         /\ IsFiniteSet(Parser!Entries) /\ Cardinality(Parser!Entries) \in Nat
<1> ui.lines \in Seq(Parser!Line)
  BY DEF Parser!TypeOK
<1>1. Len(ui.lines) \in Nat /\ DOMAIN ui.lines = 1..Len(ui.lines)
  OBVIOUS
<1>2. Parser!Entries \subseteq 1..Len(ui.lines)
  BY <1>1 DEF Parser!Entries
<1>3. IsFiniteSet(1..Len(ui.lines))
  BY <1>1, FS_Interval
<1>4. IsFiniteSet(Parser!Entries)
  BY <1>2, <1>3, FS_Subset
<1> QED BY <1>1, <1>2, <1>4, FS_CardinalityType

LEMMA SameCardinality == \A S : Parser!Cardinality(S) = Cardinality(S)
BY DEF Parser!Cardinality, Cardinality

\* Which of the drafts is made of which entry.
LEMMA Ranks ==
  ASSUME Parser!TypeOK, NEW i \in Parser!Entries
  PROVE  Cardinality({j \in Parser!Entries : j <= i}) \in 1..Cardinality(Parser!Entries)
<1> DEFINE upTo == {j \in Parser!Entries : j <= i}
<1>1. /\ IsFiniteSet(upTo) /\ Cardinality(upTo) \in Nat
      /\ Cardinality(upTo) <= Cardinality(Parser!Entries)
  <2>1. upTo \in SUBSET Parser!Entries
    OBVIOUS
  <2> QED BY <2>1, EntriesAreFinite, FS_Subset, FS_CardinalityType
<1>2. i \in upTo
  BY EntriesAreFinite
<1>3. Cardinality(upTo) # 0
  BY <1>1, <1>2, FS_EmptySet
<1> QED BY <1>1, <1>3, EntriesAreFinite

\* What one more line, after n of them, changes of what stands above the lines.
NextLine(n, line) ==
    /\ Parser!TypeOK /\ line \in Parser!Line /\ n = Len(ui.lines)
    /\ ui'.lines = Append(ui.lines, line)

LEMMA LinesAreKept ==
  ASSUME NEW n, NEW line, NextLine(n, line)
  PROVE  /\ n \in Nat /\ DOMAIN ui.lines = 1..n
         /\ Len(ui.lines') = n + 1 /\ DOMAIN ui.lines' = 1..n + 1
         /\ \A i \in 1..n : /\ ui.lines'[i] = ui.lines[i]
                            /\ Parser!IsEntry(i)' <=> Parser!IsEntry(i)
                            /\ Parser!IsDate(i)' <=> Parser!IsDate(i)
         /\ ui.lines'[n + 1] = line
         /\ Parser!IsEntry(n + 1)' <=> EntryLine(line)
         /\ Parser!IsDate(n + 1)' <=> DateLine(line)
<1>1. ui.lines \in Seq(Parser!Line) /\ line \in Parser!Line /\ n = Len(ui.lines)
      /\ ui.lines' = Append(ui.lines, line)
  BY DEF NextLine, Parser!TypeOK
<1>2. /\ n \in Nat /\ DOMAIN ui.lines = 1..n
      /\ Len(ui.lines') = n + 1 /\ DOMAIN ui.lines' = 1..n + 1
      /\ \A i \in 1..n : ui.lines'[i] = ui.lines[i]
      /\ ui.lines'[n + 1] = line
  BY <1>1
<1>3. ASSUME NEW i \in 1..n
      PROVE  /\ Parser!IsEntry(i)' <=> Parser!IsEntry(i)
             /\ Parser!IsDate(i)' <=> Parser!IsDate(i)
  BY <1>2 DEF Parser!IsEntry, Parser!IsDate
<1>4. Parser!IsEntry(n + 1)' <=> EntryLine(line)
  BY <1>2 DEF Parser!IsEntry, EntryLine
<1>5. Parser!IsDate(n + 1)' <=> DateLine(line)
  BY <1>2 DEF Parser!IsDate, DateLine
<1> QED BY <1>2, <1>3, <1>4, <1>5

LEMMA EntriesGrow ==
  ASSUME NEW n, NEW line, NextLine(n, line)
  PROVE  /\ Parser!Entries' = Parser!Entries \cup (IF EntryLine(line) THEN {n + 1} ELSE {})
         /\ n + 1 \notin Parser!Entries
         /\ \A i \in Parser!Entries : {j \in Parser!Entries' : j <= i}
                                         = {j \in Parser!Entries : j <= i}
         /\ {j \in Parser!Entries' : j <= n + 1} = Parser!Entries'
<1>1. n \in Nat /\ Parser!Entries = {i \in 1..n : Parser!IsEntry(i)}
  BY LinesAreKept DEF Parser!Entries
<1>2. Parser!Entries' = {i \in 1..n + 1 : Parser!IsEntry(i)'}
  BY LinesAreKept DEF Parser!Entries
<1>3. /\ \A i \in 1..n : Parser!IsEntry(i)' <=> Parser!IsEntry(i)
      /\ Parser!IsEntry(n + 1)' <=> EntryLine(line)
  BY LinesAreKept
<1>4. Parser!Entries' = Parser!Entries \cup (IF EntryLine(line) THEN {n + 1} ELSE {})
  BY <1>1, <1>2, <1>3
<1>5. \A i \in Parser!Entries : i \in 1..n
  BY <1>1
<1>6. ASSUME NEW i \in Parser!Entries
      PROVE  {j \in Parser!Entries' : j <= i} = {j \in Parser!Entries : j <= i}
  BY <1>1, <1>4, <1>5
<1>7. {j \in Parser!Entries' : j <= n + 1} = Parser!Entries'
  BY <1>1, <1>4, <1>5
<1> QED BY <1>1, <1>4, <1>5, <1>6, <1>7

LEMMA DatesAreKept ==
  ASSUME NEW n, NEW line, NextLine(n, line)
  PROVE  /\ \A i \in 1..n + 1 : Parser!DateAbove(i)' = Parser!DateAbove(i)
         /\ Parser!DateAbove(n + 2)' = IF DateLine(line) THEN Parser!parseDateHeader(line.date)
                                       ELSE Parser!DateAbove(n + 1)
<1> DEFINE Headers(i) == {j \in 1..n : j < i /\ Parser!IsDate(j)}
           HeadersNow(i) == {j \in 1..n + 1 : j < i /\ Parser!IsDate(j)'}
<1>1. /\ n \in Nat
      /\ \A i : Parser!DateAbove(i) = IF Headers(i) = {} THEN Today
                    ELSE Parser!parseDateHeader(ui.lines[Parser!Max(Headers(i))].date)
  BY LinesAreKept DEF Parser!DateAbove
<1>2. \A i : Parser!DateAbove(i)' = IF HeadersNow(i) = {} THEN Today
                    ELSE Parser!parseDateHeader(ui.lines'[Parser!Max(HeadersNow(i))].date)
  BY LinesAreKept DEF Parser!DateAbove
<1>3. /\ \A i \in 1..n : /\ ui.lines'[i] = ui.lines[i]
                         /\ Parser!IsDate(i)' <=> Parser!IsDate(i)
      /\ ui.lines'[n + 1] = line
      /\ Parser!IsDate(n + 1)' <=> DateLine(line)
  BY LinesAreKept
<1>4. ASSUME NEW i, Headers(i) # {}
      PROVE  Parser!Max(Headers(i)) \in 1..n
  <2>1. Headers(i) \subseteq 1..n
    OBVIOUS
  <2>2. PICK m \in Headers(i) : \A k \in Headers(i) : k <= m
    BY <1>1, <1>4, <2>1, SomeLast, Zenon
  <2>3. Headers(i) \subseteq Int
    BY <1>1
  <2> HIDE DEF Headers
  <2>4. Parser!Max(Headers(i)) = m
    BY <2>2, <2>3, LastIs
  <2> QED BY <2>1, <2>2, <2>4
<1>5. ASSUME NEW i \in 1..n + 1 PROVE Parser!DateAbove(i)' = Parser!DateAbove(i)
  <2>1. HeadersNow(i) = Headers(i)
    BY <1>1, <1>3
  <2> HIDE DEF Headers, HeadersNow
  <2> QED BY <1>1, <1>2, <1>3, <1>4, <2>1
<1>6. CASE DateLine(line)
  <2>1. n + 1 \in HeadersNow(n + 2) /\ \A k \in HeadersNow(n + 2) : k <= n + 1
    BY <1>1, <1>3, <1>6
  <2>2. HeadersNow(n + 2) \subseteq Int
    BY <1>1
  <2> HIDE DEF HeadersNow
  <2>3. Parser!Max(HeadersNow(n + 2)) = n + 1
    BY <2>1, <2>2, LastIs
  <2> QED BY <1>2, <1>3, <1>5, <1>6, <2>1, <2>3
<1>7. CASE ~DateLine(line)
  <2>1. HeadersNow(n + 2) = Headers(n + 1)
    <3>1. \A j \in 1..n + 1 : j < n + 2 /\ (j \in 1..n \/ j = n + 1)
      BY <1>1
    <3>2. \A j \in 1..n : j \in 1..n + 1 /\ j < n + 1
      BY <1>1
    <3> QED BY <1>3, <1>7, <3>1, <3>2
  <2> HIDE DEF Headers, HeadersNow
  <2>2. Parser!DateAbove(n + 2)' = Parser!DateAbove(n + 1)
    BY <1>1, <1>2, <1>3, <1>4, <2>1
  <2> QED BY <1>5, <1>7, <2>2
<1> QED BY <1>6, <1>7

LEMMA TitlesAreKept ==
  ASSUME NEW n, NEW line, NextLine(n, line)
  PROVE  /\ \A i \in 1..n + 1 : \A title :
               Parser!StandsAbove(title, i) => Parser!StandsAbove(title, i)'
         /\ ~EntryLine(line) /\ ~DateLine(line) =>
               /\ \A title : Parser!StandsAbove(title, n + 1)
                                => Parser!StandsAbove(title, n + 2)'
               /\ ~line.noise => Parser!StandsAbove(line.title, n + 2)'
<1>1. /\ n \in Nat
      /\ \A i \in 1..n : /\ ui.lines'[i] = ui.lines[i]
                         /\ Parser!IsEntry(i)' <=> Parser!IsEntry(i)
                         /\ Parser!IsDate(i)' <=> Parser!IsDate(i)
      /\ ui.lines'[n + 1] = line
      /\ Parser!IsEntry(n + 1)' <=> EntryLine(line)
      /\ Parser!IsDate(n + 1)' <=> DateLine(line)
  BY LinesAreKept
<1>2. ASSUME NEW i \in 1..n + 1, NEW title, Parser!StandsAbove(title, i)
      PROVE  Parser!StandsAbove(title, i)'
  <2>1. PICK j \in 1..i - 1 :
           /\ ~ui.lines[j].noise /\ ui.lines[j].title = title
           /\ \A k \in j..i - 1 : ~Parser!IsEntry(k) /\ ~Parser!IsDate(k)
    BY <1>2 DEF Parser!StandsAbove
  <2>2. j \in 1..n /\ \A k \in j..i - 1 : k \in 1..n
    BY <1>1
  <2>3. /\ ~ui.lines'[j].noise /\ ui.lines'[j].title = title
        /\ \A k \in j..i - 1 : ~Parser!IsEntry(k)' /\ ~Parser!IsDate(k)'
    BY <1>1, <2>1, <2>2
  <2> QED BY <2>1, <2>3 DEF Parser!StandsAbove
<1>3. ASSUME ~EntryLine(line), ~DateLine(line), NEW title, Parser!StandsAbove(title, n + 1)
      PROVE  Parser!StandsAbove(title, n + 2)'
  <2>1. PICK j \in 1..n :
           /\ ~ui.lines[j].noise /\ ui.lines[j].title = title
           /\ \A k \in j..n : ~Parser!IsEntry(k) /\ ~Parser!IsDate(k)
    BY <1>1, <1>3 DEF Parser!StandsAbove
  <2>2. \A k \in j..n + 1 : k \in 1..n + 1 /\ (k # n + 1 => k \in j..n /\ k \in 1..n)
    BY <1>1
  <2>3. /\ ~ui.lines'[j].noise /\ ui.lines'[j].title = title
        /\ \A k \in j..n + 1 : ~Parser!IsEntry(k)' /\ ~Parser!IsDate(k)'
    BY <1>1, <1>3, <2>1, <2>2
  <2>4. j \in 1..(n + 2) - 1 /\ (n + 2) - 1 = n + 1
    BY <1>1
  <2> QED BY <2>3, <2>4 DEF Parser!StandsAbove
<1>4. ASSUME ~EntryLine(line), ~DateLine(line), ~line.noise
      PROVE  Parser!StandsAbove(line.title, n + 2)'
  <2>1. /\ ~ui.lines'[n + 1].noise /\ ui.lines'[n + 1].title = line.title
        /\ \A k \in n + 1..n + 1 : ~Parser!IsEntry(k)' /\ ~Parser!IsDate(k)'
    BY <1>1, <1>4
  <2>2. n + 1 \in 1..(n + 2) - 1 /\ (n + 2) - 1 = n + 1
    BY <1>1
  <2> QED BY <2>1, <2>2 DEF Parser!StandsAbove
<1> QED BY <1>2, <1>3, <1>4

LEMMA StillNear ==
  ASSUME NEW n, NEW line, NextLine(n, line), NEW date \in Int, Parser!Near(date)
  PROVE  Parser!Near(date)'
<1>1. /\ n \in Nat /\ DOMAIN ui.lines = 1..n /\ DOMAIN ui.lines' = 1..n + 1
      /\ \A i \in 1..n : ui.lines'[i] = ui.lines[i]
  BY LinesAreKept
<1>2. (\A i \in DOMAIN ui.lines' : ui.lines'[i].date.year = Parser!Missing)
         => \A i \in DOMAIN ui.lines : ui.lines[i].date.year = Parser!Missing
  BY <1>1
<1> QED BY <1>2 DEF Parser!Near

LEMMA NewDateIsNear ==
  ASSUME NEW n, NEW line, NextLine(n, line), line.date.day >= 0
  PROVE  Parser!Near(Parser!parseDateHeader(line.date))'
<1>1. n \in Nat /\ DOMAIN ui.lines' = 1..n + 1 /\ ui.lines'[n + 1] = line
      /\ line \in Parser!Line
  BY LinesAreKept DEF NextLine
<1>2. (\A i \in DOMAIN ui.lines' : ui.lines'[i].date.year = Parser!Missing)
         => line.date.year = Parser!Missing
  BY <1>1
<1>3. PICK date : date = Parser!parseDateHeader(line.date)
  OBVIOUS
<1>4. /\ date <= Today + 2
      /\ line.date.year = Parser!Missing => date > Today - Parser!DaysPerYear
  BY <1>1, <1>3, DatesAreNear
<1>5. Parser!Near(date)'
  BY <1>2, <1>4 DEF Parser!Near
<1> QED BY <1>3, <1>5 DEF Parser!parseDateHeader

\* What the walk does with a line.
Titled(walk, line) ==
    IF line.title # "" THEN line.title
    ELSE IF walk.pendingTitle # "" THEN walk.pendingTitle ELSE "Transaction"
NewDraft(walk, line) == Parser!Draft(walk.currentDate, Titled(walk, line), line.amount)

Passed(line) ==
    /\ ~EntryLine(line) /\ ~DateLine(line)
    /\ \E title \in Parser!Titles :
          /\ title = ui.walk.pendingTitle \/ (~line.noise /\ title = line.title)
          /\ ui' = WalkState(Append(ui.lines, line), ui.categories, ui.walk.drafts,
                             ui.walk.currentDate, title)
Dated(line) ==
    /\ ~EntryLine(line) /\ DateLine(line)
    /\ ui' = WalkState(Append(ui.lines, line), ui.categories, ui.walk.drafts,
                       Parser!parseDateHeader(line.date), "")
Entered(line) ==
    /\ EntryLine(line) /\ ~DateLine(line)
    /\ ui' = WalkState(Append(ui.lines, line), ui.categories,
                       Append(ui.walk.drafts, NewDraft(ui.walk, line)),
                       ui.walk.currentDate, "")

LEMMA WalkReads ==
  ASSUME ParserInv, NEW line \in Parser!Lines, Parser!Read(line)
  PROVE  NextLine(Len(ui.lines), line) /\ (Passed(line) \/ Dated(line) \/ Entered(line))
<1>1. line \in Parser!Line
  BY LinesAreLines
<1>2. PICK walk : walk = Parser!Walk(ui.walk, line)
  OBVIOUS
<1>3. ui' = [lines |-> Append(ui.lines, line), categories |-> ui.categories, walk |-> walk]
  BY <1>2 DEF Parser!Read, ParserInv, WalkState
<1>4. NextLine(Len(ui.lines), line)
  BY <1>1, <1>3 DEF NextLine, ParserInv
<1>5. ui.walk = [drafts |-> ui.walk.drafts, currentDate |-> ui.walk.currentDate,
                 pendingTitle |-> ui.walk.pendingTitle]
  <2>1. ui = WalkState(ui.lines, ui.categories, ui.walk.drafts, ui.walk.currentDate,
                       ui.walk.pendingTitle)
    BY DEF ParserInv
  <2> QED BY <2>1 DEF WalkState
<1>6. PICK old : /\ old = ui.walk
                 /\ old = [drafts |-> old.drafts, currentDate |-> old.currentDate,
                           pendingTitle |-> old.pendingTitle]
                 /\ old.pendingTitle \in Parser!Titles
  BY <1>5 DEF ParserInv, Parser!TypeOK
<1>7. line.title \in Parser!Titles /\ line.noise \in BOOLEAN
  <2>1. PICK stamps : Parser!Line = [noise : BOOLEAN, date : stamps,
                amount : {"", "plain", "-", "+"}, title : Parser!Titles, typeLine : BOOLEAN]
    BY ShapeOfLines
  <2> QED BY <1>1, <2>1
<1>8. walk = IF line.noise THEN old
             ELSE IF Parser!parseDateHeader(line.date) # Parser!Missing
             THEN [old EXCEPT !.currentDate = Parser!parseDateHeader(line.date),
                              !.pendingTitle = ""]
             ELSE IF line.date # Parser!NoDate THEN old
             ELSE IF line.amount = ""
             THEN [old EXCEPT !.pendingTitle = IF line.title # "ab" THEN line.title ELSE @]
             ELSE [old EXCEPT !.pendingTitle = "",
                              !.drafts = Append(@, NewDraft(old, line))]
  BY <1>2, <1>6 DEF Parser!Walk, Parser!Walked, Parser!Entry, Parser!isHeaderLike,
                    NewDraft, Titled
<1>9. /\ Parser!parseDateHeader(line.date) # Parser!Missing <=> line.date.day >= 0
      /\ line.date = Parser!NoDate => ~(line.date.day >= 0)
  BY <1>1, DatesAreNear, StampsOfLines DEF Parser!NoDate, Parser!Stamp, Parser!Missing
<1>10. ASSUME NEW title \in Parser!Titles, ~EntryLine(line), ~DateLine(line),
              title = old.pendingTitle \/ (~line.noise /\ title = line.title),
              walk = [old EXCEPT !.pendingTitle = title]
       PROVE  Passed(line)
  <2>1. ui' = WalkState(Append(ui.lines, line), ui.categories, ui.walk.drafts,
                        ui.walk.currentDate, title)
    BY <1>3, <1>6, <1>10 DEF WalkState
  <2> QED BY <1>6, <1>10, <2>1 DEF Passed
<1>11. old = [old EXCEPT !.pendingTitle = old.pendingTitle]
  BY <1>6
<1>12. CASE line.noise
  BY <1>4, <1>6, <1>8, <1>10, <1>11, <1>12 DEF EntryLine, DateLine
<1>13. CASE ~line.noise /\ line.date.day >= 0
  <2>1. ~EntryLine(line) /\ DateLine(line)
    BY <1>9, <1>13, Zenon DEF EntryLine, DateLine
  <2>2. walk = [old EXCEPT !.currentDate = Parser!parseDateHeader(line.date),
                           !.pendingTitle = ""]
    BY <1>8, <1>9, <1>13
  <2>3. walk = [drafts |-> old.drafts, currentDate |-> Parser!parseDateHeader(line.date),
                pendingTitle |-> ""]
    BY <1>6, <2>2
  <2> QED BY <1>3, <1>4, <1>6, <2>1, <2>3 DEF Dated, WalkState
<1>14. CASE ~line.noise /\ ~(line.date.day >= 0) /\ line.date # Parser!NoDate
  <2>1. ~EntryLine(line) /\ ~DateLine(line)
    BY <1>14 DEF EntryLine, DateLine
  <2>2. walk = old
    BY <1>8, <1>9, <1>14
  <2> QED BY <1>4, <1>6, <1>10, <1>11, <2>1, <2>2
<1>15. CASE ~line.noise /\ line.date = Parser!NoDate /\ line.amount = ""
  <2>1. ~EntryLine(line) /\ ~DateLine(line)
    BY <1>9, <1>15, Zenon DEF EntryLine, DateLine
  <2>2. PICK title \in Parser!Titles :
           /\ title = IF line.title # "ab" THEN line.title ELSE old.pendingTitle
    BY <1>6, <1>7
  <2>3. walk = [old EXCEPT !.pendingTitle = title]
    <3>1. ~line.noise /\ ~(Parser!parseDateHeader(line.date) # Parser!Missing)
          /\ line.date = Parser!NoDate /\ line.amount = ""
      BY <1>9, <1>15, Zenon
    <3> QED BY <1>8, <2>2, <3>1
  <2>4. title = old.pendingTitle \/ (~line.noise /\ title = line.title)
    BY <1>15, <2>2
  <2> QED BY <1>4, <1>10, <2>1, <2>3, <2>4
<1>16. CASE EntryLine(line)
  <2>1. ~DateLine(line)
    BY <1>9, <1>16, Zenon DEF EntryLine, DateLine
  <2>2. walk = [old EXCEPT !.pendingTitle = "", !.drafts = Append(@, NewDraft(old, line))]
    <3>1. ~line.noise /\ ~(Parser!parseDateHeader(line.date) # Parser!Missing)
          /\ line.date = Parser!NoDate /\ line.amount # ""
      BY <1>9, <1>16, Zenon DEF EntryLine
    <3> QED BY <1>8, <3>1
  <2>3. walk = [drafts |-> Append(old.drafts, NewDraft(old, line)),
                currentDate |-> old.currentDate, pendingTitle |-> ""]
    BY <1>6, <2>2
  <2> QED BY <1>3, <1>4, <1>6, <1>16, <2>1, <2>3 DEF Entered, WalkState
<1> QED BY <1>4, <1>7, <1>12, <1>13, <1>14, <1>15, <1>16 DEF EntryLine

DraftType == [date : Int, description : Parser!Titles \cup {"Transaction"},
              type : {"income", "expense"}, category : Parser!CategoryNames \cup {""}]

LEMMA ParserTypes ==
  Parser!TypeOK <=> /\ ui.lines \in Seq(Parser!Line) /\ ui.categories \subseteq Parser!CategoryNames
                    /\ ui.walk.drafts \in Seq(DraftType) /\ ui.walk.currentDate \in Int
                    /\ ui.walk.pendingTitle \in Parser!Titles
BY Zenon DEF Parser!TypeOK, DraftType

LEMMA ParserTypesNext ==
  Parser!TypeOK' <=> /\ ui'.lines \in Seq(Parser!Line)
                     /\ ui'.categories \subseteq Parser!CategoryNames
                     /\ ui'.walk.drafts \in Seq(DraftType) /\ ui'.walk.currentDate \in Int
                     /\ ui'.walk.pendingTitle \in Parser!Titles
BY Zenon DEF Parser!TypeOK, DraftType

\* What was so of the drafts there are stays so.
LEMMA DraftsAreKept ==
  ASSUME ParserInv, NEW n, NEW line, NextLine(n, line), ui'.categories = ui.categories
  PROVE  /\ \A i \in Parser!Entries : \A draft : FromAbove(i, draft) => FromAbove(i, draft)'
         /\ \A draft : Guessed(draft) => Guessed(draft)'
         /\ \A i \in Parser!Entries : \A drafts :
               Parser!DraftOf(i, drafts)' = Parser!DraftOf(i, drafts)
<1>1. /\ n \in Nat /\ Parser!Entries \subseteq 1..n
      /\ \A i \in 1..n : ui.lines'[i] = ui.lines[i]
  BY LinesAreKept DEF Parser!Entries
<1>2. ASSUME NEW i \in Parser!Entries, NEW draft, FromAbove(i, draft)
      PROVE  FromAbove(i, draft)'
  <2>1. i \in 1..n + 1 /\ ui.lines'[i] = ui.lines[i]
    BY <1>1
  <2>2. Parser!DateAbove(i)' = Parser!DateAbove(i)
    BY <2>1, DatesAreKept
  <2>3. PICK title : title = draft.description
    OBVIOUS
  <2>4. Parser!StandsAbove(title, i) => Parser!StandsAbove(title, i)'
    BY <2>1, TitlesAreKept
  <2>5. Parser!StandsAbove(draft.description, i) => Parser!StandsAbove(draft.description, i)'
    BY <2>3, <2>4
  <2> QED BY <1>2, <2>1, <2>2, <2>5 DEF FromAbove
<1>3. ASSUME NEW draft, Guessed(draft) PROVE Guessed(draft)'
  BY <1>3 DEF Guessed, Parser!guessCategory
<1>4. ASSUME NEW i \in Parser!Entries, NEW drafts
      PROVE  Parser!DraftOf(i, drafts)' = Parser!DraftOf(i, drafts)
  BY EntriesGrow DEF Parser!DraftOf
<1> QED BY <1>2, <1>3, <1>4

LEMMA ParserPasses ==
  ASSUME ParserInv, NEW n, NEW line, NextLine(n, line), Passed(line)
  PROVE  ParserInv'
<1>1. PICK title \in Parser!Titles :
        /\ title = ui.walk.pendingTitle \/ (~line.noise /\ title = line.title)
        /\ ui' = WalkState(Append(ui.lines, line), ui.categories, ui.walk.drafts,
                           ui.walk.currentDate, title)
  BY DEF Passed
<1>2. /\ ui'.lines = Append(ui.lines, line) /\ ui'.categories = ui.categories
      /\ ui'.walk.drafts = ui.walk.drafts /\ ui'.walk.currentDate = ui.walk.currentDate
      /\ ui'.walk.pendingTitle = title
  BY <1>1 DEF WalkState
<1>3. ~EntryLine(line) /\ ~DateLine(line)
  BY DEF Passed
<1>4. Parser!TypeOK'
  <2>1. Parser!TypeOK /\ line \in Parser!Line
    BY DEF NextLine
  <2>2. Append(ui.lines, line) \in Seq(Parser!Line)
    BY <2>1, ParserTypes, AppendProperties
  <2> QED BY <1>2, <2>1, <2>2, ParserTypes, ParserTypesNext
<1>5. n \in Nat /\ n = Len(ui.lines) /\ Len(ui.lines') = n + 1
  BY LinesAreKept DEF NextLine
<1>6. Parser!Entries' = Parser!Entries
  BY <1>3, EntriesGrow
<1>7. PICK drafts : drafts = ui.walk.drafts /\ drafts = ui'.walk.drafts
  BY <1>2
<1>8. ASSUME NEW i \in Parser!Entries' PROVE FromAbove(i, Parser!DraftOf(i, ui.walk.drafts))'
  <2>1. PICK draft : draft = Parser!DraftOf(i, drafts)
    OBVIOUS
  <2>2. FromAbove(i, draft)
    BY <1>6, <1>7, <2>1 DEF ParserInv, WalkInv
  <2>3. FromAbove(i, draft)'
    BY <1>2, <1>6, <2>2, DraftsAreKept
  <2>4. draft = Parser!DraftOf(i, drafts)'
    BY <1>2, <1>6, <2>1, DraftsAreKept
  <2>5. draft = Parser!DraftOf(i, ui.walk.drafts)'
    BY <1>7, <2>4 DEF Parser!DraftOf
  <2> QED BY <2>3, <2>5 DEF FromAbove
<1>9. ASSUME NEW k \in DOMAIN ui'.walk.drafts
      PROVE  Parser!Near(ui.walk.drafts[k].date)' /\ Guessed(ui.walk.drafts[k])'
  <2>1. PICK draft : draft = drafts[k]
    OBVIOUS
  <2>2. draft \in DraftType /\ Parser!Near(draft.date) /\ Guessed(draft)
    <3>1. drafts \in Seq(DraftType) /\ k \in DOMAIN drafts
      BY <1>7, ParserTypes DEF ParserInv
    <3>2. draft \in DraftType
      BY <2>1, <3>1, ElementOfSeq
    <3> QED BY <1>7, <2>1, <3>1, <3>2 DEF ParserInv, WalkInv
  <2>3. Guessed(draft)'
    BY <1>2, <2>2, DraftsAreKept
  <2>4. PICK date \in Int : date = draft.date
    BY <2>2 DEF DraftType
  <2>5. Parser!Near(date)'
    BY <2>2, <2>4, StillNear
  <2> QED BY <1>7, <2>1, <2>3, <2>4, <2>5 DEF Guessed, Parser!Near
<1>10. ui'.walk.currentDate = Parser!DateAbove(n + 2)'
  BY <1>2, <1>3, <1>5, DatesAreKept DEF ParserInv, WalkInv
<1>11. Parser!Near(ui.walk.currentDate)'
  <2>1. PICK date \in Int : date = ui.walk.currentDate
    BY DEF ParserInv, Parser!TypeOK
  <2>2. Parser!Near(date)'
    BY <2>1, StillNear DEF ParserInv, WalkInv
  <2> QED BY <1>2, <2>1, <2>2 DEF Parser!Near
<1>12. title = "" \/ Parser!StandsAbove(title, n + 2)'
  <2>1. CASE title = ui.walk.pendingTitle
    BY <1>3, <1>5, <2>1, TitlesAreKept DEF ParserInv, WalkInv
  <2>2. CASE ~line.noise /\ title = line.title
    BY <1>3, <2>2, TitlesAreKept
  <2> QED BY <1>1, <2>1, <2>2
<1>13. Len(ui.walk.drafts)' = Cardinality(Parser!Entries)'
  BY <1>2, <1>6 DEF ParserInv, WalkInv
<1>14. /\ ui.walk.currentDate' = Parser!DateAbove(Len(ui.lines) + 1)'
       /\ ui.walk.pendingTitle' = "" \/ Parser!StandsAbove(ui.walk.pendingTitle, Len(ui.lines) + 1)'
  <2>1. (Len(ui.lines) + 1)' = n + 2
    BY <1>5
  <2> QED BY <1>2, <1>10, <1>12, <2>1 DEF Parser!DateAbove, Parser!StandsAbove
<1>15. WalkInv'
  BY <1>8, <1>9, <1>11, <1>13, <1>14 DEF WalkInv
<1> QED BY <1>1, <1>2, <1>4, <1>15 DEF ParserInv

LEMMA ParserDates ==
  ASSUME ParserInv, NEW n, NEW line, NextLine(n, line), Dated(line)
  PROVE  ParserInv'
<1>1. PICK date : date = Parser!parseDateHeader(line.date)
  OBVIOUS
<1>2. ui' = WalkState(Append(ui.lines, line), ui.categories, ui.walk.drafts, date, "")
  BY <1>1 DEF Dated
<1>3. /\ ui'.lines = Append(ui.lines, line) /\ ui'.categories = ui.categories
      /\ ui'.walk.drafts = ui.walk.drafts /\ ui'.walk.currentDate = date
      /\ ui'.walk.pendingTitle = ""
  BY <1>2 DEF WalkState
<1>4. ~EntryLine(line) /\ DateLine(line) /\ line.date.day >= 0
  BY DEF Dated, DateLine
<1>5. date \in Int
  BY <1>1, <1>4, DatesAreNear DEF NextLine
<1>6. Parser!TypeOK'
  <2>1. Parser!TypeOK /\ line \in Parser!Line
    BY DEF NextLine
  <2>2. Append(ui.lines, line) \in Seq(Parser!Line)
    BY <2>1, ParserTypes, AppendProperties
  <2>3. "" \in Parser!Titles
    BY DEF Parser!Titles
  <2> QED BY <1>3, <1>5, <2>1, <2>2, <2>3, ParserTypes, ParserTypesNext
<1>7. n \in Nat /\ n = Len(ui.lines) /\ Len(ui.lines') = n + 1
  BY LinesAreKept DEF NextLine
<1>8. Parser!Entries' = Parser!Entries
  BY <1>4, EntriesGrow
<1>9. PICK drafts : drafts = ui.walk.drafts /\ drafts = ui'.walk.drafts
  BY <1>3
<1>10. ASSUME NEW i \in Parser!Entries' PROVE FromAbove(i, Parser!DraftOf(i, ui.walk.drafts))'
  <2>1. PICK draft : draft = Parser!DraftOf(i, drafts)
    OBVIOUS
  <2>2. FromAbove(i, draft)
    BY <1>8, <1>9, <2>1 DEF ParserInv, WalkInv
  <2>3. FromAbove(i, draft)'
    BY <1>3, <1>8, <2>2, DraftsAreKept
  <2>4. draft = Parser!DraftOf(i, drafts)'
    BY <1>3, <1>8, <2>1, DraftsAreKept
  <2>5. draft = Parser!DraftOf(i, ui.walk.drafts)'
    BY <1>9, <2>4 DEF Parser!DraftOf
  <2> QED BY <2>3, <2>5 DEF FromAbove
<1>11. ASSUME NEW k \in DOMAIN ui'.walk.drafts
       PROVE  Parser!Near(ui.walk.drafts[k].date)' /\ Guessed(ui.walk.drafts[k])'
  <2>1. PICK draft : draft = drafts[k]
    OBVIOUS
  <2>2. draft \in DraftType /\ Parser!Near(draft.date) /\ Guessed(draft)
    <3>1. drafts \in Seq(DraftType) /\ k \in DOMAIN drafts
      BY <1>9, ParserTypes DEF ParserInv
    <3>2. draft \in DraftType
      BY <2>1, <3>1, ElementOfSeq
    <3> QED BY <1>9, <2>1, <3>1, <3>2 DEF ParserInv, WalkInv
  <2>3. Guessed(draft)'
    BY <1>3, <2>2, DraftsAreKept
  <2>4. PICK near \in Int : near = draft.date
    BY <2>2 DEF DraftType
  <2>5. Parser!Near(near)'
    BY <2>2, <2>4, StillNear
  <2> QED BY <1>9, <2>1, <2>3, <2>4, <2>5 DEF Guessed, Parser!Near
<1>12. /\ ui.walk.currentDate' = Parser!DateAbove(Len(ui.lines) + 1)'
       /\ Parser!Near(ui.walk.currentDate)'
  <2>1. date = Parser!DateAbove(n + 2)'
    BY <1>1, <1>4, DatesAreKept
  <2>2. Parser!Near(date)'
    <3>1. Parser!Near(Parser!parseDateHeader(line.date))'
      BY <1>4, NewDateIsNear
    <3> QED BY <1>1, <3>1 DEF Parser!parseDateHeader
  <2>3. (Len(ui.lines) + 1)' = n + 2
    BY <1>7
  <2> QED BY <1>3, <2>1, <2>2, <2>3 DEF Parser!DateAbove, Parser!Near
<1>13. Len(ui.walk.drafts)' = Cardinality(Parser!Entries)'
  BY <1>3, <1>8 DEF ParserInv, WalkInv
<1>14. WalkInv'
  BY <1>3, <1>10, <1>11, <1>12, <1>13 DEF WalkInv
<1> QED BY <1>2, <1>3, <1>6, <1>14 DEF ParserInv

LEMMA ParserEnters ==
  ASSUME ParserInv, NEW n, NEW line, NextLine(n, line), Entered(line)
  PROVE  ParserInv'
<1>1. PICK old, new, date : /\ old = ui.walk.drafts /\ new = NewDraft(ui.walk, line)
                            /\ date = ui.walk.currentDate
  OBVIOUS
<1>2. ui' = WalkState(Append(ui.lines, line), ui.categories, Append(old, new), date, "")
  BY <1>1 DEF Entered
<1>3. /\ ui'.lines = Append(ui.lines, line) /\ ui'.categories = ui.categories
      /\ ui'.walk.drafts = Append(old, new) /\ ui'.walk.currentDate = date
      /\ ui'.walk.pendingTitle = ""
  BY <1>2 DEF WalkState
<1>4. EntryLine(line) /\ ~DateLine(line)
  BY DEF Entered
<1>5. PICK title : title = Titled(ui.walk, line)
  OBVIOUS
<1>6. /\ date \in Int /\ old \in Seq(DraftType) /\ title \in Parser!Titles \cup {"Transaction"}
      /\ Parser!TypeOK /\ line \in Parser!Line /\ ui.categories \subseteq Parser!CategoryNames
  <2>1. line \in Parser!Line /\ Parser!TypeOK
    BY DEF NextLine
  <2>2. line.title \in Parser!Titles
    <3>1. PICK stamps : Parser!Line = [noise : BOOLEAN, date : stamps,
                 amount : {"", "plain", "-", "+"}, title : Parser!Titles, typeLine : BOOLEAN]
      BY ShapeOfLines
    <3> QED BY <2>1, <3>1
  <2> QED BY <1>1, <1>5, <2>1, <2>2, ParserTypes DEF Titled
<1>7. /\ new = [date |-> date, description |-> title,
                type |-> IF line.amount = "+" THEN "income" ELSE "expense",
                category |-> Parser!guessCategory({title})]
      /\ new \in DraftType /\ new.date = date /\ new.description = title /\ Guessed(new)
  <2>1. new = [date |-> date, description |-> title,
               type |-> IF line.amount = "+" THEN "income" ELSE "expense",
               category |-> Parser!guessCategory({title})]
    BY <1>1, <1>5 DEF NewDraft, Parser!Draft
  <2>2. Parser!guessCategory({title}) \in Parser!CategoryNames \cup {""}
    BY <1>6, Guesses
  <2>3. new \in DraftType
    BY <1>6, <2>1, <2>2 DEF DraftType
  <2>4. Guessed(new)
    BY <2>1 DEF Guessed
  <2> QED BY <2>1, <2>3, <2>4
<1>8. Parser!TypeOK'
  <2>1. Append(ui.lines, line) \in Seq(Parser!Line) /\ Append(old, new) \in Seq(DraftType)
    BY <1>6, <1>7, ParserTypes, AppendProperties
  <2>2. "" \in Parser!Titles
    BY DEF Parser!Titles
  <2> QED BY <1>3, <1>6, <2>1, <2>2, ParserTypesNext
<1>9. n \in Nat /\ n = Len(ui.lines) /\ Len(ui.lines') = n + 1
  BY LinesAreKept DEF NextLine
<1>10. /\ Parser!Entries' = Parser!Entries \cup {n + 1} /\ n + 1 \notin Parser!Entries
       /\ {j \in Parser!Entries' : j <= n + 1} = Parser!Entries'
  BY <1>4, EntriesGrow
<1>11. /\ Len(old) \in Nat /\ Len(old) = Cardinality(Parser!Entries)
       /\ Cardinality(Parser!Entries') = Len(old) + 1
       /\ Len(Append(old, new)) = Len(old) + 1
       /\ \A k \in 1..Len(old) : Append(old, new)[k] = old[k]
       /\ Append(old, new)[Len(old) + 1] = new
  <2>1. Cardinality(Parser!Entries \cup {n + 1}) = Cardinality(Parser!Entries) + 1
    BY <1>6, <1>10, EntriesAreFinite, FS_AddElement
  <2>2. Len(old) = Cardinality(Parser!Entries)
    BY <1>1 DEF ParserInv, WalkInv
  <2> QED BY <1>6, <1>10, <2>1, <2>2
<1>12. FromAbove(n + 1, new)'
  <2>1. /\ ui.lines'[n + 1] = line
        /\ Parser!DateAbove(n + 1)' = Parser!DateAbove(n + 1)
        /\ \A t : Parser!StandsAbove(t, n + 1) => Parser!StandsAbove(t, n + 1)'
    BY <1>9, LinesAreKept, DatesAreKept, TitlesAreKept
  <2>2. date = Parser!DateAbove(n + 1)
    BY <1>1, <1>9 DEF ParserInv, WalkInv
  <2>3. line.title = "" => title = "Transaction" \/ Parser!StandsAbove(title, n + 1)
    BY <1>5, <1>9 DEF Titled, ParserInv, WalkInv
  <2>4. line.title = "" => title = "Transaction" \/ Parser!StandsAbove(title, n + 1)'
    BY <2>1, <2>3
  <2> QED BY <1>7, <2>1, <2>2, <2>4 DEF FromAbove
<1>13. ASSUME NEW i \in Parser!Entries' PROVE FromAbove(i, Parser!DraftOf(i, ui.walk.drafts))'
  <2>1. CASE i = n + 1
    <3>1. Parser!DraftOf(i, ui.walk.drafts)' = new
      <4>1. {j \in Parser!Entries' : j <= i} = Parser!Entries'
        BY <1>10, <2>1, Zenon
      <4>2. Parser!DraftOf(i, ui.walk.drafts)'
               = ui'.walk.drafts[Cardinality({j \in Parser!Entries' : j <= i})]
        BY SameCardinality DEF Parser!DraftOf
      <4> QED BY <1>3, <1>11, <4>1, <4>2
    <3> QED BY <1>12, <2>1, <3>1 DEF FromAbove
  <2>2. CASE i \in Parser!Entries
    <3>1. PICK k \in 1..Len(old) : k = Cardinality({j \in Parser!Entries : j <= i})
      BY <1>6, <1>11, <2>2, Ranks
    <3>2. FromAbove(i, old[k])
      <4>1. Parser!DraftOf(i, ui.walk.drafts) = old[k]
        BY <1>1, <3>1, SameCardinality DEF Parser!DraftOf
      <4> QED BY <2>2, <4>1, Zenon DEF ParserInv, WalkInv
    <3>3. FromAbove(i, old[k])'
      BY <1>3, <2>2, <3>2, DraftsAreKept
    <3>4. {j \in Parser!Entries' : j <= i} = {j \in Parser!Entries : j <= i}
      BY <2>2, EntriesGrow
    <3>5. Parser!DraftOf(i, ui.walk.drafts)' = old[k]
      <4>1. Parser!DraftOf(i, ui.walk.drafts)'
               = ui'.walk.drafts[Cardinality({j \in Parser!Entries' : j <= i})]
        BY SameCardinality DEF Parser!DraftOf
      <4>2. Cardinality({j \in Parser!Entries' : j <= i}) = k
        BY <3>1, <3>4, Zenon
      <4> QED BY <1>3, <1>11, <3>1, <4>1, <4>2
    <3> QED BY <3>3, <3>5 DEF FromAbove
  <2> QED BY <1>10, <2>1, <2>2
<1>14. ASSUME NEW draft \in DraftType, Parser!Near(draft.date)
       PROVE  Parser!Near(draft.date)'
  <2>1. PICK near \in Int : near = draft.date
    BY DEF DraftType
  <2>2. Parser!Near(near)'
    BY <1>14, <2>1, StillNear
  <2> QED BY <2>1, <2>2 DEF Parser!Near
<1>15. Parser!Near(date)'
  BY <1>1, <1>6, StillNear DEF ParserInv, WalkInv
<1>16. ASSUME NEW k \in DOMAIN ui'.walk.drafts
       PROVE  Parser!Near(ui.walk.drafts[k].date)' /\ Guessed(ui.walk.drafts[k])'
  <2>1. CASE k = Len(old) + 1
    <3>1. ui'.walk.drafts[k] = new
      BY <1>3, <1>11, <2>1
    <3>2. Guessed(new)'
      BY <1>3, <1>7, DraftsAreKept
    <3> QED BY <1>7, <1>15, <3>1, <3>2 DEF Guessed, Parser!Near
  <2>2. CASE k \in 1..Len(old)
    <3>1. PICK draft \in DraftType : draft = old[k] /\ draft = ui'.walk.drafts[k]
      BY <1>3, <1>6, <1>11, <2>2, ElementOfSeq
    <3>2. k \in DOMAIN old
      BY <1>6, <2>2
    <3>3. Parser!Near(draft.date) /\ Guessed(draft)
      BY <1>1, <3>1, <3>2 DEF ParserInv, WalkInv
    <3>4. Parser!Near(draft.date)' /\ Guessed(draft)'
      BY <1>3, <1>14, <3>3, DraftsAreKept
    <3> QED BY <3>1, <3>4 DEF Guessed, Parser!Near
  <2>3. DOMAIN ui'.walk.drafts = 1..Len(old) + 1
    <3>1. Append(old, new) \in Seq(DraftType)
      BY <1>6, <1>7, AppendProperties
    <3>2. DOMAIN Append(old, new) = 1..Len(Append(old, new))
      BY <3>1
    <3> QED BY <1>3, <1>11, <3>2
  <2>4. k \in 1..Len(old) + 1
    BY <2>3
  <2> QED BY <1>11, <2>1, <2>2, <2>4
<1>17. ui.walk.currentDate' = Parser!DateAbove(Len(ui.lines) + 1)'
  <2>1. date = Parser!DateAbove(n + 2)'
    BY <1>1, <1>4, <1>9, DatesAreKept DEF ParserInv, WalkInv
  <2>2. (Len(ui.lines) + 1)' = n + 2
    BY <1>9
  <2> QED BY <1>3, <2>1, <2>2 DEF Parser!DateAbove
<1>18. Len(ui.walk.drafts)' = Cardinality(Parser!Entries)'
  BY <1>3, <1>11
<1>19. Parser!Near(ui.walk.currentDate)'
  BY <1>3, <1>15 DEF Parser!Near
<1>20. WalkInv'
  BY <1>3, <1>13, <1>16, <1>17, <1>18, <1>19 DEF WalkInv
<1> QED BY <1>2, <1>3, <1>8, <1>20 DEF ParserInv

LEMMA ParserStarts == Parser!Init => ParserInv
<1> SUFFICES ASSUME Parser!Init PROVE ParserInv
  OBVIOUS
<1>1. PICK names \in {Parser!CategoryNames, {"Transport", "Other"}, {}} :
        ui = [lines |-> <<>>, categories |-> names, walk |-> Parser!Start]
  BY DEF Parser!Init
<1>2. ui = WalkState(<<>>, names, <<>>, Today, "")
  BY <1>1 DEF WalkState, Parser!Start
<1>3. /\ ui.lines = <<>> /\ ui.categories = names /\ ui.walk.drafts = <<>>
      /\ ui.walk.currentDate = Today /\ ui.walk.pendingTitle = ""
  BY <1>2 DEF WalkState
<1>4. Parser!TypeOK
  <2>1. names \subseteq Parser!CategoryNames /\ "" \in Parser!Titles
    BY DEF Parser!CategoryNames, Parser!Titles
  <2>3. Today \in Int
    BY AYearIsBehind
  <2>2. <<>> \in Seq(Parser!Line) /\ <<>> \in Seq(DraftType)
    BY EmptySeq
  <2> QED BY <1>3, <2>1, <2>2, <2>3, ParserTypes
<1>5. DOMAIN ui.lines = {} /\ Len(ui.lines) = 0 /\ Len(ui.walk.drafts) = 0
  <2>1. \A s : s = <<>> => DOMAIN s = {} /\ Len(s) = 0
    OBVIOUS
  <2> QED BY <1>3, <2>1
<1>6. Parser!Entries = {} /\ Len(ui.lines) = 0 /\ Len(ui.walk.drafts) = 0
  BY <1>5 DEF Parser!Entries
<1>7. Parser!DateAbove(Len(ui.lines) + 1) = Today
  <2>1. {j \in DOMAIN ui.lines : j < Len(ui.lines) + 1 /\ Parser!IsDate(j)} = {}
    BY <1>5
  <2> QED BY <2>1 DEF Parser!DateAbove
<1>8. Parser!Near(Today)
  BY AYearIsBehind DEF Parser!Near, Parser!DaysPerYear
<1>9. DOMAIN ui.walk.drafts = {}
  <2>1. \A s : s = <<>> => DOMAIN s = {}
    OBVIOUS
  <2> QED BY <1>3, <2>1
<1>10. WalkInv
  BY <1>3, <1>6, <1>7, <1>8, <1>9, FS_EmptySet DEF WalkInv
<1> QED BY <1>2, <1>3, <1>4, <1>10 DEF ParserInv

LEMMA ParserKeeps == ParserInv /\ [Parser!Next]_ui => ParserInv'
<1> SUFFICES ASSUME ParserInv, [Parser!Next]_ui PROVE ParserInv'
  OBVIOUS
<1>1. ASSUME NEW line \in Parser!Lines, Parser!Read(line) PROVE ParserInv'
  <2>1. PICK n : n = Len(ui.lines)
    OBVIOUS
  <2>2. NextLine(n, line) /\ (Passed(line) \/ Dated(line) \/ Entered(line))
    BY <1>1, <2>1, WalkReads
  <2> QED BY <2>2, ParserPasses, ParserDates, ParserEnters
<1>2. CASE UNCHANGED ui
  <2>1. ui' = ui
    BY <1>2
  <2>2. Parser!TypeOK'
    BY <2>1 DEF ParserInv, Parser!TypeOK
  <2>3. /\ Parser!Entries' = Parser!Entries
        /\ \A i : Parser!IsEntry(i)' = Parser!IsEntry(i) /\ Parser!IsDate(i)' = Parser!IsDate(i)
    BY <2>1 DEF Parser!Entries, Parser!IsEntry, Parser!IsDate
  <2>4. \A i : Parser!DateAbove(i)' = Parser!DateAbove(i)
    BY <2>1, <2>3 DEF Parser!DateAbove
  <2>5. \A title, i : Parser!StandsAbove(title, i)' = Parser!StandsAbove(title, i)
    BY <2>1, <2>3 DEF Parser!StandsAbove
  <2>6. \A i, drafts : Parser!DraftOf(i, drafts)' = Parser!DraftOf(i, drafts)
    BY <2>1, <2>3 DEF Parser!DraftOf
  <2>7. WalkInv'
    BY <2>1, <2>3, <2>4, <2>5, <2>6
       DEF ParserInv, WalkInv, FromAbove, Guessed, Parser!Near, Parser!guessCategory
  <2> QED BY <2>1, <2>2, <2>7 DEF ParserInv
<1> QED BY <1>1, <1>2 DEF Parser!Next

\* What a receipt makes of its only draft.
Refined(draft) ==
    /\ Parser!Near(draft.date)
    /\ draft.category \in ui.categories \cup {""}
    /\ Parser!guessCategory({draft.description}) \notin {"Other", ""}
          => draft.category \notin {"Other", ""}

LEMMA DocumentDateIsNear ==
  ASSUME Parser!TypeOK, Parser!findDocumentDate(ui.lines) # Parser!Missing
  PROVE  Parser!Near(Parser!findDocumentDate(ui.lines))
<1>1. PICK lines : lines = ui.lines
  OBVIOUS
<1>2. lines \in Seq(Parser!Line)
  BY <1>1, ParserTypes
<1>3. PICK n \in Nat : n = Len(lines) /\ DOMAIN lines = 1..n
  BY <1>2
<1>4. lines = ui.lines /\ DOMAIN lines = 1..n /\ \A i \in 1..n : lines[i] \in Parser!Line
  BY <1>1, <1>2, <1>3, ElementOfSeq
<1> DEFINE dated == {i \in 1..n : lines[i].date.day >= 0}
<1>5. Parser!findDocumentDate(ui.lines) =
         IF dated = {} THEN Parser!Missing
         ELSE Parser!parseDateHeader(lines[Parser!Max(dated)].date)
  BY <1>4 DEF Parser!findDocumentDate
<1>6. dated # {}
  BY <1>5
<1>7. PICK m \in dated : \A k \in dated : k <= m
  <2>1. dated \subseteq 1..n
    OBVIOUS
  <2> QED BY <1>6, <2>1, SomeLast, Zenon
<1>8. Parser!Max(dated) = m
  <2>1. dated \subseteq Int
    BY <1>4
  <2> HIDE DEF dated
  <2> QED BY <1>7, <2>1, LastIs
<1>9. PICK line \in Parser!Line : line = lines[m] /\ line.date.day >= 0
  BY <1>4
<1>10. PICK date : date = Parser!parseDateHeader(line.date)
  OBVIOUS
<1> HIDE DEF dated
<1>11. Parser!findDocumentDate(ui.lines) = date
  BY <1>5, <1>6, <1>8, <1>9, <1>10
<1>12. /\ date <= Today + 2
       /\ line.date.year = Parser!Missing => date > Today - Parser!DaysPerYear
  BY <1>9, <1>10, DatesAreNear
<1>13. (\A i \in DOMAIN ui.lines : ui.lines[i].date.year = Parser!Missing)
          => line.date.year = Parser!Missing
  BY <1>4, <1>7, <1>9 DEF dated
<1>14. Parser!Near(date)
  BY <1>12, <1>13 DEF Parser!Near
<1> QED BY <1>11, <1>14, Zenon

LEMMA ReceiptRefines ==
  ASSUME Parser!TypeOK, NEW draft \in DraftType, Parser!Near(draft.date), Guessed(draft)
  PROVE  /\ Refined(draft)
         /\ Refined(Parser!Receipt(draft, ui.lines))
         /\ Parser!Receipt(draft, ui.lines).description = draft.description
<1>1. PICK document, type : /\ document = Parser!findDocumentDate(ui.lines)
                            /\ type = Parser!typeLine(ui.lines)
  OBVIOUS
<1>2. PICK guess, improved :
        /\ guess = Parser!guessCategory({draft.description})
        /\ improved = IF type = "" THEN ""
                      ELSE Parser!guessCategory({draft.description, type})
  OBVIOUS
<1>3. /\ guess \in ui.categories \cup {""} /\ improved \in ui.categories \cup {""}
      /\ guess \notin {"Other", ""} /\ improved # "" => improved \notin {"Other", ""}
  BY <1>2, Guesses
<1>4. draft.category = guess
  BY <1>2 DEF Guessed
<1>5. Refined(draft)
  BY <1>2, <1>3, <1>4 DEF Refined
<1>6. PICK receipt : receipt = Parser!Receipt(draft, ui.lines)
  OBVIOUS
<1>7. receipt = [draft EXCEPT
          !.date = IF draft.date = Today /\ document # Parser!Missing THEN document ELSE draft.date,
          !.category = IF improved # "" THEN improved ELSE draft.category]
  BY <1>1, <1>2, <1>6 DEF Parser!Receipt
<1>8. /\ receipt.description = draft.description
      /\ receipt.date = draft.date \/ (document # Parser!Missing /\ receipt.date = document)
      /\ receipt.category = IF improved # "" THEN improved ELSE draft.category
  BY <1>7 DEF DraftType
<1>9. Parser!Near(receipt.date)
  BY <1>1, <1>8, DocumentDateIsNear
<1>10. Refined(receipt)
  BY <1>2, <1>3, <1>4, <1>8, <1>9 DEF Refined
<1> QED BY <1>5, <1>6, <1>8, <1>10

LEMMA DraftsAreRight ==
  ASSUME ParserInv
  PROVE  /\ Parser!EntriesAreDrafts /\ Parser!DatesAreFromAbove
         /\ Parser!TitlesAreOfTheirEntry /\ Parser!DatesAreGuessedNear
         /\ Parser!TypesOnlyRefine
<1>1. PICK drafts : drafts = ui.walk.drafts
  OBVIOUS
<1>2. /\ Parser!TypeOK /\ drafts \in Seq(DraftType) /\ Len(drafts) \in Nat
      /\ DOMAIN drafts = 1..Len(drafts) /\ Len(drafts) = Cardinality(Parser!Entries)
      /\ \A k \in 1..Len(drafts) : /\ drafts[k] \in DraftType
                                   /\ Parser!Near(drafts[k].date) /\ Guessed(drafts[k])
  <2>1. Parser!TypeOK /\ drafts \in Seq(DraftType)
    BY <1>1, ParserTypes DEF ParserInv
  <2>2. Len(drafts) \in Nat /\ DOMAIN drafts = 1..Len(drafts)
    BY <2>1
  <2>3. \A k \in 1..Len(drafts) : drafts[k] \in DraftType
    BY <2>1, ElementOfSeq
  <2> QED BY <1>1, <2>1, <2>2, <2>3 DEF ParserInv, WalkInv
<1>3. Parser!Drafts = IF Len(drafts) = 1 THEN <<Parser!Receipt(drafts[1], ui.lines)>>
                      ELSE drafts
  BY <1>1 DEF Parser!Drafts, Parser!parseTransactionLines
<1>4. PICK shown : shown = Parser!Drafts
  OBVIOUS
<1>5. ASSUME NEW i \in Parser!Entries
      PROVE  \E k \in 1..Len(drafts) :
                /\ \A s : Parser!DraftOf(i, s) = s[k]
                /\ FromAbove(i, drafts[k])
  <2>1. PICK k \in 1..Len(drafts) : k = Cardinality({j \in Parser!Entries : j <= i})
    BY <1>2, Ranks
  <2>2. \A s : Parser!DraftOf(i, s) = s[k]
    BY <2>1, SameCardinality DEF Parser!DraftOf
  <2>3. FromAbove(i, Parser!DraftOf(i, drafts))
    BY <1>1 DEF ParserInv, WalkInv
  <2> QED BY <2>2, <2>3
\* Each draft that is shown is one of the walk's, refined.
<1>6. /\ Len(shown) = Len(drafts) /\ DOMAIN shown = 1..Len(drafts)
      /\ Len(drafts) # 1 => shown = drafts
      /\ \A k \in 1..Len(drafts) : /\ shown[k].description = drafts[k].description
                                   /\ Refined(shown[k])
  <2>1. CASE Len(drafts) = 1
    <3>1. PICK receipt : receipt = Parser!Receipt(drafts[1], ui.lines)
      OBVIOUS
    <3>2. shown = <<receipt>>
      BY <1>3, <1>4, <2>1, <3>1
    <3>3. Refined(receipt) /\ receipt.description = drafts[1].description
      BY <1>2, <2>1, <3>1, ReceiptRefines
    <3>4. Len(shown) = 1 /\ DOMAIN shown = 1..1 /\ shown[1] = receipt
      BY <3>2
    <3>5. \A k \in 1..1 : k = 1
      OBVIOUS
    <3> QED BY <2>1, <3>3, <3>4, <3>5
  <2>2. CASE Len(drafts) # 1
    <3>1. shown = drafts
      BY <1>3, <1>4, <2>2
    <3>2. \A k \in 1..Len(drafts) : Refined(drafts[k])
      BY <1>2, ReceiptRefines
    <3> QED BY <1>2, <2>2, <3>1, <3>2
  <2> QED BY <2>1, <2>2
<1>7. Parser!EntriesAreDrafts
  BY <1>2, <1>4, <1>6, SameCardinality DEF Parser!EntriesAreDrafts
<1>8. Parser!DatesAreFromAbove
  <2> SUFFICES ASSUME Cardinality(Parser!Entries) > 1, NEW i \in Parser!Entries
               PROVE  Parser!DraftOf(i, Parser!Drafts).date = Parser!DateAbove(i)
    BY SameCardinality DEF Parser!DatesAreFromAbove
  <2>1. Parser!Drafts = drafts
    BY <1>2, <1>4, <1>6
  <2> QED BY <1>5, <2>1 DEF FromAbove
<1>9. Parser!TitlesAreOfTheirEntry
  <2> SUFFICES ASSUME NEW i \in Parser!Entries, NEW title,
                      title = Parser!DraftOf(i, Parser!Drafts).description,
                      ui.lines[i].title = ""
               PROVE  title = "Transaction" \/ Parser!StandsAbove(title, i)
    BY DEF Parser!TitlesAreOfTheirEntry
  <2>1. PICK k \in 1..Len(drafts) : Parser!DraftOf(i, Parser!Drafts) = Parser!Drafts[k]
                                    /\ FromAbove(i, drafts[k])
    BY <1>5
  <2>2. title = drafts[k].description
    BY <1>4, <1>6, <2>1
  <2> QED BY <2>1, <2>2 DEF FromAbove
<1>10. Parser!DatesAreGuessedNear
  BY <1>4, <1>6 DEF Parser!DatesAreGuessedNear, Refined
<1>11. Parser!TypesOnlyRefine
  BY <1>4, <1>6 DEF Parser!TypesOnlyRefine, Refined
<1> QED BY <1>7, <1>8, <1>9, <1>10, <1>11
-----------------------------------------------------------------------------
(* The page                                                                 *)

\* The inductive invariant: that of the part on screen.
IInv ==
    /\ screen \in {"pin", "toast", "alert", "scan", "row", "category", "pinform",
                   "number", "report", "parser", "manage"}
    /\ screen = "pin" => PinInv
    /\ screen = "toast" => ToastInv
    /\ screen = "alert" => AlertInv
    /\ screen = "scan" => ScanInv
    /\ screen = "row" => RowInv
    /\ screen = "category" => CategoryInv
    /\ screen = "pinform" => PinFormInv
    /\ screen = "number" => NumberInv
    /\ screen = "report" => ReportInv
    /\ screen = "parser" => ParserInv
    /\ screen = "manage" => ManageInv

LEMMA Starts == Init => IInv
BY PinStarts, ToastStarts, AlertStarts, ScanStarts, RowStarts, CategoryStarts, PinFormStarts,
   NumberStarts, ReportStarts, ParserStarts, ManageStarts DEF Init, IInv

LEMMA Keeps == IInv /\ [Next]_vars => IInv'
<1> SUFFICES ASSUME IInv, [Next]_vars PROVE IInv'
  OBVIOUS
<1>1. UNCHANGED screen
  BY DEF Next, vars
<1>2. CASE screen = "pin"
  <2>1. PinInv /\ [Pin!Next]_ui
    BY <1>2 DEF IInv, Next, Step, vars
  <2> QED BY <1>1, <1>2, <2>1, PinKeeps DEF IInv
<1>3. CASE screen = "toast"
  <2>1. ToastInv /\ [Toast!Next]_ui
    BY <1>3 DEF IInv, Next, Step, vars
  <2> QED BY <1>1, <1>3, <2>1, ToastKeeps DEF IInv
<1>4. CASE screen = "alert"
  <2>1. AlertInv /\ [Alert!Next]_ui
    BY <1>4 DEF IInv, Next, Step, vars
  <2> QED BY <1>1, <1>4, <2>1, AlertKeeps DEF IInv
<1>5. CASE screen = "scan"
  <2>1. ScanInv /\ [Scan!Next]_ui
    BY <1>5 DEF IInv, Next, Step, vars
  <2> QED BY <1>1, <1>5, <2>1, ScanKeeps DEF IInv
<1>6. CASE screen = "row"
  <2>1. RowInv /\ [Row!Next]_ui
    BY <1>6 DEF IInv, Next, Step, vars
  <2> QED BY <1>1, <1>6, <2>1, RowKeeps DEF IInv
<1>7. CASE screen = "category"
  <2>1. CategoryInv /\ [Category!Next]_ui
    BY <1>7 DEF IInv, Next, Step, vars
  <2> QED BY <1>1, <1>7, <2>1, CategoryKeeps DEF IInv
<1>8. CASE screen = "pinform"
  <2>1. PinFormInv /\ [PinForm!Next]_ui
    BY <1>8 DEF IInv, Next, Step, vars
  <2> QED BY <1>1, <1>8, <2>1, PinFormKeeps DEF IInv
<1>9. CASE screen = "number"
  <2>1. NumberInv /\ [Number!Next]_ui
    BY <1>9 DEF IInv, Next, Step, vars
  <2> QED BY <1>1, <1>9, <2>1, NumberKeeps DEF IInv
<1>10. CASE screen = "report"
  <2>1. ReportInv /\ [Report!Next]_ui
    BY <1>10 DEF IInv, Next, Step, vars
  <2> QED BY <1>1, <1>10, <2>1, ReportKeeps DEF IInv
<1>11. CASE screen = "parser"
  <2>1. ParserInv /\ [Parser!Next]_ui
    BY <1>11 DEF IInv, Next, Step, vars
  <2> QED BY <1>1, <1>11, <2>1, ParserKeeps DEF IInv
<1>12. CASE screen = "manage"
  <2>1. ManageInv /\ [Manage!Next]_ui
    BY <1>12 DEF IInv, Next, Step, vars
  <2> QED BY <1>1, <1>12, <2>1, ManageKeeps DEF IInv
<1> QED BY <1>2, <1>3, <1>4, <1>5, <1>6, <1>7, <1>8, <1>9, <1>10, <1>11, <1>12 DEF IInv

LEMMA Invariant == Spec => []IInv
BY Starts, Keeps, PTL DEF Spec

\* Every part of the page keeps the type of its state.
THEOREM TypeCorrect == Spec => []TypeOK
<1>1. IInv => TypeOK
  BY DEF IInv, TypeOK, PinInv, ToastInv, AlertInv, ScanInv, RowInv, CategoryInv, PinFormInv,
         NumberInv, ReportInv, ParserInv, ManageInv
<1> QED BY <1>1, Invariant, PTL

\* What reaches the server was typed twice, ticked, typed in the row's own editor, or
\* shown by the form, in whatever order timers fire and answers come.
THEOREM WhatIsShownIsSent == Spec => []SentAsShown
<1>1. IInv => SentAsShown
  <2>1. PinInv => Pin!SetupIsConfirmed
    BY DEF PinInv, PinEntered, Pin!SetupIsConfirmed
  <2>2. ScanInv => Scan!OnlyAddedIsStored
    BY DEF ScanInv, ScanRows
  <2>3. RowInv => Row!OwnDraftIsSaved
    BY DEF RowInv
  <2> QED BY <2>1, <2>2, <2>3, CategoryRight DEF IInv, SentAsShown
<1> QED BY <1>1, Invariant, PTL

\* It is sent once: a scanned row over retries, a row's amount however often its input
\* blurs, a budget for a category that was chosen, a form of the Manage tab.
THEOREM NothingIsSentTwice == Spec => []SentOnce
<1>1. IInv => SentOnce
  <2>1. ScanInv => Scan!StoredOnce
    BY DEF ScanInv, ScanOnce, Scan!StoredOnce
  <2>2. RowInv => Row!SavedOneAtATime
    BY DEF RowInv, Row!SavedOneAtATime
  <2> QED BY <2>1, <2>2, CategoryRight, ManageRight DEF IInv, SentOnce
<1> QED BY <1>1, Invariant, PTL

\* An error is about the PIN in the pad, the PIN sections know whether a PIN is set, the
\* Manage tab told of what was done, and a figure at rest is its target.
THEOREM WhatIsShownIsSo == Spec => []ShownIsSo
<1>1. IInv => ShownIsSo
  <2>1. PinInv => Pin!ErrorIsForThisPIN
    BY DEF PinInv, PinOneThing, Pin!ErrorIsForThisPIN
  <2>2. NumberInv => Number!StopsAtTheTarget
    BY DEF NumberInv
  <2> QED BY <2>1, <2>2, PinFormRight, ManageRight DEF IInv, ShownIsSo
<1> QED BY <1>1, Invariant, PTL

\* A toast is there as long as its timer, a recognition worker as long as its scan.
THEOREM WhatIsStartedEnds == Spec => []NothingOutlivesItsUse
<1>1. IInv => NothingOutlivesItsUse
  BY DEF IInv, NothingOutlivesItsUse, ToastInv, ScanInv
<1> QED BY <1>1, Invariant, PTL

\* However the answers of polls, changes and the first load interleave, an alert is given
\* for a crossing or an entry that is new, and once, unless older data is applied after
\* newer.
THEOREM NewsOnly == Spec => []AlertsAreNews
<1>1. IInv => AlertsAreNews
  BY AlertRight DEF IInv, AlertsAreNews
<1> QED BY <1>1, Invariant, PTL

\* Whatever lines a screenshot has, and whenever it is read: every entry and nothing else
\* becomes a draft, dated and titled by what stands above it, and guesses are close.
THEOREM DraftsAreTheScreensAlways == Spec => []DraftsAreTheScreens
<1>1. IInv => DraftsAreTheScreens
  BY DraftsAreRight DEF IInv, DraftsAreTheScreens
<1> QED BY <1>1, Invariant, PTL

\* For any transactions, clock and browser up to half a day ahead of UTC or behind it: the
\* figures of a report agree, its period holds an entry dated today and starts where its
\* name says, and without filters the ledger shows every row.
THEOREM ReportsAreRightAlways == Spec => []ReportsAreRight
<1>1. IInv => ReportsAreRight
  BY ReportsAgree, ReportsToday, ReportsWhole, ReportsHideNothing DEF IInv, ReportsAreRight
<1> QED BY <1>1, Invariant, PTL

=============================================================================
