----------------------------- MODULE ScanImport -----------------------------
(***************************************************************************)
(* Scanning a screenshot: ScanImportModal.jsx and useScreenshotOCR.js, and *)
(* handleScanImportConfirm of App.jsx, which stores the rows one by one.   *)
(* "Scan another" and the X work at any time, so that rows may still be    *)
(* being saved while the next screenshot is read, reviewed and added.      *)
(* What the parser makes of the text is the module BankParser.             *)
(***************************************************************************)
EXTENDS Naturals, FiniteSets

CONSTANTS
    MaxRows,       \* bound: drafts made of all the screenshots
    MaxScans,      \* bound: screenshots chosen
    MaxFailures    \* bound: requests the network fails

VARIABLE ui

\* A draft: its number, whether it is ticked, and whether it has an amount and a
\* category.
Draft == [id : 1..MaxRows, include : BOOLEAN, valid : BOOLEAN]

\* A call of onConfirm: the rows to go, whether one was saved, whether it is by the
\* modal that is open, the row whose POST is under way.
Save == [todo : SUBSET Draft, saved : BOOLEAN, mine : BOOLEAN, sending : {{}} \cup {{d} : d \in Draft}]

Init ==
    ui = [open |-> TRUE, step |-> "pick", drafts |-> {}, ocr |-> "idle",
          scan |-> "none", workers |-> {}, saves |-> {}, stored |-> {},
          rows |-> 0, scans |-> 0, failures |-> 0,
          \* what an observer knows: rows ticked when Add was clicked, rows whose
          \* answer was lost, rows that were stored twice, and whether the review
          \* was left while its rows were being saved
          added |-> {}, unsure |-> {}, twice |-> {}, left |-> FALSE]

TypeOK ==
    /\ ui.open \in BOOLEAN /\ ui.step \in {"pick", "scanning", "review", "saving"}
    /\ ui.drafts \subseteq Draft /\ ui.ocr \in {"idle", "recognizing", "done", "error"}
    /\ ui.scan \in {"none", "loading", "reading"}
    /\ ui.workers \subseteq [n : 1..MaxScans, waited : BOOLEAN, loaded : BOOLEAN]
    /\ ui.saves \subseteq Save
    /\ \A d, e \in ui.drafts : d.id = e.id => d = e
    /\ ui.stored \cup ui.added \cup ui.unsure \cup ui.twice \subseteq 1..MaxRows

Included == {d \in ui.drafts : d.include}

-----------------------------------------------------------------------------
(* Reading the screenshot                                                   *)

\* handleFileChosen and recognize, up to the wait for the worker.
handleFileChosen ==
    /\ ui.open /\ ui.step = "pick" /\ ui.scans < MaxScans
    /\ ui' = [ui EXCEPT !.step = "scanning", !.ocr = "recognizing", !.scan = "loading",
                        !.scans = @ + 1,
                        !.workers = @ \cup {[n |-> ui.scans + 1, waited |-> TRUE,
                                             loaded |-> FALSE]}]

\* A worker has loaded; it may be that nobody waits for it any more.
WorkerLoaded(w) ==
    /\ ~w.loaded
    /\ ui' = [ui EXCEPT !.workers = (@ \ {w}) \cup {[w EXCEPT !.loaded = TRUE]},
                        !.scan = IF w.waited THEN "reading" ELSE @]

\* Mutant: nothing is terminated.
TerminatedNone == ui.workers

\* recognize's finally: the worker is terminated, if there is one by now.
Terminated ==
    {[w EXCEPT !.waited = FALSE] : w \in {x \in ui.workers : ~(x.waited /\ x.loaded)}}

\* recognize gives up, or has failed: handleFileChosen stays on its step.
Failed == [ui EXCEPT !.scan = "none", !.ocr = "error", !.workers = Terminated]

\* Loading the worker or reading the image fails, or takes too long.
Timeout == ui.scan # "none" /\ ui' = Failed

\* The text is there, and has been parsed.
Recognized(k) ==
    /\ ui.scan = "reading" /\ ui.rows + k <= MaxRows
    /\ \E valid \in [ui.rows + 1..ui.rows + k -> BOOLEAN] :
          ui' = [ui EXCEPT !.scan = "none", !.ocr = "done", !.workers = Terminated,
                           !.rows = @ + k, !.step = "review",
                           !.drafts = {[id |-> i, include |-> TRUE, valid |-> valid[i]] :
                                          i \in DOMAIN valid}]

-----------------------------------------------------------------------------
(* The review                                                               *)

InReview == ui.open /\ ui.step \in {"review", "saving"}

\* "Try another screenshot" and "Scan another".
PickAgain ==
    /\ InReview \/ (ui.open /\ ui.step = "scanning" /\ ui.ocr = "error")
    /\ ui' = [ui EXCEPT !.step = "pick", !.left = @ \/ ui.step = "saving"]

updateDraft(d, e) ==
    /\ InReview /\ d \in ui.drafts /\ e # d /\ e.id = d.id
    /\ ui' = [ui EXCEPT !.drafts = (@ \ {d}) \cup {e}]

removeDraft(d) ==
    /\ InReview /\ d \in ui.drafts
    /\ ui' = [ui EXCEPT !.drafts = @ \ {d}]

\* The modal is gone; calls of onConfirm still under way call the onClose of the
\* page, but no longer change a step.
Closed(saves) ==
    [ui EXCEPT !.open = FALSE, !.drafts = {}, !.saves = {[s EXCEPT !.mine = FALSE] : s \in saves}]

\* onClose: the modal goes, with what it knew; what is under way goes on.
Close ==
    /\ ui.open
    /\ ui' = Closed(ui.saves)

\* Opened again, by the button of the Manage tab: a new modal.  Bound: not while
\* a screenshot chosen in the one before is still being read.
Open ==
    /\ ~ui.open /\ ui.scan = "none"
    /\ ui' = [ui EXCEPT !.open = TRUE, !.step = "pick", !.ocr = "idle"]

-----------------------------------------------------------------------------
(* Saving                                                                   *)

\* Mutant: all the rows are saved.
handleConfirmAll ==
    /\ ui.open /\ ui.step = "review" /\ Included # {}
    /\ ui' = [ui EXCEPT !.step = "saving", !.added = @ \cup {d.id : d \in Included},
                        !.saves = @ \cup {[todo |-> ui.drafts, saved |-> FALSE,
                                           mine |-> TRUE, sending |-> {}]}]

\* Mutant: the button is never disabled.
handleConfirmAgain ==
    /\ ui.open /\ ui.step \in {"review", "saving"} /\ Included # {}
    /\ ui' = [ui EXCEPT !.step = "saving", !.added = @ \cup {d.id : d \in Included},
                        !.saves = @ \cup {[todo |-> Included, saved |-> FALSE,
                                           mine |-> TRUE, sending |-> {}]}]

\* handleConfirm, up to its await; the button is disabled while there is nothing to
\* add or the step is "saving".
handleConfirm ==
    /\ ui.open /\ ui.step = "review" /\ Included # {}
    /\ ui' = [ui EXCEPT !.step = "saving", !.added = @ \cup {d.id : d \in Included},
                        !.saves = @ \cup {[todo |-> Included, saved |-> FALSE,
                                           mine |-> TRUE, sending |-> {}]}]

Become(s, t) == (ui.saves \ {s}) \cup {t}

\* The loop of handleScanImportConfirm: the next row; one that is not complete
\* counts as failed.
NextRow(s, d) ==
    /\ s.sending = {} /\ d \in s.todo /\ \A e \in s.todo : d.id <= e.id
    /\ ui' = [ui EXCEPT !.saves = Become(s, [s EXCEPT !.todo = @ \ {d},
                                             !.sending = IF d.valid THEN {d} ELSE {}])]

RowStored(s, d) ==
    /\ d \in s.sending
    /\ ui' = [ui EXCEPT !.saves = Become(s, [s EXCEPT !.sending = {}, !.saved = TRUE]),
                        !.twice = IF d.id \in ui.stored THEN @ \cup {d.id} ELSE @,
                        !.stored = @ \cup {d.id}]

\* The request or its answer is lost: the loop goes on.
RowLost(s, d) ==
    /\ d \in s.sending /\ ui.failures < MaxFailures
    /\ \E after \in {ui.stored, ui.stored \cup {d.id}} :
          ui' = [ui EXCEPT !.saves = Become(s, [s EXCEPT !.sending = {}]),
                           !.twice = IF d.id \in ui.stored \cap after THEN @ \cup {d.id} ELSE @,
                           !.stored = after, !.unsure = @ \cup {d.id},
                           !.failures = @ + 1]

\* The end of the loop.  With one row saved the modal closes, whichever it is by
\* now, and what failed is named in a toast; with none, it is back to the review.
Saved(s) ==
    /\ s.todo = {} /\ s.sending = {}
    /\ ui' = IF s.saved THEN Closed(ui.saves \ {s})
             ELSE [ui EXCEPT !.saves = @ \ {s}, !.step = IF s.mine THEN "review" ELSE @]

Next ==
    \/ handleFileChosen \/ Timeout
    \/ \E w \in ui.workers : WorkerLoaded(w)
    \/ \E k \in 0..MaxRows : Recognized(k)
    \/ PickAgain \/ Close \/ Open \/ handleConfirm
    \/ \E d \in ui.drafts : removeDraft(d) \/ \E e \in Draft : updateDraft(d, e)
    \/ \E s \in ui.saves :
          \/ \E d \in s.todo : NextRow(s, d)
          \/ \E d \in s.sending : RowStored(s, d) \/ RowLost(s, d)
          \/ Saved(s)

\* The timeouts of recognize, and the answers to a row's POST.
Timers == Timeout
Answers == \E s \in ui.saves :
              \/ \E d \in s.todo : NextRow(s, d)
              \/ \E d \in s.sending : RowStored(s, d)
              \/ Saved(s)

-----------------------------------------------------------------------------
(* What makes it correct                                                    *)

\* Nothing is written to the ledger but what was ticked when Add was clicked, however
\* the draft is changed later and whichever screenshot is on screen by then.
OnlyAddedIsStored == ui.stored \subseteq ui.added

\* A row is stored once, over retries, unless its answer was lost or "Scan another"
\* was clicked while rows were being saved: the end of that save then enables Add
\* for rows that are on their way already.
StoredOnce == ~ui.left => ui.twice \subseteq ui.unsure

\* What the modal is busy with.
Reading == ui.open /\ ui.step = "scanning" /\ ui.ocr = "recognizing"
Saving == ui.open /\ ui.step = "saving"

\* A worker that has loaded while it was waited for is not left running once its
\* scan is over.
WorkersEnd == \A w \in ui.workers : w.waited => ui.scan # "none"
=============================================================================
