------------------------------- MODULE PinPad -------------------------------
(***************************************************************************)
(* The PIN pad, src/frontend/src/components/LockScreen.jsx, which logs in  *)
(* or sets a PIN up.  A pad that is full submits, or goes on to the next   *)
(* stage, from a timer; keys work until the parent says `loading`, so that *)
(* a digit taken back and typed again within those 150 ms starts a second  *)
(* timer.                                                                  *)
(***************************************************************************)
EXTENDS Naturals, Sequences, FiniteSets

CONSTANTS
    Digits,
    PIN_LENGTH,
    MaxKeys        \* bound: keys pressed

VARIABLE ui        \* the component's state, its timers and its submissions

\* Timers, and what they do when they fire.
Timer == [does : {"confirm", "restart", "submit", "clear"}, pin : Seq(Digits), n : Nat]

Init ==
    \E mode \in {"login", "setup"} :
        ui = [mode |-> mode, stage |-> "enter", pin |-> <<>>, firstPin |-> <<>>,
              mismatch |-> FALSE, showError |-> FALSE, errorTimer |-> 0,
              timers |-> {}, submitted |-> <<>>, loading |-> FALSE, open |-> TRUE,
              \* what an observer knows
              keys |-> 0, entered |-> {}, edited |-> FALSE]

TypeOK ==
    /\ ui.mode \in {"login", "setup"} /\ ui.stage \in {"enter", "confirm"}
    /\ ui.pin \in Seq(Digits) /\ Len(ui.pin) <= PIN_LENGTH
    /\ ui.firstPin \in Seq(Digits)
    /\ ui.mismatch \in BOOLEAN /\ ui.showError \in BOOLEAN /\ ui.loading \in BOOLEAN
    /\ ui.timers \subseteq Timer /\ ui.errorTimer \in Nat
    /\ ui.submitted \in Seq(Seq(Digits))
    /\ ui.keys \in 0..MaxKeys

Full == Len(ui.pin) = PIN_LENGTH
Started(does, pin) == ui.timers \cup {[does |-> does, pin |-> pin, n |-> ui.keys]}

\* A key may be pressed: the pad is shown and its keys are not disabled.
Key == ui.open /\ ~ui.loading /\ ui.keys < MaxKeys

\* handleDigit while an error is shown: a fresh entry begins.
DigitAfterError(d) ==
    /\ Key /\ ui.showError
    /\ ui' = [ui EXCEPT !.keys = @ + 1, !.pin = <<d>>, !.showError = FALSE,
                        !.timers = {t \in @ : ~(t.does = "clear" /\ t.n = ui.errorTimer)}]

Typed(next, timers, wrong) ==
    ui' = [ui EXCEPT !.keys = @ + 1, !.pin = next, !.mismatch = wrong, !.timers = timers,
                     !.entered = IF Len(next) = PIN_LENGTH /\ ui.stage = "enter"
                                 THEN @ \cup {next} ELSE @]

\* Mutant: the second entry is not compared.
DigitUnconfirmed(d) ==
    LET next == Append(ui.pin, d) IN
    /\ Key /\ ~ui.showError /\ ~Full
    /\ IF Len(next) < PIN_LENGTH THEN Typed(next, ui.timers, FALSE)
       ELSE IF ui.mode = "setup" /\ ui.stage = "enter"
       THEN Typed(next, Started("confirm", next), FALSE)
       ELSE Typed(next, Started("submit", next), FALSE)

\* handleDigit: the last one starts the timer of what comes next.
Digit(d) ==
    LET next == Append(ui.pin, d) IN
    /\ Key /\ ~ui.showError /\ ~Full
    /\ IF Len(next) < PIN_LENGTH THEN Typed(next, ui.timers, FALSE)
       ELSE IF ui.mode = "setup" /\ ui.stage = "enter"
       THEN Typed(next, Started("confirm", next), FALSE)
       ELSE IF ui.mode = "setup" /\ next # ui.firstPin
       THEN Typed(next, Started("restart", next), TRUE)
       ELSE Typed(next, Started("submit", next), FALSE)

\* A full pad is about to be used.
Pending == \E t \in ui.timers : t.does # "clear"

\* Mutant: an error being shown does not matter.
BackspaceAlways ==
    /\ Key /\ ui.pin # <<>>
    /\ ui' = [ui EXCEPT !.keys = @ + 1, !.pin = SubSeq(@, 1, Len(@) - 1),
                        !.edited = (@ \/ Pending)]

\* handleBackspace.
Backspace ==
    /\ Key /\ ui.pin # <<>> /\ ~ui.showError
    /\ ui' = [ui EXCEPT !.keys = @ + 1, !.pin = SubSeq(@, 1, Len(@) - 1),
                        !.edited = (@ \/ Pending)]

\* A timer fires.  Timers that started earlier and run as long fire earlier.
Fire(t) ==
    LET rest == ui.timers \ {t} IN
    /\ ui.open /\ t \in ui.timers
    /\ \A s \in ui.timers : s.does = t.does => t.n <= s.n
    /\ ui' = CASE t.does = "confirm" ->
                      [ui EXCEPT !.timers = rest, !.firstPin = t.pin, !.pin = <<>>,
                                 !.stage = "confirm"]
               [] t.does = "restart" ->
                      [ui EXCEPT !.timers = rest, !.firstPin = <<>>, !.pin = <<>>,
                                 !.stage = "enter"]
               [] t.does = "submit" ->
                      [ui EXCEPT !.timers = rest, !.loading = TRUE,
                                 !.submitted = Append(@, t.pin)]
               [] t.does = "clear" ->
                      [ui EXCEPT !.timers = rest, !.pin = <<>>, !.showError = FALSE,
                                 !.errorTimer = 0]

Answered == [ui EXCEPT !.submitted = Tail(@), !.loading = FALSE]

\* The parent's answer: the screen is left.
Accepted ==
    /\ ui.open /\ ui.submitted # <<>>
    /\ ui' = [Answered EXCEPT !.open = FALSE]

\* Mutant: the error is shown until the next digit.
RefusedForGood ==
    /\ ui.open /\ ui.submitted # <<>>
    /\ ui' = [Answered EXCEPT !.showError = TRUE]

\* The rest of submit: the error is shown, and clears itself.
Refused ==
    /\ ui.open /\ ui.submitted # <<>>
    /\ ui' = [Answered EXCEPT !.showError = TRUE, !.errorTimer = ui.keys,
                              !.timers = Started("clear", ui.submitted[1])]

Next ==
    \/ \E d \in Digits : DigitAfterError(d) \/ Digit(d)
    \/ Backspace
    \/ \E t \in ui.timers : Fire(t)
    \/ Accepted \/ Refused

\* What the browser and the server do by themselves.
Timers == \E t \in ui.timers : Fire(t)
Answers == Accepted \/ Refused

-----------------------------------------------------------------------------
(* What makes it correct                                                    *)

\* A PIN that is set up has been typed in both stages, however the stages' timers
\* and the keys interleave.
SetupIsConfirmed ==
    ui.mode = "setup" => \A i \in 1..Len(ui.submitted) : ui.submitted[i] \in ui.entered

\* An error is only shown over the PIN that was refused, never over digits typed for
\* the next attempt, as long as no digit is taken back once the pad is full.
ErrorIsForThisPIN == ui.showError /\ ~ui.edited => Full

\* Full, and nothing can be typed; it must not stay so.
Stuck == ui.open /\ Full
=============================================================================
