----------------------------- MODULE MCScreens -----------------------------
(* Small instances of the parts of the page, for TLC.                        *)
EXTENDS Screens

\* Contributions are taken back as well.
Contributions == {-1, 0, 1}

\* The eighth day begins at noon, in half days of UTC.
HalfDays == 15..20

\* What waits for a timer or an answer, at most two things at a time: a pad that is full;
\* toasts; the scan, and the saving of its rows; a row being saved; the buttons of forms.
Waits ==
    CASE screen = "pin"     -> <<Pin!Stuck, FALSE>>
      [] screen = "toast"   -> <<Toast!Passing(1), Toast!Passing(2)>>
      [] screen = "scan"    -> <<Scan!Reading, Scan!Saving>>
      [] screen = "row"     -> <<Row!Saving, FALSE>>
      [] screen = "pinform" -> <<ui.saving, ui.removing>>
      [] screen = "manage"  -> <<ui.saving, FALSE>>
      [] OTHER              -> <<FALSE, FALSE>>

\* No pad stays full, no toast stays, no form, row or modal stays disabled or spins on,
\* whatever was refused, lost, dismissed, or mounted again meanwhile.
WaitsEnd == \A i \in 1..2 : Waits[i] ~> ~Waits[i]
=============================================================================
