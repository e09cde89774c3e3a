------------------------------ MODULE Recurring ------------------------------
(***************************************************************************)
(* The generator of recurring transactions (src/backend/recurring.go) over *)
(* one rule, with the handlers that create, edit and delete the rule.      *)
(*                                                                         *)
(* GenerateDueTransactions runs in the start-up code, then in an hourly    *)
(* ticker, and in every POST of a rule, with no lock of its own: sweeps    *)
(* may overlap.  ListAll returns pointers to the stored structs, so a      *)
(* sweep reads, and later writes, a struct that a PUT may have replaced.   *)
(* Transactions and rules are two files, written one after the other; each *)
(* store operation is one step here, with its write succeeding or failing  *)
(* (FileStore models the inside of one).                                   *)
(*                                                                         *)
(* A date is a day number, and Blank stands for "".                        *)
(***************************************************************************)
EXTENDS Naturals, FiniteSets

CONSTANTS
    Sweepers,            \* goroutines that sweep: the ticker, and POST handlers
    Ticker,              \* the one that also runs the sweep at start-up
    Objects,             \* heap cells of RecurringRule structs
    Nil,
    FirstDues,           \* next_due of a new rule: its own, or its start_date
    Period,              \* days from one occurrence to the next
    maxCatchUpPerRule,
    MaxToday, MaxEdits, MaxFaults, MaxCrashes   \* bounds

Blank == MaxToday + Period + 1
Days == 1 .. MaxToday

ASSUME RecurringAssumption ==
    /\ Ticker \in Sweepers
    /\ Nil \notin Objects /\ Nil \notin [active : BOOLEAN, nextDue : 1 .. Blank]
    /\ IsFiniteSet(Sweepers)
    /\ IsFiniteSet(Objects) /\ Cardinality(Objects) > Cardinality(Sweepers) + 1
    /\ FirstDues \subseteq Days
    /\ Period \in Nat \ {0} /\ maxCatchUpPerRule \in Nat \ {0}
    /\ MaxToday \in Nat \ {0} /\ MaxEdits \in Nat /\ MaxFaults \in Nat /\ MaxCrashes \in Nat

VARIABLES
    status,       \* "down", "starting" (the sweep before serving) or "up"
    today,
    stored,       \* the struct in the store's map, or Nil
    heap,         \* the structs
    ruleFile,     \* the rule in recurring.json, or Nil
    txs,          \* how many transactions there are of each date, in memory
    txFile,       \* and in transactions.json
    sweep,        \* the sweep of each sweep, and where it stands
    edits, faults, crashes,
    \* what an observer knows
    first,        \* the first next_due of the rule
    deleted,      \* a DELETE was reported as done
    paused,       \* the last PUT made the rule inactive while no sweep was under way
    overlapped,   \* two sweeps have been under way at the same time
    degraded      \* a write has failed, or a crash cut a sweep short

rules == <<stored, heap, ruleFile>>
ledger == <<txs, txFile>>
bounds == <<edits, faults, crashes>>
ghosts == <<first, deleted, paused, overlapped, degraded>>
vars == <<status, today, rules, ledger, sweep, bounds, ghosts>>

Rule == [active : BOOLEAN, nextDue : 1 .. Blank]
Counts == [Days -> Nat]
Locals == [pc : {"idle", "list", "read", "create", "write", "update"},
           rule : Objects \cup {Nil}, today : 0 .. MaxToday, due : 0 .. Blank,
           created : 0 .. maxCatchUpPerRule]
Idle == [pc |-> "idle", rule |-> Nil, today |-> 0, due |-> 0, created |-> 0]

TypeOK ==
    /\ status \in {"down", "starting", "up"} /\ today \in Days
    /\ stored \in Objects \cup {Nil} /\ heap \in [Objects -> Rule \cup {Nil}]
    /\ ruleFile \in Rule \cup {Nil}
    /\ txs \in Counts /\ txFile \in Counts
    /\ sweep \in [Sweepers -> Locals]
    /\ edits \in Nat /\ faults \in Nat /\ crashes \in Nat
    /\ first \in 1 .. Blank
    /\ deleted \in BOOLEAN /\ paused \in BOOLEAN
    /\ overlapped \in BOOLEAN /\ degraded \in BOOLEAN

Init ==
    /\ status = "up" /\ today = 1
    /\ stored = Nil /\ heap = [o \in Objects |-> Nil] /\ ruleFile = Nil
    /\ txs = [d \in Days |-> 0] /\ txFile = txs
    /\ sweep = [s \in Sweepers |-> Idle]
    /\ edits = 0 /\ faults = 0 /\ crashes = 0
    /\ first = Blank /\ deleted = FALSE /\ paused = FALSE
    /\ overlapped = FALSE /\ degraded = FALSE

-----------------------------------------------------------------------------
advanceDate(d) == d + Period

At(s, label) == sweep[s].pc = label
Sweeping(s) == ~At(s, "idle") /\ ~At(s, "list")

\* The cell of a new struct: one that nothing points to, whichever.
NewCell == CHOOSE o \in Objects : o # stored /\ \A s \in Sweepers : sweep[s].rule # o

\* The rule's store writes recurring.json, or fails to and reports an error.
RuleSaved(rule) == ruleFile' = rule /\ UNCHANGED <<faults, degraded>>
RuleNotSaved ==
    /\ faults < MaxFaults
    /\ faults' = faults + 1 /\ degraded' = TRUE
    /\ UNCHANGED ruleFile

-----------------------------------------------------------------------------
(* The handlers                                                            *)

\* POST by handler s: the rule is stored, and the handler goes on to a sweep,
\* or answers 500.
CreateRule(s, d) ==
    /\ status = "up" /\ s # Ticker /\ At(s, "idle") /\ first = Blank
    /\ stored' = NewCell
    /\ heap' = [heap EXCEPT ![NewCell] = [active |-> TRUE, nextDue |-> d]]
    /\ \/ RuleSaved(heap'[NewCell]) /\ sweep' = [sweep EXCEPT ![s].pc = "list"]
       \/ RuleNotSaved /\ UNCHANGED sweep
    /\ first' = d
    /\ UNCHANGED <<status, today, ledger, edits, crashes, deleted, paused, overlapped>>

\* PUT replaces the whole rule by the body; an absent next_due is "".
EditRule(active) ==
    /\ status = "up" /\ stored # Nil /\ edits < MaxEdits
    /\ edits' = edits + 1
    /\ stored' = NewCell
    /\ \E next \in {heap[stored].nextDue, Blank} :
        heap' = [heap EXCEPT ![NewCell] = [active |-> active, nextDue |-> next]]
    /\ \/ /\ RuleSaved(heap'[NewCell])
          /\ paused' = (~active /\ \A s \in Sweepers : ~Sweeping(s))
       \/ RuleNotSaved /\ paused' = FALSE
    /\ UNCHANGED <<status, today, ledger, sweep, crashes, first, deleted, overlapped>>

DeleteRule ==
    /\ status = "up" /\ stored # Nil
    /\ stored' = Nil
    /\ \/ RuleSaved(Nil) /\ deleted' = TRUE
       \/ RuleNotSaved /\ UNCHANGED deleted
    /\ UNCHANGED <<status, today, heap, ledger, sweep, edits, crashes, first,
                   paused, overlapped>>

-----------------------------------------------------------------------------
(* GenerateDueTransactions, step by step                                   *)

\* today is read and ListAll returns the stored struct.
SweepList(s) ==
    /\ At(s, "idle") \/ At(s, "list")
    /\ stored # Nil
    /\ status = "up" \/ (status = "starting" /\ s = Ticker)
    /\ sweep' = [sweep EXCEPT ![s] = [Idle EXCEPT !.pc = "read", !.rule = stored,
                                                 !.today = today]]
    /\ overlapped' = (overlapped \/ \E q \in Sweepers \ {s} : Sweeping(q))
    /\ UNCHANGED <<status, today, rules, ledger, bounds, first, deleted, paused,
                   degraded>>

\* The end of the sweep; at start-up the server begins to serve.
SweepEnds(s) ==
    /\ sweep' = [sweep EXCEPT ![s] = Idle]
    /\ status' = IF s = Ticker THEN "up" ELSE status

\* There is no rule to list.
SweepNothing(s) ==
    /\ At(s, "list") \/ (status = "starting" /\ s = Ticker /\ At(s, "idle"))
    /\ stored = Nil
    /\ SweepEnds(s)
    /\ UNCHANGED <<today, rules, ledger, bounds, ghosts>>

\* Mutant: whether the rule is active is not looked at.
SweepReadAny(s) ==
    /\ At(s, "read")
    /\ LET rule == heap[sweep[s].rule] IN
       \/ rule.nextDue = Blank /\ SweepEnds(s)
       \/ /\ rule.nextDue # Blank
          /\ sweep' = [sweep EXCEPT ![s].pc = "create", ![s].due = rule.nextDue]
          /\ UNCHANGED status
    /\ UNCHANGED <<today, rules, ledger, bounds, ghosts>>

\* An inactive rule, or one with no next_due, is skipped.
SweepRead(s) ==
    /\ At(s, "read")
    /\ LET rule == heap[sweep[s].rule] IN
       \/ /\ ~rule.active \/ rule.nextDue = Blank
          /\ SweepEnds(s)
       \/ /\ rule.active /\ rule.nextDue # Blank
          /\ sweep' = [sweep EXCEPT ![s].pc = "create", ![s].due = rule.nextDue]
          /\ UNCHANGED status
    /\ UNCHANGED <<today, rules, ledger, bounds, ghosts>>

\* Mutant: only what was due before today.
MoreBeforeToday(s) ==
    /\ At(s, "create")
    /\ sweep[s].due < sweep[s].today /\ sweep[s].created < maxCatchUpPerRule

\* The loop's condition, with the date read when the sweep began.
More(s) ==
    /\ At(s, "create")
    /\ sweep[s].due <= sweep[s].today /\ sweep[s].created < maxCatchUpPerRule

\* Mutant: an occurrence whose write failed counts as created.
SweepCreateRegardless(s) ==
    /\ More(s)
    /\ txs' = [txs EXCEPT ![sweep[s].due] = @ + 1]
    /\ sweep' = [sweep EXCEPT ![s].due = advanceDate(@), ![s].created = @ + 1]
    /\ \/ txFile' = txs' /\ UNCHANGED <<faults, degraded>>
       \/ /\ faults < MaxFaults
          /\ faults' = faults + 1 /\ degraded' = TRUE
          /\ UNCHANGED txFile
    /\ UNCHANGED <<status, today, rules, edits, crashes, first, deleted, paused,
                   overlapped>>

\* One occurrence is stored; if its write fails it stays in memory all the
\* same, and the loop is left.
SweepCreate(s) ==
    /\ More(s)
    /\ txs' = [txs EXCEPT ![sweep[s].due] = @ + 1]
    /\ \/ /\ txFile' = txs'
          /\ sweep' = [sweep EXCEPT ![s].due = advanceDate(@), ![s].created = @ + 1]
          /\ UNCHANGED <<faults, degraded>>
       \/ /\ faults < MaxFaults
          /\ faults' = faults + 1 /\ degraded' = TRUE
          /\ sweep' = [sweep EXCEPT ![s].pc = "write"]
          /\ UNCHANGED txFile
    /\ UNCHANGED <<status, today, rules, edits, crashes, first, deleted, paused,
                   overlapped>>

\* Mutant: the rule is saved with the next_due it had.
SweepWriteNothing(s) ==
    /\ At(s, "write") \/ (At(s, "create") /\ ~More(s))
    /\ \/ /\ sweep[s].created > 0
          /\ sweep' = [sweep EXCEPT ![s].pc = "update"]
          /\ UNCHANGED status
       \/ sweep[s].created = 0 /\ SweepEnds(s)
    /\ UNCHANGED <<today, rules, ledger, bounds, ghosts>>

\* rule.NextDue = due, on the struct ListAll returned, if anything was created.
SweepWrite(s) ==
    /\ At(s, "write") \/ (At(s, "create") /\ ~More(s))
    /\ \/ /\ sweep[s].created > 0
          /\ heap' = [heap EXCEPT ![sweep[s].rule].nextDue = sweep[s].due]
          /\ sweep' = [sweep EXCEPT ![s].pc = "update"]
          /\ UNCHANGED status
       \/ /\ sweep[s].created = 0
          /\ SweepEnds(s)
          /\ UNCHANGED heap
    /\ UNCHANGED <<today, stored, ruleFile, ledger, bounds, ghosts>>

\* Mutant: the rule is stored whether or not it is still there.
SweepUpsert(s) ==
    /\ At(s, "update")
    /\ stored' = sweep[s].rule
    /\ RuleSaved(heap[sweep[s].rule])
    /\ SweepEnds(s)
    /\ UNCHANGED <<today, heap, ledger, edits, crashes, first, deleted, paused,
                   overlapped>>

\* recStore.Update: not found if the rule was deleted meanwhile.
SweepUpdate(s) ==
    /\ At(s, "update")
    /\ \/ stored = Nil /\ UNCHANGED <<stored, ruleFile, faults, degraded>>
       \/ /\ stored # Nil
          /\ stored' = sweep[s].rule
          /\ RuleSaved(heap[sweep[s].rule]) \/ RuleNotSaved
    /\ SweepEnds(s)
    /\ UNCHANGED <<today, heap, ledger, edits, crashes, first, deleted, paused,
                   overlapped>>

-----------------------------------------------------------------------------
(* The process and the clock                                               *)

Crash ==
    /\ status # "down" /\ crashes < MaxCrashes
    /\ status' = "down" /\ crashes' = crashes + 1
    /\ stored' = Nil /\ heap' = [o \in Objects |-> Nil]
    /\ txs' = txFile
    /\ sweep' = [s \in Sweepers |-> Idle]
    /\ degraded' = (degraded \/ \E s \in Sweepers : Sweeping(s))
    /\ UNCHANGED <<today, ruleFile, txFile, edits, faults, first, deleted,
                   paused, overlapped>>

\* Both files are loaded, and the start-up sweep comes before anything is served.
Restart ==
    /\ status = "down"
    /\ status' = "starting"
    /\ IF ruleFile = Nil THEN UNCHANGED <<stored, heap>>
       ELSE /\ stored' = NewCell
            /\ heap' = [heap EXCEPT ![NewCell] = ruleFile]
    /\ UNCHANGED <<today, ruleFile, ledger, sweep, bounds, ghosts>>

Midnight ==
    /\ today < MaxToday
    /\ today' = today + 1
    /\ UNCHANGED <<status, rules, ledger, sweep, bounds, ghosts>>

Sweep(s) ==
    \/ SweepList(s) \/ SweepNothing(s) \/ SweepRead(s) \/ SweepCreate(s)
    \/ SweepWrite(s) \/ SweepUpdate(s)

Next ==
    \/ \E s \in Sweepers : Sweep(s) \/ \E d \in FirstDues : CreateRule(s, d)
    \/ \E active \in BOOLEAN : EditRule(active)
    \/ DeleteRule
    \/ Crash \/ Restart \/ Midnight

Spec == Init /\ [][Next]_vars

\* The ticker keeps sweeping, a sweep once begun goes on, days pass, and a
\* stopped server is started again ("catches up next time it opens").
FairSpec ==
    /\ Spec
    /\ WF_vars(Sweep(Ticker))
    /\ \A s \in Sweepers : WF_vars(~At(s, "idle") /\ Sweep(s))
    /\ WF_vars(Midnight) /\ WF_vars(Restart)

-----------------------------------------------------------------------------
(* What makes it correct                                                   *)

Scheduled(next) ==
    {d \in Days : d < next /\ \E k \in 0 .. MaxToday : d = first + k * Period}

\* No occurrence is skipped: every scheduled date before the rule's next_due has
\* its transaction, in memory and, for what a restart would load, on disk,
\* however sweeps overlap, writes fail and the server crashes.
NoOccurrenceSkipped ==
    /\ stored # Nil /\ heap[stored].nextDue # Blank =>
          \A d \in Scheduled(heap[stored].nextDue) : txs[d] >= 1
    /\ ruleFile # Nil /\ ruleFile.nextDue # Blank =>
          \A d \in Scheduled(ruleFile.nextDue) : txFile[d] >= 1

\* Each occurrence is generated at most once, as long as sweeps have not
\* overlapped, no write has failed and no crash has cut a sweep short.
GeneratedOnce ==
    ~overlapped /\ ~degraded => \A d \in Days : txs[d] <= 1

\* A deletion that was reported as done is not undone by the Update of a sweep
\* that was already under way, nor by a restart.
DeletedStaysDeleted == deleted => stored = Nil /\ ruleFile = Nil

\* After a rule was made inactive between sweeps, nothing more is generated
\* from it (until it is edited again).
PausedGeneratesNothing ==
    [][paused => \A d \in Days : txs'[d] <= txs[d]]_vars

\* The rule is up to date, or needs not be.
Current ==
    /\ status = "up"
    /\ stored # Nil /\ heap[stored].active /\ heap[stored].nextDue # Blank =>
          heap[stored].nextDue > today

\* However long the backlog and however it was interrupted, the sweeps catch up
\* with the calendar, in spite of the cap on each.
CatchesUp == <>[]Current
=============================================================================
