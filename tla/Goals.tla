-------------------------------- MODULE Goals --------------------------------
(***************************************************************************)
(* Concurrent requests on one savings goal (src/backend/handlers_goals.go  *)
(* over the file store of generic_store.go).                               *)
(*                                                                         *)
(* The store's mutex covers a single Get, Update or Delete, not a request: *)
(* a contribution reads the goal, adds to it and stores it back, and what  *)
(* Get returns is a pointer to the stored struct itself.  So the model has *)
(* a heap: `stored` points to the struct in the map, a PUT stores a struct *)
(* of its own, a contribution writes to the struct it got, before and      *)
(* outside the store's lock.  `pc` is where each request stands.           *)
(*                                                                         *)
(* Amounts are integers; a Goal is what the handlers compute with, the     *)
(* saved amount, and the edition of its other fields.                      *)
(***************************************************************************)
EXTENDS Integers, FiniteSets

CONSTANTS
    Requests,       \* the requests; each runs once
    Objects,        \* heap cells a Goal struct can live in
    Nil,
    Contributions,  \* amounts a client may contribute (negative: a correction)
    PutAmounts,     \* saved_amount in the body of a PUT (0 also when absent)
    MaxFaults       \* bound: writes of goals.json that fail

ASSUME GoalsAssumption ==
    /\ Nil \notin Objects /\ Nil \notin [saved : Int, edition : Requests \cup {Nil}]
    /\ Contributions \subseteq Int /\ PutAmounts \subseteq Int
    /\ MaxFaults \in Nat

VARIABLES
    stored,     \* the struct the store's map holds for the goal, or Nil
    heap,       \* every Goal struct
    pc,         \* "idle", "contribute", "add", "update", "edit", "replace", "done"
    ptr,        \* the struct a request holds
    amount,     \* what its body says
    newSaved,   \* its newSaved
    faults,
    \* what an observer knows
    ledger,     \* the sum of contributions reported as done, and of PUTs that
                \* set the amount
    edition,    \* the edition (name, target) of the last PUT reported as done
    applied,    \* a failed request may have changed the goal all the same
    overlapped  \* two requests have been under way at the same time

vars == <<stored, heap, pc, ptr, amount, newSaved, faults, ledger, edition,
          applied, overlapped>>
ghosts == <<ledger, edition, applied, overlapped>>

Goal == [saved : Int, edition : Requests \cup {Nil}]
Used == {o \in Objects : heap[o] # Nil}

TypeOK ==
    /\ stored \in Objects \cup {Nil}
    /\ heap \in [Objects -> Goal \cup {Nil}]
    /\ pc \in [Requests -> {"idle", "contribute", "add", "update",
                            "edit", "replace", "done"}]
    /\ ptr \in [Requests -> Objects \cup {Nil}]
    /\ amount \in [Requests -> Int] /\ newSaved \in [Requests -> Int]
    /\ faults \in Nat /\ ledger \in Int /\ edition \in Requests \cup {Nil}
    /\ applied \in BOOLEAN /\ overlapped \in BOOLEAN

\* A goal has just been created: it starts at zero, whatever the body said.
Init ==
    \E o \in Objects :
        /\ stored = o
        /\ heap = [x \in Objects |->
                     IF x = o THEN [saved |-> 0, edition |-> Nil] ELSE Nil]
        /\ pc = [r \in Requests |-> "idle"]
        /\ ptr = [r \in Requests |-> Nil]
        /\ amount = [r \in Requests |-> 0] /\ newSaved = [r \in Requests |-> 0]
        /\ faults = 0
        /\ ledger = 0 /\ edition = Nil /\ applied = FALSE /\ overlapped = FALSE

-----------------------------------------------------------------------------
Goto(r, label) == pc' = [pc EXCEPT ![r] = label]
Finish(r) == Goto(r, "done")

Busy(r) == pc[r] \notin {"idle", "done"}

\* A request starts; it finds the goal, or answers 404 and is over.
Begin(r, label) ==
    /\ pc[r] = "idle"
    /\ Goto(r, label)
    /\ overlapped' = (overlapped \/ \E q \in Requests : Busy(q))

\* handleGoalContribute: Get, whose pointer is the stored struct.
ContributeGet(r) ==
    /\ Begin(r, IF stored = Nil THEN "done" ELSE "contribute")
    /\ ptr' = [ptr EXCEPT ![r] = stored]
    /\ amount' \in {[amount EXCEPT ![r] = a] : a \in Contributions \ {0}}
    /\ UNCHANGED <<stored, heap, newSaved, faults, ledger, edition, applied>>

\* Mutant: the sum is not checked.
ContributeAddAny(r) ==
    /\ pc[r] = "contribute"
    /\ newSaved' = [newSaved EXCEPT ![r] = heap[ptr[r]].saved + amount[r]]
    /\ Goto(r, "add")
    /\ UNCHANGED <<stored, heap, ptr, amount, faults, ghosts>>

\* The sum is computed from the shared struct and refused if negative.
ContributeAdd(r) ==
    /\ pc[r] = "contribute"
    /\ LET sum == heap[ptr[r]].saved + amount[r] IN
        /\ newSaved' = [newSaved EXCEPT ![r] = sum]
        /\ Goto(r, IF sum < 0 THEN "done" ELSE "add")
    /\ UNCHANGED <<stored, heap, ptr, amount, faults, ghosts>>

\* existing.SavedAmount = newSaved, outside any lock.
ContributeWrite(r) ==
    /\ pc[r] = "add"
    /\ heap' = [heap EXCEPT ![ptr[r]].saved = newSaved[r]]
    /\ Goto(r, "update")
    /\ UNCHANGED <<stored, ptr, amount, newSaved, faults, ghosts>>

\* Mutant: a goal that is gone is stored again.
UpdateOrInsert(r) ==
    /\ stored' = ptr[r]
    /\ ledger' = IF pc[r] = "update" THEN ledger + amount[r]
                 ELSE IF amount[r] # 0 THEN amount[r] ELSE ledger
    /\ edition' = IF pc[r] = "update" THEN edition ELSE r
    /\ UNCHANGED <<faults, applied>>

\* Store.Update with the request's struct: 404 if the goal is gone, otherwise
\* the map takes the struct and goals.json is rewritten, which may fail.
Update(r) ==
    \/ /\ stored = Nil
       /\ UNCHANGED <<stored, faults, ledger, edition, applied>>
    \/ /\ stored # Nil
       /\ stored' = ptr[r]
       /\ \/ /\ ledger' = IF pc[r] = "update" THEN ledger + amount[r]
                          ELSE IF amount[r] # 0 THEN amount[r] ELSE ledger
             /\ edition' = IF pc[r] = "update" THEN edition ELSE r
             /\ UNCHANGED <<faults, applied>>
          \/ /\ faults < MaxFaults
             /\ faults' = faults + 1 /\ applied' = TRUE
             /\ UNCHANGED <<ledger, edition>>

ContributeUpdate(r) ==
    /\ pc[r] = "update"
    /\ Update(r)
    /\ Finish(r)
    /\ UNCHANGED <<heap, ptr, amount, newSaved, overlapped>>

\* PUT: Get, to carry the saved amount forward when the body's is zero.
EditGet(r) ==
    /\ Begin(r, IF stored = Nil THEN "done" ELSE "edit")
    /\ ptr' = [ptr EXCEPT ![r] = stored]
    /\ amount' \in {[amount EXCEPT ![r] = a] : a \in PutAmounts}
    /\ UNCHANGED <<stored, heap, newSaved, faults, ledger, edition, applied>>

\* Mutant: the body's amount is stored, absent or not.
EditReset(r) ==
    /\ pc[r] = "edit"
    /\ \E o \in Objects \ Used :
        /\ heap' = [heap EXCEPT ![o] = [saved |-> amount[r], edition |-> r]]
        /\ ptr' = [ptr EXCEPT ![r] = o]
    /\ Goto(r, "replace")
    /\ UNCHANGED <<stored, amount, newSaved, faults, ghosts>>

\* The body becomes a struct of its own, with the amount read from the other.
EditCarry(r) ==
    /\ pc[r] = "edit"
    /\ \E o \in Objects \ Used :
        /\ heap' = [heap EXCEPT ![o] =
              [saved |-> IF amount[r] = 0 THEN heap[ptr[r]].saved ELSE amount[r],
               edition |-> r]]
        /\ ptr' = [ptr EXCEPT ![r] = o]
    /\ Goto(r, "replace")
    /\ UNCHANGED <<stored, amount, newSaved, faults, ghosts>>

EditUpdate(r) ==
    /\ pc[r] = "replace"
    /\ Update(r)
    /\ Finish(r)
    /\ UNCHANGED <<heap, ptr, amount, newSaved, overlapped>>

\* DELETE: one store operation.
Delete(r) ==
    /\ Begin(r, "done")
    /\ stored' = Nil
    /\ UNCHANGED <<heap, ptr, amount, newSaved, faults, ledger, edition, applied>>

Request(r) ==
    \/ ContributeGet(r) \/ ContributeAdd(r) \/ ContributeWrite(r) \/ ContributeUpdate(r)
    \/ EditGet(r) \/ EditCarry(r) \/ EditUpdate(r)
    \/ Delete(r)

Next == \E r \in Requests : Request(r)

Spec == Init /\ [][Next]_vars

-----------------------------------------------------------------------------
(* What makes it correct                                                   *)

\* As long as no PUT carries a negative amount (the handler does not look), a
\* goal's saved amount never drops below zero, however corrections overlap.
SavedNeverNegative == stored # Nil => heap[stored].saved >= 0

\* Whenever no request is under way, and if requests have only ever come one at
\* a time and none failed, the goal holds exactly what the reports to clients
\* add up to, in the edition last reported as stored.
ExactWhenSequential ==
    stored # Nil /\ ~overlapped /\ ~applied /\ (\A r \in Requests : ~Busy(r)) =>
        heap[stored] = [saved |-> ledger, edition |-> edition]

\* The same with overlapping requests, of the saved amount: an edit of the
\* name or target does not reset progress, and no contribution is lost.
ProgressIsKept ==
    stored # Nil /\ ~applied /\ (\A r \in Requests : ~Busy(r)) =>
        heap[stored].saved = ledger

\* However requests overlap, a deleted goal is not brought back by an update
\* that was already under way.
DeletedStaysDeleted == [][stored = Nil => stored' = Nil]_vars
=============================================================================
