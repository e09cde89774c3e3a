---------------------------- MODULE GoalsProofs ----------------------------
(***************************************************************************)
(* Proofs about Goals, for any requests, amounts and number of failures.   *)
(***************************************************************************)
EXTENDS Goals, TLAPS

USE GoalsAssumption DEF Goal

-----------------------------------------------------------------------------
(* Type correctness                                                        *)

\* A request past its Get holds a struct that exists, and so does the map.
Holding == {"contribute", "add", "update", "edit", "replace"}
HeldInv ==
    /\ \A r \in Requests : pc[r] \in Holding => ptr[r] \in Objects /\ heap[ptr[r]] # Nil
    /\ stored # Nil => heap[stored] # Nil

TypedInv == TypeOK /\ HeldInv

LEMMA UpdateIsTyped ==
  ASSUME TypedInv, NEW r \in Requests, pc[r] \in {"update", "replace"}, Update(r)
  PROVE  /\ stored' \in Objects \cup {Nil} /\ (stored' # Nil => heap[stored'] # Nil)
         /\ faults' \in Nat /\ ledger' \in Int /\ edition' \in Requests \cup {Nil}
         /\ applied' \in BOOLEAN
<1>1. ptr[r] \in Objects /\ heap[ptr[r]] # Nil
  BY DEF TypedInv, HeldInv, Holding
<1>2. CASE stored = Nil /\ UNCHANGED <<stored, faults, ledger, edition, applied>>
  BY <1>2 DEF TypedInv, TypeOK
<1>3. CASE /\ stored # Nil /\ stored' = ptr[r]
           /\ ledger' = IF pc[r] = "update" THEN ledger + amount[r]
                        ELSE IF amount[r] # 0 THEN amount[r] ELSE ledger
           /\ edition' = IF pc[r] = "update" THEN edition ELSE r
           /\ UNCHANGED <<faults, applied>>
  <2>1. ledger \in Int /\ amount[r] \in Int
    BY DEF TypedInv, TypeOK
  <2>2. QED
    BY <1>1, <1>3, <2>1 DEF TypedInv, TypeOK
<1>4. CASE /\ stored # Nil /\ stored' = ptr[r]
           /\ faults' = faults + 1 /\ applied' = TRUE /\ UNCHANGED <<ledger, edition>>
  BY <1>1, <1>4 DEF TypedInv, TypeOK
<1>5. QED
  BY <1>2, <1>3, <1>4 DEF Update

LEMMA NextTyped == TypedInv /\ [Next]_vars => TypedInv'
<1> SUFFICES ASSUME TypedInv, [Next]_vars
             PROVE  TypedInv'
  OBVIOUS
<1> USE DEF TypedInv, TypeOK, HeldInv, Holding
<1>1. ASSUME NEW r \in Requests, ContributeGet(r)
      PROVE  TypedInv'
  BY <1>1 DEF ContributeGet, Begin, Goto
<1>2. ASSUME NEW r \in Requests, ContributeAdd(r)
      PROVE  TypedInv'
  <2>1. ptr[r] \in Objects /\ heap[ptr[r]] \in Goal
    BY <1>2 DEF ContributeAdd
  <2>2. heap[ptr[r]].saved + amount[r] \in Int
    BY <2>1
  <2>3. newSaved' \in [Requests -> Int]
    BY <1>2, <2>2 DEF ContributeAdd
  <2>4. QED
    BY <1>2, <2>3 DEF ContributeAdd, Goto, ghosts
<1>3. ASSUME NEW r \in Requests, ContributeWrite(r)
      PROVE  TypedInv'
  <2>1. ptr[r] \in Objects /\ heap[ptr[r]] \in Goal /\ newSaved[r] \in Int
    BY <1>3 DEF ContributeWrite
  <2>2. [heap[ptr[r]] EXCEPT !.saved = newSaved[r]] \in Goal
    BY <2>1
  <2>3. heap' = [heap EXCEPT ![ptr[r]] = [heap[ptr[r]] EXCEPT !.saved = newSaved[r]]]
    BY <1>3 DEF ContributeWrite
  <2>4. heap' \in [Objects -> Goal \cup {Nil}]
        /\ \A o \in Objects : heap[o] # Nil => heap'[o] # Nil
    BY <2>1, <2>2, <2>3
  <2>5. QED
    BY <1>3, <2>4 DEF ContributeWrite, Goto, ghosts
<1>4. ASSUME NEW r \in Requests, ContributeUpdate(r)
      PROVE  TypedInv'
  BY <1>4, UpdateIsTyped DEF ContributeUpdate, Finish, Goto
<1>5. ASSUME NEW r \in Requests, EditGet(r)
      PROVE  TypedInv'
  BY <1>5 DEF EditGet, Begin, Goto
<1>6. ASSUME NEW r \in Requests, EditCarry(r)
      PROVE  TypedInv'
  <2>1. PICK o \in Objects \ Used :
          /\ heap' = [heap EXCEPT ![o] =
                [saved |-> IF amount[r] = 0 THEN heap[ptr[r]].saved ELSE amount[r],
                 edition |-> r]]
          /\ ptr' = [ptr EXCEPT ![r] = o]
    BY <1>6 DEF EditCarry
  <2>2. ptr[r] \in Objects /\ heap[ptr[r]] \in Goal /\ amount[r] \in Int
    BY <1>6 DEF EditCarry
  <2>3. [saved |-> IF amount[r] = 0 THEN heap[ptr[r]].saved ELSE amount[r],
         edition |-> r] \in Goal
    BY <2>2
  <2>4. heap' \in [Objects -> Goal \cup {Nil}] /\ heap'[o] # Nil
        /\ \A x \in Objects : heap[x] # Nil => heap'[x] # Nil
    BY <2>1, <2>3
  <2>5. QED
    BY <1>6, <2>1, <2>4 DEF EditCarry, Goto, ghosts
<1>7. ASSUME NEW r \in Requests, EditUpdate(r)
      PROVE  TypedInv'
  BY <1>7, UpdateIsTyped DEF EditUpdate, Finish, Goto
<1>8. ASSUME NEW r \in Requests, Delete(r)
      PROVE  TypedInv'
  BY <1>8 DEF Delete, Begin, Goto
<1>9. CASE UNCHANGED vars
  BY <1>9 DEF vars
<1>10. QED
  BY <1>1, <1>2, <1>3, <1>4, <1>5, <1>6, <1>7, <1>8, <1>9 DEF Next, Request

LEMMA InitTyped == Init => TypedInv
<1> SUFFICES ASSUME Init PROVE TypedInv
  OBVIOUS
<1>1. PICK o \in Objects :
        /\ stored = o
        /\ heap = [x \in Objects |->
                     IF x = o THEN [saved |-> 0, edition |-> Nil] ELSE Nil]
  BY DEF Init
<1>2. [saved |-> 0, edition |-> Nil] \in Goal
  OBVIOUS
<1>3. stored \in Objects /\ heap \in [Objects -> Goal \cup {Nil}] /\ heap[stored] # Nil
  BY <1>1, <1>2
<1>4. /\ pc = [r \in Requests |-> "idle"] /\ ptr = [r \in Requests |-> Nil]
      /\ amount = [r \in Requests |-> 0] /\ newSaved = [r \in Requests |-> 0]
      /\ faults = 0 /\ ledger = 0 /\ edition = Nil
      /\ applied = FALSE /\ overlapped = FALSE
  BY DEF Init
<1>5. \A r \in Requests : pc[r] \notin Holding
  BY <1>4 DEF Holding
<1>6. TypeOK
  <2>1. pc \in [Requests -> {"idle", "contribute", "add", "update",
                             "edit", "replace", "done"}]
    BY <1>4
  <2>2. /\ ptr \in [Requests -> Objects \cup {Nil}]
        /\ amount \in [Requests -> Int] /\ newSaved \in [Requests -> Int]
    BY <1>4
  <2>3. faults \in Nat /\ ledger \in Int /\ edition \in Requests \cup {Nil}
    BY <1>4
  <2>4. applied \in BOOLEAN /\ overlapped \in BOOLEAN
    BY <1>4, Zenon
  <2>5. QED
    BY <1>3, <2>1, <2>2, <2>3, <2>4 DEF TypeOK
<1>7. QED
  BY <1>3, <1>5, <1>6 DEF TypedInv, HeldInv

\* Every reachable state of the handlers is well typed, and what a request holds exists.
THEOREM TypeCorrect == Spec => [](TypeOK /\ HeldInv)
<1>1. QED
  BY InitTyped, NextTyped, PTL DEF Spec, TypedInv

-----------------------------------------------------------------------------
(* Deletion                                                                *)

\* No update that was under way brings a deleted goal back.
THEOREM DeletionIsFinal == Spec => DeletedStaysDeleted
<1>1. [Next]_vars => (stored = Nil => stored' = Nil)
  <2> SUFFICES ASSUME [Next]_vars, stored = Nil
               PROVE  stored' = Nil
    OBVIOUS
  <2>1. ASSUME NEW r \in Requests, Request(r)
        PROVE  stored' = Nil
    BY <2>1 DEF Request, ContributeGet, ContributeAdd, ContributeWrite, ContributeUpdate,
                EditGet, EditCarry, EditUpdate, Delete, Update
  <2>2. QED
    BY <2>1 DEF Next, vars
<1>2. QED
  BY <1>1, PTL DEF Spec, DeletedStaysDeleted

-----------------------------------------------------------------------------
(* Amounts below zero                                                      *)

\* Not only the stored goal: an update may store any struct that was ever made, and
\* what a contribution is about to write has passed its check.
AmountsInv ==
    /\ \A o \in Objects : heap[o] # Nil => heap[o].saved >= 0
    /\ \A r \in Requests : pc[r] = "add" => newSaved[r] >= 0
    /\ \A r \in Requests : pc[r] = "edit" => amount[r] >= 0

LEMMA NextAmounts ==
  ASSUME PutAmounts \subseteq Nat, TypedInv, AmountsInv, [Next]_vars
  PROVE  AmountsInv'
<1> USE DEF TypedInv, TypeOK, HeldInv, Holding, AmountsInv
<1>1. ASSUME NEW r \in Requests, ContributeGet(r)
      PROVE  AmountsInv'
  BY <1>1 DEF ContributeGet, Begin, Goto
<1>2. ASSUME NEW r \in Requests, ContributeAdd(r)
      PROVE  AmountsInv'
  <2>1. heap[ptr[r]].saved + amount[r] \in Int
    BY <1>2 DEF ContributeAdd
  <2>2. QED
    BY <1>2, <2>1 DEF ContributeAdd, Goto
<1>3. ASSUME NEW r \in Requests, ContributeWrite(r)
      PROVE  AmountsInv'
  <2>1. ptr[r] \in Objects /\ heap[ptr[r]] \in Goal /\ newSaved[r] \in Int /\ newSaved[r] >= 0
    BY <1>3 DEF ContributeWrite
  <2>2. heap' = [heap EXCEPT ![ptr[r]] = [heap[ptr[r]] EXCEPT !.saved = newSaved[r]]]
    BY <1>3 DEF ContributeWrite
  <2>3. \A o \in Objects : heap'[o] # Nil => heap'[o].saved >= 0
    BY <2>1, <2>2
  <2>4. QED
    BY <1>3, <2>3 DEF ContributeWrite, Goto
<1>4. ASSUME NEW r \in Requests, ContributeUpdate(r)
      PROVE  AmountsInv'
  BY <1>4 DEF ContributeUpdate, Finish, Goto
<1>5. ASSUME NEW r \in Requests, EditGet(r)
      PROVE  AmountsInv'
  <2>1. PICK n \in PutAmounts : amount' = [amount EXCEPT ![r] = n]
    BY <1>5 DEF EditGet
  <2>2. QED
    BY <1>5, <2>1 DEF EditGet, Begin, Goto
<1>6. ASSUME NEW r \in Requests, EditCarry(r)
      PROVE  AmountsInv'
  <2>1. PICK o \in Objects \ Used :
          /\ heap' = [heap EXCEPT ![o] =
                [saved |-> IF amount[r] = 0 THEN heap[ptr[r]].saved ELSE amount[r],
                 edition |-> r]]
          /\ ptr' = [ptr EXCEPT ![r] = o]
    BY <1>6 DEF EditCarry
  <2>2. ptr[r] \in Objects /\ heap[ptr[r]].saved >= 0 /\ amount[r] >= 0
    BY <1>6 DEF EditCarry
  <2>3. \A x \in Objects : heap'[x] # Nil => heap'[x].saved >= 0
    BY <2>1, <2>2
  <2>4. QED
    BY <1>6, <2>3 DEF EditCarry, Goto
<1>7. ASSUME NEW r \in Requests, EditUpdate(r)
      PROVE  AmountsInv'
  BY <1>7 DEF EditUpdate, Finish, Goto
<1>8. ASSUME NEW r \in Requests, Delete(r)
      PROVE  AmountsInv'
  BY <1>8 DEF Delete, Begin, Goto
<1>9. CASE UNCHANGED vars
  BY <1>9 DEF vars
<1>10. QED
  BY <1>1, <1>2, <1>3, <1>4, <1>5, <1>6, <1>7, <1>8, <1>9 DEF Next, Request

\* As long as no PUT carries a negative amount, a goal's amount is never below zero,
\* however contributions and edits overlap.
THEOREM NeverBelowZero ==
  ASSUME PutAmounts \subseteq Nat
  PROVE  Spec => []SavedNeverNegative
<1>1. Init => TypedInv /\ AmountsInv
  <2> SUFFICES ASSUME Init PROVE AmountsInv
    BY InitTyped
  <2>1. PICK o \in Objects :
          /\ heap = [x \in Objects |->
                       IF x = o THEN [saved |-> 0, edition |-> Nil] ELSE Nil]
          /\ pc = [r \in Requests |-> "idle"]
    BY DEF Init
  <2>2. QED
    BY <2>1 DEF AmountsInv
<1>2. TypedInv /\ AmountsInv /\ [Next]_vars => TypedInv' /\ AmountsInv'
  BY NextTyped, NextAmounts
<1>3. TypedInv /\ AmountsInv => SavedNeverNegative
  BY DEF TypedInv, TypeOK, HeldInv, AmountsInv, SavedNeverNegative
<1>4. QED
  BY <1>1, <1>2, <1>3, PTL DEF Spec

-----------------------------------------------------------------------------
(* Requests that come one at a time                                        *)

\* As long as no two requests have overlapped one is under way at most.
Alone == \A q, r \in Requests : Busy(q) /\ Busy(r) => q = r

\* What the goal holds, and the struct of the request under way, of what the reports to
\* clients add up to.
Exact == [saved |-> ledger, edition |-> edition]
ExactAt(r) ==
    /\ pc[r] \in {"contribute", "add", "edit"} => heap[stored] = Exact
    /\ pc[r] \in {"contribute", "add", "edit", "update"} => ptr[r] = stored
    /\ pc[r] = "add" => newSaved[r] = ledger + amount[r]
    /\ pc[r] = "update" => heap[stored] = [saved |-> ledger + amount[r], edition |-> edition]
    /\ pc[r] = "replace" =>
          heap[ptr[r]] = [saved |-> IF amount[r] = 0 THEN ledger ELSE amount[r], edition |-> r]
ExactInv ==
    ~overlapped =>
        /\ Alone
        /\ stored # Nil /\ ~applied =>
              /\ (\A r \in Requests : ~Busy(r)) => heap[stored] = Exact
              /\ \A r \in Requests : ExactAt(r)

\* Nobody else is under way: what a step of a request brings about is all there is.
LEMMA ExactOfOne ==
  ASSUME TypedInv, NEW r \in Requests, NEW label, pc' = [pc EXCEPT ![r] = label],
         overlapped' \/ \A q \in Requests \ {r} : ~Busy(q),
         ~overlapped' /\ stored' # Nil /\ ~applied' =>
             /\ label \in {"idle", "done"} => heap'[stored'] = Exact'
             /\ ExactAt(r)'
  PROVE  ExactInv'
<1>1. \A q \in Requests \ {r} : pc'[q] = pc[q]
  BY DEF TypedInv, TypeOK
<1>2. pc'[r] = label
  BY DEF TypedInv, TypeOK
<1>3. ASSUME ~overlapped'
      PROVE  \A q \in Requests \ {r} : pc'[q] \in {"idle", "done"}
  BY <1>1, <1>3 DEF Busy
<1>4. ASSUME ~overlapped', NEW q \in Requests \ {r}
      PROVE  ExactAt(q)'
  BY <1>3, <1>4 DEF ExactAt
<1>5. ~overlapped' => Alone'
  BY <1>3 DEF Alone, Busy
<1>6. QED
  BY <1>2, <1>4, <1>5 DEF ExactInv, Busy

LEMMA ExactOfUpdate ==
  ASSUME TypedInv, ExactInv, NEW r \in Requests, pc[r] \in {"update", "replace"}, Update(r),
         UNCHANGED heap, ~overlapped, stored' # Nil, ~applied'
  PROVE  heap'[stored'] = Exact'
<1>1. /\ stored # Nil /\ ~applied /\ stored' = ptr[r]
      /\ ledger' = IF pc[r] = "update" THEN ledger + amount[r]
                   ELSE IF amount[r] # 0 THEN amount[r] ELSE ledger
      /\ edition' = IF pc[r] = "update" THEN edition ELSE r
  BY DEF Update
<1>2. ExactAt(r)
  BY <1>1 DEF ExactInv
<1>3. CASE pc[r] = "update"
  BY <1>1, <1>2, <1>3 DEF ExactAt, Exact
<1>4. CASE pc[r] = "replace"
  BY <1>1, <1>2, <1>4 DEF ExactAt, Exact
<1>5. QED
  BY <1>3, <1>4

LEMMA NextExact == TypedInv /\ ExactInv /\ [Next]_vars => ExactInv'
<1> SUFFICES ASSUME TypedInv, ExactInv, [Next]_vars
             PROVE  ExactInv'
  OBVIOUS
<1>1. ASSUME NEW r \in Requests, NEW label, Begin(r, label)
      PROVE  /\ overlapped' \/ \A q \in Requests : ~Busy(q)
             /\ pc' = [pc EXCEPT ![r] = label] /\ pc[r] = "idle"
             /\ TypeOK => pc'[r] = label
             /\ ~overlapped' => ~overlapped
  BY <1>1 DEF Begin, Goto, TypeOK
<1>2. ASSUME NEW r \in Requests, Busy(r)
      PROVE  overlapped \/ \A q \in Requests \ {r} : ~Busy(q)
  BY <1>2 DEF ExactInv, Alone
<1>3. ASSUME NEW r \in Requests, ContributeGet(r)
      PROVE  ExactInv'
  <2> DEFINE label == IF stored = Nil THEN "done" ELSE "contribute"
  <2>1. /\ Begin(r, label) /\ ptr' = [ptr EXCEPT ![r] = stored]
        /\ UNCHANGED <<stored, heap, ledger, edition, applied>>
    BY <1>3 DEF ContributeGet
  <2>2. ASSUME ~overlapped', stored' # Nil, ~applied'
        PROVE  ExactAt(r)' /\ label = "contribute"
    <3>1. heap[stored] = Exact
      BY <1>1, <2>1, <2>2 DEF ExactInv
    <3>2. pc'[r] = "contribute" /\ ptr'[r] = stored
      BY <1>1, <2>1, <2>2 DEF TypedInv, TypeOK
    <3>3. QED
      BY <2>1, <2>2, <3>1, <3>2 DEF ExactAt, Exact
  <2>3. QED
    BY <1>1, <2>1, <2>2, ExactOfOne
<1>4. ASSUME NEW r \in Requests, EditGet(r)
      PROVE  ExactInv'
  <2> DEFINE label == IF stored = Nil THEN "done" ELSE "edit"
  <2>1. /\ Begin(r, label) /\ ptr' = [ptr EXCEPT ![r] = stored]
        /\ UNCHANGED <<stored, heap, ledger, edition, applied>>
    BY <1>4 DEF EditGet
  <2>2. ASSUME ~overlapped', stored' # Nil, ~applied'
        PROVE  ExactAt(r)' /\ label = "edit"
    <3>1. heap[stored] = Exact
      BY <1>1, <2>1, <2>2 DEF ExactInv
    <3>2. pc'[r] = "edit" /\ ptr'[r] = stored
      BY <1>1, <2>1, <2>2 DEF TypedInv, TypeOK
    <3>3. QED
      BY <2>1, <2>2, <3>1, <3>2 DEF ExactAt, Exact
  <2>3. QED
    BY <1>1, <2>1, <2>2, ExactOfOne
<1>5. ASSUME NEW r \in Requests, Delete(r)
      PROVE  ExactInv'
  BY <1>1, <1>5, ExactOfOne DEF Delete
<1>6. ASSUME NEW r \in Requests, ContributeAdd(r)
      PROVE  ExactInv'
  <2> DEFINE sum == heap[ptr[r]].saved + amount[r]
             label == IF sum < 0 THEN "done" ELSE "add"
  <2>1. /\ pc[r] = "contribute" /\ pc' = [pc EXCEPT ![r] = label]
        /\ newSaved' = [newSaved EXCEPT ![r] = sum]
        /\ UNCHANGED <<stored, heap, ptr, amount, ledger, edition, applied, overlapped>>
    BY <1>6 DEF ContributeAdd, Goto, ghosts
  <2>2. ASSUME ~overlapped, stored # Nil, ~applied
        PROVE  heap'[stored'] = Exact' /\ ExactAt(r)'
    <3>1. heap[stored] = Exact /\ ptr[r] = stored
      BY <2>1, <2>2 DEF ExactInv, ExactAt
    <3>2. newSaved'[r] = ledger + amount[r]
      BY <2>1, <3>1 DEF Exact, TypedInv, TypeOK
    <3>3. pc'[r] \in {"done", "add"}
      BY <2>1 DEF TypedInv, TypeOK
    <3>4. QED
      BY <2>1, <3>1, <3>2, <3>3 DEF ExactAt, Exact
  <2>3. QED
    BY <1>2, <2>1, <2>2, ExactOfOne DEF Busy
<1>7. ASSUME NEW r \in Requests, ContributeWrite(r)
      PROVE  ExactInv'
  <2>1. /\ pc[r] = "add" /\ pc' = [pc EXCEPT ![r] = "update"]
        /\ heap' = [heap EXCEPT ![ptr[r]].saved = newSaved[r]]
        /\ UNCHANGED <<stored, ptr, amount, ledger, edition, applied, overlapped>>
    BY <1>7 DEF ContributeWrite, Goto, ghosts
  <2>2. ASSUME ~overlapped, stored # Nil, ~applied
        PROVE  ExactAt(r)'
    <3>1. heap[stored] = Exact /\ ptr[r] = stored /\ newSaved[r] = ledger + amount[r]
      BY <2>1, <2>2 DEF ExactInv, ExactAt
    <3>2. heap'[stored] = [Exact EXCEPT !.saved = ledger + amount[r]]
      BY <2>1, <2>2, <3>1 DEF TypedInv, TypeOK
    <3>3. pc'[r] = "update"
      BY <2>1 DEF TypedInv, TypeOK
    <3>4. QED
      BY <2>1, <3>1, <3>2, <3>3 DEF ExactAt, Exact
  <2>3. QED
    BY <1>2, <2>1, <2>2, ExactOfOne DEF Busy
<1>8. ASSUME NEW r \in Requests, EditCarry(r)
      PROVE  ExactInv'
  <2>1. PICK o \in Objects \ Used :
          /\ heap' = [heap EXCEPT ![o] =
                [saved |-> IF amount[r] = 0 THEN heap[ptr[r]].saved ELSE amount[r],
                 edition |-> r]]
          /\ ptr' = [ptr EXCEPT ![r] = o]
    BY <1>8 DEF EditCarry
  <2>2. /\ pc[r] = "edit" /\ pc' = [pc EXCEPT ![r] = "replace"]
        /\ UNCHANGED <<stored, amount, ledger, edition, applied, overlapped>>
    BY <1>8 DEF EditCarry, Goto, ghosts
  <2>3. ASSUME ~overlapped, stored # Nil, ~applied
        PROVE  ExactAt(r)'
    <3>1. heap[stored] = Exact /\ ptr[r] = stored
      BY <2>2, <2>3 DEF ExactInv, ExactAt
    <3>2. heap'[ptr'[r]] = [saved |-> IF amount[r] = 0 THEN ledger ELSE amount[r],
                            edition |-> r]
      BY <2>1, <3>1 DEF Exact, TypedInv, TypeOK
    <3>3. pc'[r] = "replace"
      BY <2>2 DEF TypedInv, TypeOK
    <3>4. QED
      BY <2>2, <3>2, <3>3 DEF ExactAt
  <2>4. QED
    BY <1>2, <2>2, <2>3, ExactOfOne DEF Busy
<1>9. ASSUME NEW r \in Requests, ContributeUpdate(r) \/ EditUpdate(r)
      PROVE  ExactInv'
  <2>1. /\ pc[r] \in {"update", "replace"} /\ Update(r) /\ pc' = [pc EXCEPT ![r] = "done"]
        /\ UNCHANGED <<heap, overlapped>>
    BY <1>9 DEF ContributeUpdate, EditUpdate, Finish, Goto
  <2>2. pc'[r] = "done"
    BY <2>1 DEF TypedInv, TypeOK
  <2>3. ExactAt(r)'
    BY <2>2 DEF ExactAt
  <2>4. QED
    BY <1>2, <2>1, <2>3, ExactOfOne, ExactOfUpdate DEF Busy
<1>10. CASE UNCHANGED vars
  BY <1>10 DEF vars, ExactInv, Alone, Busy, ExactAt, Exact
<1>11. QED
  BY <1>3, <1>4, <1>5, <1>6, <1>7, <1>8, <1>9, <1>10 DEF Next, Request

\* Requests that come one at a time, none of which failed, leave the goal with exactly
\* what the reports to clients add up to.
THEOREM ExactAlone == Spec => []ExactWhenSequential
<1>1. Init => TypedInv /\ ExactInv
  <2> SUFFICES ASSUME Init PROVE ExactInv
    BY InitTyped
  <2>1. PICK o \in Objects :
          /\ stored = o /\ ledger = 0 /\ edition = Nil
          /\ heap = [x \in Objects |->
                       IF x = o THEN [saved |-> 0, edition |-> Nil] ELSE Nil]
          /\ pc = [r \in Requests |-> "idle"]
    BY DEF Init
  <2>2. QED
    BY <2>1 DEF ExactInv, Alone, Busy, ExactAt, Exact
<1>2. TypedInv /\ ExactInv /\ [Next]_vars => TypedInv' /\ ExactInv'
  BY NextTyped, NextExact
<1>3. TypedInv /\ ExactInv => ExactWhenSequential
  BY DEF ExactInv, ExactWhenSequential, Exact
<1>4. QED
  BY <1>1, <1>2, <1>3, PTL DEF Spec
=============================================================================
