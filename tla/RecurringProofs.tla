-------------------------- MODULE RecurringProofs --------------------------
(***************************************************************************)
(* Proofs about Recurring, for any number of sweeps, any calendar and any  *)
(* number of edits, failed writes and crashes.                             *)
(***************************************************************************)
EXTENDS Recurring, FiniteSetTheorems, TLAPS

-----------------------------------------------------------------------------
(* There is always a cell that nothing points to                           *)

LEMMA NewCellIsFree ==
  /\ NewCell \in Objects /\ NewCell # stored
  /\ \A s \in Sweepers : sweep[s].rule # NewCell
<1> USE RecurringAssumption
<1> DEFINE T == {sweep[s].rule : s \in Sweepers}
           f == [s \in Sweepers |-> sweep[s].rule]
<1>1. f \in Surjection(Sweepers, T)
  BY DEF Surjection
<1>2. IsFiniteSet(T) /\ Cardinality(T) <= Cardinality(Sweepers)
  BY <1>1, FS_Surjection
<1>3. /\ IsFiniteSet(T \cup {stored})
      /\ Cardinality(T \cup {stored}) <= Cardinality(Sweepers) + 1
  <2>1. Cardinality(T) \in Nat /\ Cardinality(Sweepers) \in Nat
    BY <1>2, FS_CardinalityType
  <2>2. /\ IsFiniteSet(T \cup {stored})
        /\ Cardinality(T \cup {stored}) =
              IF stored \in T THEN Cardinality(T) ELSE Cardinality(T) + 1
    BY <1>2, FS_AddElement, Zenon
  <2>3. QED
    BY <1>2, <2>1, <2>2
<1>4. ~(Objects \subseteq T \cup {stored})
  <2> SUFFICES ASSUME Objects \subseteq T \cup {stored}
               PROVE  FALSE
    OBVIOUS
  <2>1. Cardinality(Objects) <= Cardinality(T \cup {stored})
    BY <1>3, FS_Subset
  <2>2. /\ Cardinality(Objects) \in Nat /\ Cardinality(Sweepers) \in Nat
        /\ Cardinality(T \cup {stored}) \in Nat
    BY <1>3, FS_CardinalityType
  <2>3. QED
    BY <1>3, <2>1, <2>2
<1>5. \E o \in Objects : o # stored /\ \A s \in Sweepers : sweep[s].rule # o
  BY <1>4
<1>6. QED
  BY <1>5 DEF NewCell

-----------------------------------------------------------------------------
(* Type correctness, one group of variables at a time                      *)

Labels == {"idle", "list", "read", "create", "write", "update"}

ClockOK == status \in {"down", "starting", "up"} /\ today \in Days /\ first \in 1 .. Blank

RulesOK ==
    /\ stored \in Objects \cup {Nil} /\ heap \in [Objects -> Rule \cup {Nil}]
    /\ ruleFile \in Rule \cup {Nil}

LedgerOK == txs \in Counts /\ txFile \in Counts

SweepOK == sweep \in [Sweepers -> Locals]

CountsOK == edits \in Nat /\ faults \in Nat /\ crashes \in Nat

FlagsOK ==
    /\ deleted \in BOOLEAN /\ paused \in BOOLEAN
    /\ overlapped \in BOOLEAN /\ degraded \in BOOLEAN

\* A sweep past its ListAll holds a rule that exists, and so does the map.
HeldInv ==
    /\ \A s \in Sweepers :
          /\ Sweeping(s) => sweep[s].rule \in Objects /\ heap[sweep[s].rule] # Nil
          /\ Sweeping(s) /\ ~At(s, "read") => sweep[s].due >= 1
    /\ stored # Nil => heap[stored] # Nil

TypedInv ==
    ClockOK /\ RulesOK /\ LedgerOK /\ SweepOK /\ CountsOK /\ FlagsOK /\ HeldInv

LEMMA TypedInvTypes == TypedInv => TypeOK
  BY DEF TypedInv, TypeOK, ClockOK, RulesOK, LedgerOK, SweepOK, CountsOK, FlagsOK

LEMMA FlagsStay == FlagsOK /\ UNCHANGED <<deleted, paused, overlapped, degraded>> => FlagsOK'
  BY DEF FlagsOK

LEMMA FlagsSet ==
  ASSUME FlagsOK, deleted' \in {deleted, TRUE}, paused' \in {paused, TRUE, FALSE},
         overlapped' \in {overlapped, TRUE}, degraded' \in {degraded, TRUE}
  PROVE  FlagsOK'
<1>1. deleted' \in BOOLEAN
  BY Zenon DEF FlagsOK
<1>2. paused' \in BOOLEAN
  BY Zenon DEF FlagsOK
<1>3. overlapped' \in BOOLEAN
  BY Zenon DEF FlagsOK
<1>4. degraded' \in BOOLEAN
  BY Zenon DEF FlagsOK
<1>5. QED
  BY <1>1, <1>2, <1>3, <1>4 DEF FlagsOK

\* The rule's store writes its file or not.
LEMMA SavingIsTyped ==
  ASSUME TypedInv, NEW rule \in Rule \cup {Nil}, RuleSaved(rule) \/ RuleNotSaved
  PROVE  /\ ruleFile' \in Rule \cup {Nil} /\ faults' \in Nat
         /\ degraded' \in {degraded, TRUE}
<1>1. faults \in Nat /\ ruleFile \in Rule \cup {Nil}
  BY DEF TypedInv, CountsOK, RulesOK
<1>2. CASE RuleSaved(rule)
  BY <1>1, <1>2 DEF RuleSaved
<1>3. CASE RuleNotSaved
  BY <1>1, <1>3 DEF RuleNotSaved
<1>4. QED
  BY <1>2, <1>3

\* What one sweep's locals may become; the others keep theirs.
LEMMA LocalsAreTyped ==
  ASSUME SweepOK, NEW s \in Sweepers, NEW new \in Locals, sweep' = [sweep EXCEPT ![s] = new]
  PROVE  SweepOK' /\ sweep'[s] = new /\ \A q \in Sweepers \ {s} : sweep'[q] = sweep[q]
  BY DEF SweepOK

LEMMA IdleIsTyped == Idle \in Locals
  BY RecurringAssumption DEF Idle, Locals, Blank

LEMMA BlankIsLate == /\ Blank \in Nat /\ Blank > MaxToday + Period
                     /\ \A d \in Days : d \in Nat /\ d < Blank
  BY RecurringAssumption DEF Blank, Days

\* A sweep, by the step it takes: what it does to its own locals.
LEMMA SweepListLocals ==
  ASSUME TypedInv, NEW s \in Sweepers, SweepList(s)
  PROVE  \E new \in Locals : /\ sweep' = [sweep EXCEPT ![s] = new]
                             /\ new.pc = "read" /\ new.rule = stored /\ new.due = 0
                             /\ new.today = today /\ new.created = 0
<1> DEFINE new == [Idle EXCEPT !.pc = "read", !.rule = stored, !.today = today]
<1>1. today \in 0 .. MaxToday
  BY RecurringAssumption DEF TypedInv, ClockOK, Days
<1>2. stored \in Objects \cup {Nil} /\ 0 \in 0 .. Blank /\ 0 \in 0 .. maxCatchUpPerRule
  BY RecurringAssumption, BlankIsLate DEF TypedInv, RulesOK
<1>3. new \in Locals
  BY <1>1, <1>2 DEF Locals, Idle
<1>4. QED
  BY <1>3 DEF SweepList, Idle

LEMMA SweepReadLocals ==
  ASSUME TypedInv, NEW s \in Sweepers, At(s, "read"), heap[sweep[s].rule].nextDue # Blank,
         sweep' = [sweep EXCEPT ![s].pc = "create",
                                ![s].due = heap[sweep[s].rule].nextDue]
  PROVE  \E new \in Locals : /\ sweep' = [sweep EXCEPT ![s] = new]
                             /\ new.pc = "create" /\ new.rule = sweep[s].rule
                             /\ new.due = heap[sweep[s].rule].nextDue
                             /\ new.today = sweep[s].today
                             /\ new.created = sweep[s].created
<1> DEFINE due == heap[sweep[s].rule].nextDue
           new == [sweep[s] EXCEPT !.pc = "create", !.due = due]
<1>1. sweep[s] \in Locals /\ sweep[s].rule \in Objects /\ heap[sweep[s].rule] # Nil
  BY DEF TypedInv, SweepOK, HeldInv, Sweeping, At
<1>2. due \in 1 .. Blank
  BY <1>1 DEF TypedInv, RulesOK, Rule
<1>3. new \in Locals
  <2>1. due \in 0 .. Blank
    BY <1>2, BlankIsLate
  <2>2. QED
    BY <1>1, <2>1 DEF Locals
<1>4. sweep' = [sweep EXCEPT ![s] = new]
  BY DEF TypedInv, SweepOK, Locals
<1>5. QED
  BY <1>1, <1>3, <1>4 DEF Locals

LEMMA SweepCreateLocals ==
  ASSUME TypedInv, NEW s \in Sweepers, SweepCreate(s)
  PROVE  /\ sweep[s].due \in Days
         /\ \E new \in Locals :
               /\ sweep' = [sweep EXCEPT ![s] = new]
               /\ new.rule = sweep[s].rule /\ new.today = sweep[s].today
               /\ \/ /\ new.pc = "create" /\ new.due = advanceDate(sweep[s].due)
                     /\ new.created = sweep[s].created + 1
                     /\ txFile' = txs' /\ UNCHANGED <<faults, degraded>>
                  \/ /\ new.pc = "write" /\ new.due = sweep[s].due
                     /\ new.created = sweep[s].created
                     /\ faults' = faults + 1 /\ degraded' = TRUE /\ UNCHANGED txFile
<1> USE RecurringAssumption
<1>1. /\ sweep[s] \in Locals /\ sweep[s].due \in Nat /\ sweep[s].due >= 1
      /\ sweep[s].today \in 0 .. MaxToday
  BY DEF TypedInv, SweepOK, HeldInv, Sweeping, SweepCreate, More, At, Locals
<1>2. sweep[s].due <= sweep[s].today /\ sweep[s].created < maxCatchUpPerRule
  BY DEF SweepCreate, More
<1>3. sweep[s].due \in Days
  BY <1>1, <1>2 DEF Days
<1>4. CASE /\ sweep' = [sweep EXCEPT ![s].due = advanceDate(@), ![s].created = @ + 1]
           /\ txFile' = txs' /\ UNCHANGED <<faults, degraded>>
  <2> DEFINE new == [sweep[s] EXCEPT !.due = advanceDate(@), !.created = @ + 1]
  <2>1. advanceDate(sweep[s].due) \in 0 .. Blank
    BY <1>3, BlankIsLate DEF advanceDate, Days
  <2>2. sweep[s].created + 1 \in 0 .. maxCatchUpPerRule
    BY <1>1, <1>2 DEF Locals
  <2>3. new \in Locals
    BY <1>1, <2>1, <2>2 DEF Locals
  <2>4. sweep' = [sweep EXCEPT ![s] = new]
    BY <1>1, <1>4 DEF TypedInv, SweepOK, Locals
  <2>5. new.pc = "create"
    BY <1>1 DEF Locals, SweepCreate, More, At
  <2>6. QED
    BY <1>1, <1>3, <1>4, <2>3, <2>4, <2>5 DEF Locals
<1>5. CASE /\ sweep' = [sweep EXCEPT ![s].pc = "write"]
           /\ faults' = faults + 1 /\ degraded' = TRUE /\ UNCHANGED txFile
  <2> DEFINE new == [sweep[s] EXCEPT !.pc = "write"]
  <2>1. new \in Locals
    BY <1>1 DEF Locals
  <2>2. sweep' = [sweep EXCEPT ![s] = new]
    BY <1>1, <1>5 DEF TypedInv, SweepOK, Locals
  <2>3. QED
    BY <1>1, <1>3, <1>5, <2>1, <2>2 DEF Locals
<1>6. QED
  BY <1>4, <1>5 DEF SweepCreate

LEMMA RelabelledLocals ==
  ASSUME TypedInv, NEW s \in Sweepers, NEW label \in Labels,
         sweep' = [sweep EXCEPT ![s].pc = label]
  PROVE  \E new \in Locals : /\ sweep' = [sweep EXCEPT ![s] = new]
                             /\ new.pc = label /\ new.rule = sweep[s].rule
                             /\ new.due = sweep[s].due /\ new.today = sweep[s].today
                             /\ new.created = sweep[s].created
<1> DEFINE new == [sweep[s] EXCEPT !.pc = label]
<1>1. sweep[s] \in Locals
  BY DEF TypedInv, SweepOK
<1>2. new \in Locals /\ sweep' = [sweep EXCEPT ![s] = new]
  BY <1>1 DEF TypedInv, SweepOK, Locals, Labels
<1>3. QED
  BY <1>1, <1>2 DEF Locals

\* What a sweep may take its locals to, for HeldInv.
Holds(l) ==
    l.pc \in {"idle", "list"} \/
    /\ l.rule \in Objects /\ heap[l.rule] # Nil
    /\ l.pc = "read" \/ l.due >= 1

LEMMA HeldStays ==
  ASSUME TypedInv, NEW s \in Sweepers, NEW new \in Locals,
         sweep' = [sweep EXCEPT ![s] = new], Holds(new),
         \A o \in Objects : heap[o] # Nil => heap'[o] # Nil,
         stored' # Nil => heap'[stored'] # Nil
  PROVE  HeldInv' /\ SweepOK'
<1>1. SweepOK' /\ sweep'[s] = new /\ \A q \in Sweepers \ {s} : sweep'[q] = sweep[q]
  BY LocalsAreTyped DEF TypedInv
<1>2. ASSUME NEW q \in Sweepers
      PROVE  /\ Sweeping(q)' => sweep'[q].rule \in Objects /\ heap'[sweep'[q].rule] # Nil
             /\ Sweeping(q)' /\ ~At(q, "read")' => sweep'[q].due >= 1
  <2>1. CASE q = s
    BY <1>1, <2>1 DEF Holds, Sweeping, At
  <2>2. CASE q # s
    BY <1>1, <1>2, <2>2 DEF TypedInv, HeldInv, Sweeping, At
  <2>3. QED
    BY <2>1, <2>2
<1>3. QED
  BY <1>1, <1>2 DEF HeldInv

\* The rules change, the sweeps do not.
LEMMA HeldWithRules ==
  ASSUME TypedInv, UNCHANGED sweep,
         \A o \in Objects : heap[o] # Nil => heap'[o] # Nil,
         stored' # Nil => heap'[stored'] # Nil
  PROVE  HeldInv' /\ SweepOK'
  BY DEF TypedInv, HeldInv, SweepOK, Sweeping, At

\* A new cell gets a rule.
LEMMA NewRuleIsTyped ==
  ASSUME TypedInv, NEW rule \in Rule, stored' = NewCell,
         heap' = [heap EXCEPT ![NewCell] = rule]
  PROVE  /\ stored' \in Objects /\ heap' \in [Objects -> Rule \cup {Nil}]
         /\ heap'[NewCell] = rule /\ rule # Nil
         /\ \A o \in Objects : heap[o] # Nil => heap'[o] # Nil
         /\ \A o \in Objects \ {NewCell} : heap'[o] = heap[o]
<1>1. rule # Nil
  BY RecurringAssumption DEF Rule
<1>2. QED
  BY <1>1, NewCellIsFree DEF TypedInv, RulesOK

\* A sweep ends, or goes on without touching what is stored.
LEMMA SweepEndsTyped ==
  ASSUME TypedInv, NEW s \in Sweepers, SweepEnds(s), UNCHANGED heap,
         stored' # Nil => heap[stored'] # Nil
  PROVE  HeldInv' /\ SweepOK' /\ status' \in {"down", "starting", "up"}
<1>1. Holds(Idle) /\ sweep' = [sweep EXCEPT ![s] = Idle]
  BY DEF Holds, Idle, SweepEnds
<1>2. HeldInv' /\ SweepOK'
  BY <1>1, HeldStays, IdleIsTyped
<1>3. QED
  BY <1>2 DEF SweepEnds, TypedInv, ClockOK

LEMMA SweepIsTyped == ASSUME TypedInv, NEW s \in Sweepers, Sweep(s) PROVE TypedInv'
<1>0. \A q \in Sweepers : sweep[q] \in Locals
  BY DEF TypedInv, SweepOK
<1>1. CASE SweepList(s)
  <2>1. PICK new \in Locals : /\ sweep' = [sweep EXCEPT ![s] = new]
                              /\ new.pc = "read" /\ new.rule = stored
    BY <1>1, SweepListLocals
  <2>2. Holds(new)
    BY <1>1, <2>1 DEF Holds, SweepList, TypedInv, RulesOK, HeldInv
  <2>3. UNCHANGED <<status, today, stored, heap, ruleFile, txs, txFile, edits, faults,
                    crashes, first, deleted, paused, degraded>>
    BY <1>1 DEF SweepList, rules, ledger, bounds
  <2>4. HeldInv' /\ SweepOK'
    BY <2>1, <2>2, <2>3, HeldStays DEF TypedInv, HeldInv
  <2>5. overlapped' \in {overlapped, TRUE}
    BY <1>1, Zenon DEF SweepList, TypedInv, FlagsOK
  <2>6. FlagsOK'
    BY <2>3, <2>5, FlagsSet DEF TypedInv
  <2>7. QED
    BY <2>3, <2>4, <2>6 DEF TypedInv, ClockOK, RulesOK, LedgerOK, CountsOK
<1>2. CASE SweepNothing(s)
  <2>1. UNCHANGED <<today, stored, heap, ruleFile, txs, txFile, edits, faults,
                    crashes, first, deleted, paused, overlapped, degraded>>
    BY <1>2 DEF SweepNothing, rules, ledger, bounds, ghosts
  <2>2. HeldInv' /\ SweepOK' /\ status' \in {"down", "starting", "up"}
    BY <1>2, <2>1, SweepEndsTyped DEF SweepNothing
  <2>3. QED
    BY <2>1, <2>2, FlagsStay DEF TypedInv, ClockOK, RulesOK, LedgerOK, CountsOK
<1>3. CASE SweepRead(s)
  <2>1. UNCHANGED <<today, stored, heap, ruleFile, txs, txFile, edits, faults,
                    crashes, first, deleted, paused, overlapped, degraded>>
    BY <1>3 DEF SweepRead, rules, ledger, bounds, ghosts
  <2>2. CASE SweepEnds(s)
    BY <2>1, <2>2, SweepEndsTyped, FlagsStay
       DEF TypedInv, HeldInv, ClockOK, RulesOK, LedgerOK, CountsOK
  <2>3. CASE /\ heap[sweep[s].rule].nextDue # Blank /\ UNCHANGED status
             /\ sweep' = [sweep EXCEPT ![s].pc = "create",
                                       ![s].due = heap[sweep[s].rule].nextDue]
    <3>1. PICK new \in Locals : /\ sweep' = [sweep EXCEPT ![s] = new]
                                /\ new.pc = "create" /\ new.rule = sweep[s].rule
                                /\ new.due = heap[sweep[s].rule].nextDue
      BY <1>3, <2>3, SweepReadLocals DEF SweepRead
    <3>2. sweep[s].rule \in Objects /\ heap[sweep[s].rule] # Nil
      BY <1>3 DEF SweepRead, TypedInv, HeldInv, Sweeping, At
    <3>3. heap[sweep[s].rule].nextDue >= 1
      BY <3>2, BlankIsLate DEF TypedInv, RulesOK, Rule
    <3>4. Holds(new)
      BY <3>1, <3>2, <3>3 DEF Holds
    <3>5. HeldInv' /\ SweepOK'
      BY <2>1, <3>1, <3>4, HeldStays DEF TypedInv, HeldInv
    <3>6. QED
      BY <2>1, <2>3, <3>5, FlagsStay
         DEF TypedInv, ClockOK, RulesOK, LedgerOK, CountsOK
  <2>4. QED
    BY <1>3, <2>2, <2>3 DEF SweepRead
<1>4. CASE SweepCreate(s)
  <2>1. /\ UNCHANGED <<status, today, stored, heap, ruleFile, edits, crashes, first,
                       deleted, paused, overlapped>>
        /\ txs' = [txs EXCEPT ![sweep[s].due] = @ + 1]
    BY <1>4 DEF SweepCreate, rules
  <2>2. sweep[s].due \in Days
    BY <1>4, SweepCreateLocals
  <2>3. PICK new \in Locals :
          /\ sweep' = [sweep EXCEPT ![s] = new] /\ new.rule = sweep[s].rule
          /\ \/ /\ new.pc = "create" /\ new.due = advanceDate(sweep[s].due)
                /\ txFile' = txs' /\ UNCHANGED <<faults, degraded>>
             \/ /\ new.pc = "write" /\ new.due = sweep[s].due
                /\ faults' = faults + 1 /\ degraded' = TRUE /\ UNCHANGED txFile
    BY <1>4, SweepCreateLocals
  <2>4. Holds(new)
    <3>1. sweep[s].rule \in Objects /\ heap[sweep[s].rule] # Nil
      BY <1>4 DEF SweepCreate, More, TypedInv, HeldInv, Sweeping, At
    <3>2. new.due >= 1
      BY <2>2, <2>3, RecurringAssumption DEF Days, advanceDate
    <3>3. QED
      BY <2>3, <3>1, <3>2 DEF Holds
  <2>5. HeldInv' /\ SweepOK'
    BY <2>1, <2>3, <2>4, HeldStays DEF TypedInv, HeldInv
  <2>6. txs' \in Counts /\ txFile' \in Counts
    BY <2>1, <2>2, <2>3 DEF TypedInv, LedgerOK, Counts
  <2>7. FlagsOK'
    BY <2>1, <2>3, FlagsSet DEF TypedInv
  <2>8. faults \in Nat
    BY DEF TypedInv, CountsOK
  <2>9. CountsOK'
    BY <2>1, <2>3, <2>8 DEF TypedInv, CountsOK
  <2>10. QED
    BY <2>1, <2>5, <2>6, <2>7, <2>9 DEF TypedInv, ClockOK, RulesOK, LedgerOK
<1>5. CASE SweepWrite(s)
  <2>1. UNCHANGED <<today, stored, ruleFile, txs, txFile, edits, faults, crashes, first,
                    deleted, paused, overlapped, degraded>>
    BY <1>5 DEF SweepWrite, ledger, bounds, ghosts
  <2>2. CASE SweepEnds(s) /\ UNCHANGED heap
    BY <2>1, <2>2, SweepEndsTyped, FlagsStay
       DEF TypedInv, HeldInv, ClockOK, RulesOK, LedgerOK, CountsOK
  <2>3. CASE /\ heap' = [heap EXCEPT ![sweep[s].rule].nextDue = sweep[s].due]
             /\ sweep' = [sweep EXCEPT ![s].pc = "update"] /\ UNCHANGED status
    <3>1. /\ sweep[s].rule \in Objects /\ heap[sweep[s].rule] \in Rule
          /\ sweep[s].due \in 1 .. Blank
      BY <1>0, <1>5, BlankIsLate
         DEF SweepWrite, TypedInv, HeldInv, RulesOK, Sweeping, At, Locals
    <3>2. [heap[sweep[s].rule] EXCEPT !.nextDue = sweep[s].due] \in Rule
      BY <3>1 DEF Rule
    <3>3. /\ heap' \in [Objects -> Rule \cup {Nil}]
          /\ \A o \in Objects : heap[o] # Nil => heap'[o] # Nil
      BY <2>3, <3>1, <3>2, RecurringAssumption DEF TypedInv, RulesOK, Rule
    <3>4. PICK new \in Locals :
            /\ sweep' = [sweep EXCEPT ![s] = new]
            /\ new.pc = "update" /\ new.rule = sweep[s].rule /\ new.due = sweep[s].due
      BY <2>3, RelabelledLocals DEF Labels
    <3>5. Holds(new)
      BY <3>1, <3>4, RecurringAssumption, BlankIsLate DEF Holds, Rule
    <3>6. HeldInv' /\ SweepOK'
      BY <2>1, <3>3, <3>4, <3>5, HeldStays DEF TypedInv, HeldInv, RulesOK
    <3>7. QED
      BY <2>1, <2>3, <3>3, <3>6, FlagsStay
         DEF TypedInv, ClockOK, RulesOK, LedgerOK, CountsOK
  <2>4. QED
    BY <1>5, <2>2, <2>3 DEF SweepWrite
<1>6. CASE SweepUpdate(s)
  <2>1. UNCHANGED <<today, heap, txs, txFile, edits, crashes, first, deleted, paused,
                    overlapped>>
    BY <1>6 DEF SweepUpdate, ledger
  <2>2. sweep[s].rule \in Objects /\ heap[sweep[s].rule] \in Rule
    BY <1>6 DEF SweepUpdate, TypedInv, HeldInv, RulesOK, Sweeping, At
  <2>3. /\ ruleFile' \in Rule \cup {Nil} /\ faults' \in Nat
        /\ degraded' \in {degraded, TRUE} /\ stored' \in {stored, sweep[s].rule}
    <3>1. CASE UNCHANGED <<stored, ruleFile, faults, degraded>>
      BY <3>1 DEF TypedInv, RulesOK, CountsOK
    <3>2. CASE stored' = sweep[s].rule /\ (RuleSaved(heap[sweep[s].rule]) \/ RuleNotSaved)
      BY <2>2, <3>2, SavingIsTyped
    <3>3. QED
      BY <1>6, <3>1, <3>2 DEF SweepUpdate
  <2>4. heap[sweep[s].rule] # Nil
    BY <2>2, RecurringAssumption DEF Rule
  <2>5. HeldInv' /\ SweepOK' /\ status' \in {"down", "starting", "up"}
    BY <1>6, <2>1, <2>3, <2>4, SweepEndsTyped DEF SweepUpdate, TypedInv, HeldInv
  <2>6. FlagsOK'
    BY <2>1, <2>3, FlagsSet DEF TypedInv
  <2>7. QED
    BY <2>1, <2>2, <2>3, <2>5, <2>6 DEF TypedInv, ClockOK, RulesOK, LedgerOK, CountsOK
<1>7. QED
  BY <1>1, <1>2, <1>3, <1>4, <1>5, <1>6 DEF Sweep

LEMMA NextTyped == TypedInv /\ [Next]_vars => TypedInv'
<1> SUFFICES ASSUME TypedInv, [Next]_vars
             PROVE  TypedInv'
  OBVIOUS
<1>1. ASSUME NEW s \in Sweepers, Sweep(s)
      PROVE  TypedInv'
  BY <1>1, SweepIsTyped
<1>2. ASSUME NEW s \in Sweepers, NEW d \in FirstDues, CreateRule(s, d)
      PROVE  TypedInv'
  <2> DEFINE rule == [active |-> TRUE, nextDue |-> d]
  <2>1. UNCHANGED <<status, today, txs, txFile, edits, crashes, deleted, paused, overlapped>>
        /\ first' = d
    BY <1>2 DEF CreateRule, ledger
  <2>2. rule \in Rule /\ d \in 1 .. Blank
    BY RecurringAssumption, BlankIsLate DEF Rule, Days
  <2>3. /\ stored' \in Objects /\ heap' \in [Objects -> Rule \cup {Nil}]
        /\ heap'[NewCell] = rule /\ rule # Nil /\ stored' = NewCell
        /\ \A o \in Objects : heap[o] # Nil => heap'[o] # Nil
    BY <1>2, <2>2, NewRuleIsTyped DEF CreateRule
  <2>4. /\ ruleFile' \in Rule \cup {Nil} /\ faults' \in Nat
        /\ degraded' \in {degraded, TRUE}
    BY <1>2, <2>2, <2>3, SavingIsTyped DEF CreateRule
  <2>5. HeldInv' /\ SweepOK'
    <3>1. CASE sweep' = [sweep EXCEPT ![s].pc = "list"]
      <4>1. PICK new \in Locals : sweep' = [sweep EXCEPT ![s] = new] /\ new.pc = "list"
        BY <3>1, RelabelledLocals DEF Labels
      <4>2. QED
        BY <2>3, <4>1, HeldStays DEF Holds
    <3>2. CASE UNCHANGED sweep
      BY <2>3, <3>2, HeldWithRules
    <3>3. QED
      BY <1>2, <3>1, <3>2 DEF CreateRule
  <2>6. FlagsOK'
    BY <2>1, <2>4, FlagsSet DEF TypedInv
  <2>7. QED
    BY <2>1, <2>2, <2>3, <2>4, <2>5, <2>6
       DEF TypedInv, ClockOK, RulesOK, LedgerOK, CountsOK
<1>3. ASSUME NEW active \in BOOLEAN, EditRule(active)
      PROVE  TypedInv'
  <2>1. /\ UNCHANGED <<status, today, txs, txFile, sweep, crashes, first, deleted, overlapped>>
        /\ stored' = NewCell /\ edits' = edits + 1 /\ stored # Nil
    BY <1>3 DEF EditRule, ledger
  <2>2. PICK next \in {heap[stored].nextDue, Blank} :
            heap' = [heap EXCEPT ![NewCell] = [active |-> active, nextDue |-> next]]
    BY <1>3 DEF EditRule
  <2> DEFINE rule == [active |-> active, nextDue |-> next]
  <2>3. rule \in Rule
    <3>1. heap[stored] \in Rule
      BY <2>1 DEF TypedInv, RulesOK, HeldInv
    <3>2. next \in 1 .. Blank
      BY <2>2, <3>1, RecurringAssumption, BlankIsLate DEF Rule
    <3>3. QED
      BY <3>2 DEF Rule
  <2>4. /\ stored' \in Objects /\ heap' \in [Objects -> Rule \cup {Nil}]
        /\ heap'[NewCell] = rule /\ rule # Nil
        /\ \A o \in Objects : heap[o] # Nil => heap'[o] # Nil
    BY <2>1, <2>2, <2>3, NewRuleIsTyped
  <2>5. RuleSaved(rule) \/ RuleNotSaved
    BY <1>3, <2>4 DEF EditRule
  <2>6. /\ ruleFile' \in Rule \cup {Nil} /\ faults' \in Nat
        /\ degraded' \in {degraded, TRUE}
    BY <2>3, <2>5, SavingIsTyped
  <2>7. paused' \in {TRUE, FALSE}
    BY <1>3, Zenon DEF EditRule
  <2>8. HeldInv' /\ SweepOK'
    BY <2>1, <2>4, HeldWithRules
  <2>9. FlagsOK'
    BY <2>1, <2>6, <2>7, FlagsSet DEF TypedInv
  <2>10. edits' \in Nat
    BY <2>1 DEF TypedInv, CountsOK
  <2>11. QED
    BY <2>1, <2>4, <2>6, <2>8, <2>9, <2>10
       DEF TypedInv, ClockOK, RulesOK, LedgerOK, CountsOK
<1>4. CASE DeleteRule
  <2>1. UNCHANGED <<status, today, heap, txs, txFile, sweep, edits, crashes, first,
                    paused, overlapped>> /\ stored' = Nil
    BY <1>4 DEF DeleteRule, ledger
  <2>2. /\ ruleFile' \in Rule \cup {Nil} /\ faults' \in Nat
        /\ degraded' \in {degraded, TRUE}
    BY <1>4, SavingIsTyped DEF DeleteRule
  <2>3. deleted' \in {deleted, TRUE}
    BY <1>4 DEF DeleteRule
  <2>4. FlagsOK'
    BY <2>1, <2>2, <2>3, FlagsSet DEF TypedInv
  <2>5. HeldInv' /\ SweepOK'
    BY <2>1, HeldWithRules
  <2>6. QED
    BY <2>1, <2>2, <2>4, <2>5 DEF TypedInv, ClockOK, RulesOK, LedgerOK, CountsOK
<1>5. CASE Crash
  <2>1. /\ UNCHANGED <<today, ruleFile, txFile, edits, faults, first, deleted, paused,
                       overlapped>>
        /\ status' = "down" /\ crashes' = crashes + 1 /\ txs' = txFile
        /\ stored' = Nil /\ heap' = [o \in Objects |-> Nil]
        /\ sweep' = [s \in Sweepers |-> Idle]
    BY <1>5 DEF Crash
  <2>2. degraded' \in {degraded, TRUE}
    BY <1>5, Zenon DEF Crash, TypedInv, FlagsOK
  <2>3. FlagsOK'
    BY <2>1, <2>2, FlagsSet DEF TypedInv
  <2>4. SweepOK'
    BY <2>1, IdleIsTyped DEF SweepOK
  <2>5. HeldInv'
    BY <2>1 DEF HeldInv, Sweeping, At, Idle
  <2>6. crashes' \in Nat
    BY <2>1 DEF TypedInv, CountsOK
  <2>7. QED
    BY <2>1, <2>3, <2>4, <2>5, <2>6 DEF TypedInv, ClockOK, RulesOK, LedgerOK, CountsOK
<1>6. CASE Restart
  <2>1. /\ UNCHANGED <<today, ruleFile, txs, txFile, sweep, edits, faults, crashes, first,
                       deleted, paused, overlapped, degraded>>
        /\ status' = "starting"
    BY <1>6 DEF Restart, ledger, bounds, ghosts
  <2>2. CASE UNCHANGED <<stored, heap>>
    <3>1. HeldInv' /\ SweepOK'
      BY <2>1, <2>2, HeldWithRules DEF TypedInv, HeldInv
    <3>2. QED
      BY <2>1, <2>2, <3>1, FlagsStay DEF TypedInv, ClockOK, RulesOK, LedgerOK, CountsOK
  <2>3. CASE /\ ruleFile # Nil /\ stored' = NewCell
             /\ heap' = [heap EXCEPT ![NewCell] = ruleFile]
    <3>1. ruleFile \in Rule
      BY <2>3 DEF TypedInv, RulesOK
    <3>2. /\ stored' \in Objects /\ heap' \in [Objects -> Rule \cup {Nil}]
          /\ heap'[NewCell] = ruleFile
          /\ \A o \in Objects : heap[o] # Nil => heap'[o] # Nil
      BY <2>3, <3>1, NewRuleIsTyped
    <3>3. HeldInv' /\ SweepOK'
      BY <2>1, <2>3, <3>2, HeldWithRules
    <3>4. QED
      BY <2>1, <3>2, <3>3, FlagsStay DEF TypedInv, ClockOK, RulesOK, LedgerOK, CountsOK
  <2>4. QED
    BY <1>6, <2>2, <2>3 DEF Restart
<1>7. CASE Midnight
  <2>1. UNCHANGED <<status, stored, heap, ruleFile, txs, txFile, sweep, edits, faults,
                    crashes, first, deleted, paused, overlapped, degraded>>
    BY <1>7 DEF Midnight, rules, ledger, bounds, ghosts
  <2>2. today' \in Days
    BY <1>7, RecurringAssumption DEF Midnight, TypedInv, ClockOK, Days
  <2>3. HeldInv' /\ SweepOK'
    BY <2>1, HeldWithRules DEF TypedInv, HeldInv
  <2>4. QED
    BY <2>1, <2>2, <2>3, FlagsStay DEF TypedInv, ClockOK, RulesOK, LedgerOK, CountsOK
<1>8. CASE UNCHANGED vars
  <2>1. UNCHANGED <<status, today, stored, heap, ruleFile, txs, txFile, sweep, edits,
                    faults, crashes, first, deleted, paused, overlapped, degraded>>
    BY <1>8 DEF vars, rules, ledger, bounds, ghosts
  <2>2. HeldInv' /\ SweepOK'
    BY <2>1, HeldWithRules DEF TypedInv, HeldInv
  <2>3. QED
    BY <2>1, <2>2, FlagsStay DEF TypedInv, ClockOK, RulesOK, LedgerOK, CountsOK
<1>9. QED
  BY <1>1, <1>2, <1>3, <1>4, <1>5, <1>6, <1>7, <1>8 DEF Next

LEMMA InitTyped == Init => TypedInv
<1> SUFFICES ASSUME Init PROVE TypedInv
  OBVIOUS
<1>1. ClockOK
  BY RecurringAssumption, BlankIsLate DEF Init, ClockOK, Days
<1>2. RulesOK
  BY DEF Init, RulesOK
<1>3. LedgerOK
  BY DEF Init, LedgerOK, Counts
<1>4. SweepOK
  BY IdleIsTyped DEF Init, SweepOK
<1>5. CountsOK
  BY DEF Init, CountsOK
<1>6. FlagsOK
  BY Zenon DEF Init, FlagsOK
<1>7. HeldInv
  BY DEF Init, HeldInv, Sweeping, At, Idle
<1>8. QED
  BY <1>1, <1>2, <1>3, <1>4, <1>5, <1>6, <1>7 DEF TypedInv

\* The rule, the two files and the sweeps are well typed, and what a sweep holds exists.
THEOREM TypeCorrect == Spec => [](TypeOK /\ HeldInv)
<1>1. TypedInv => TypeOK /\ HeldInv
  BY TypedInvTypes DEF TypedInv
<1>2. QED
  BY <1>1, InitTyped, NextTyped, PTL DEF Spec

-----------------------------------------------------------------------------
(* Deletion                                                                *)

\* There is one rule in a behaviour: it is created once, and nothing else brings one.
DeletionInv ==
    /\ stored # Nil \/ ruleFile # Nil \/ deleted => first # Blank
    /\ DeletedStaysDeleted

LEMMA NextDeletion == TypedInv /\ DeletionInv /\ [Next]_vars => DeletionInv'
<1> SUFFICES ASSUME TypedInv, DeletionInv, [Next]_vars
             PROVE  DeletionInv'
  OBVIOUS
<1> USE DEF DeletionInv, DeletedStaysDeleted
<1>1. ASSUME NEW s \in Sweepers, Sweep(s)
      PROVE  DeletionInv'
  <2>1. CASE SweepList(s) \/ SweepNothing(s) \/ SweepRead(s) \/ SweepCreate(s) \/ SweepWrite(s)
    <3>1. UNCHANGED <<stored, ruleFile, first, deleted>>
      BY <2>1 DEF SweepList, SweepNothing, SweepRead, SweepCreate, SweepWrite, rules, ghosts
    <3>2. QED
      BY <3>1
  <2>2. CASE SweepUpdate(s)
    BY <2>2 DEF SweepUpdate, RuleSaved, RuleNotSaved
  <2>3. QED
    BY <1>1, <2>1, <2>2 DEF Sweep
<1>2. ASSUME NEW s \in Sweepers, NEW d \in FirstDues, CreateRule(s, d)
      PROVE  DeletionInv'
  BY <1>2, RecurringAssumption, BlankIsLate DEF CreateRule
<1>3. ASSUME NEW active \in BOOLEAN, EditRule(active)
      PROVE  DeletionInv'
  BY <1>3 DEF EditRule
<1>4. CASE DeleteRule
  BY <1>4 DEF DeleteRule, RuleSaved, RuleNotSaved
<1>5. CASE Crash
  BY <1>5 DEF Crash
<1>6. CASE Restart
  BY <1>6 DEF Restart, ghosts
<1>7. CASE Midnight
  BY <1>7 DEF Midnight, rules, ghosts
<1>8. CASE UNCHANGED vars
  BY <1>8 DEF vars, rules, ghosts
<1>9. QED
  BY <1>1, <1>2, <1>3, <1>4, <1>5, <1>6, <1>7, <1>8 DEF Next

\* A deletion that was reported as done is undone by no sweep and no restart.
THEOREM DeletionIsFinal == Spec => []DeletedStaysDeleted
<1>1. Init => DeletionInv
  BY DEF Init, DeletionInv, DeletedStaysDeleted
<1>2. DeletionInv => DeletedStaysDeleted
  BY DEF DeletionInv
<1>3. QED
  BY <1>1, <1>2, InitTyped, NextTyped, NextDeletion, PTL DEF Spec

-----------------------------------------------------------------------------
(* A rule that was made inactive                                           *)

\* What a paused rule looks like wherever a sweep could take it from, and no sweep is
\* past its look at it; the file never has more than memory.
Inactive(rule) == rule = Nil \/ ~rule.active

PausedInv ==
    /\ \A d \in Days : txFile[d] <= txs[d]
    /\ stored # Nil \/ ruleFile # Nil \/ paused => first # Blank
    /\ paused =>
          /\ stored # Nil => Inactive(heap[stored])
          /\ Inactive(ruleFile)
          /\ \A s \in Sweepers :
                /\ At(s, "idle") \/ At(s, "list") \/ At(s, "read")
                /\ At(s, "read") => Inactive(heap[sweep[s].rule])

LEMMA NextPaused == TypedInv /\ PausedInv /\ [Next]_vars => PausedInv'
<1> SUFFICES ASSUME TypedInv, PausedInv, [Next]_vars
             PROVE  PausedInv'
  OBVIOUS
<1>0. \A s \in Sweepers : sweep[s] \in Locals
  BY DEF TypedInv, SweepOK
<1>1. ASSUME NEW s \in Sweepers, SweepList(s)
      PROVE  PausedInv'
  <2>1. PICK new \in Locals : /\ sweep' = [sweep EXCEPT ![s] = new]
                              /\ new.pc = "read" /\ new.rule = stored
    BY <1>1, SweepListLocals
  <2>2. sweep'[s] = new /\ \A q \in Sweepers \ {s} : sweep'[q] = sweep[q]
    BY <2>1, LocalsAreTyped DEF TypedInv
  <2>3. UNCHANGED <<txs, txFile, stored, heap, ruleFile, paused, first>> /\ stored # Nil
    BY <1>1 DEF SweepList, rules, ledger
  <2>4. QED
    BY <2>1, <2>2, <2>3 DEF PausedInv, At, Inactive
<1>2. ASSUME NEW s \in Sweepers, SweepEnds(s), UNCHANGED <<txs, txFile, heap, paused, first>>,
             stored' = stored, ruleFile' = ruleFile
      PROVE  PausedInv'
  <2>1. sweep'[s].pc = "idle" /\ \A q \in Sweepers \ {s} : sweep'[q] = sweep[q]
    BY <1>2 DEF SweepEnds, Idle, TypedInv, SweepOK
  <2>2. QED
    BY <1>2, <2>1 DEF PausedInv, At, Inactive
<1>3. ASSUME NEW s \in Sweepers, SweepRead(s), ~SweepEnds(s)
      PROVE  PausedInv'
  <2>1. ~Inactive(heap[sweep[s].rule]) /\ At(s, "read")
    BY <1>3 DEF SweepRead, Inactive, TypedInv, HeldInv, Sweeping, At
  <2>2. ~paused /\ UNCHANGED <<txs, txFile, stored, heap, ruleFile, paused, first>>
    BY <1>3, <2>1 DEF PausedInv, SweepRead, rules, ledger, ghosts
  <2>3. QED
    BY <2>2 DEF PausedInv
<1>4. ASSUME NEW s \in Sweepers, SweepCreate(s)
      PROVE  PausedInv'
  <2>1. ~paused /\ UNCHANGED <<stored, ruleFile, paused, first>>
    BY <1>4 DEF PausedInv, SweepCreate, More, At, rules
  <2>2. \A d \in Days : txs[d] \in Nat /\ txFile[d] \in Nat
    BY DEF TypedInv, LedgerOK, Counts
  <2>3. \A d \in Days : txs'[d] >= txs[d]
    BY <1>4, <2>2 DEF SweepCreate, TypedInv, LedgerOK, Counts
  <2>4. txFile' = txs' \/ txFile' = txFile
    BY <1>4 DEF SweepCreate
  <2>5. \A d \in Days : txs'[d] \in Nat
    BY <1>4, NextTyped DEF Next, Sweep, TypedInv, LedgerOK, Counts
  <2>6. \A d \in Days : txFile'[d] <= txs'[d]
    BY <2>2, <2>3, <2>4, <2>5 DEF PausedInv
  <2>7. QED
    BY <2>1, <2>6 DEF PausedInv
<1>5. ASSUME NEW s \in Sweepers, SweepWrite(s), ~(SweepEnds(s) /\ UNCHANGED heap)
      PROVE  PausedInv'
  <2>1. ~paused /\ UNCHANGED <<txs, txFile, stored, ruleFile, paused, first>>
    BY <1>5 DEF PausedInv, SweepWrite, More, At, ledger, ghosts
  <2>2. QED
    BY <2>1 DEF PausedInv
<1>6. ASSUME NEW s \in Sweepers, SweepUpdate(s)
      PROVE  PausedInv'
  <2>1. ~paused /\ UNCHANGED <<txs, txFile, paused, first>>
    BY <1>6 DEF PausedInv, SweepUpdate, At, ledger
  <2>2. stored' # Nil \/ ruleFile' # Nil => stored # Nil \/ ruleFile # Nil
    BY <1>6 DEF SweepUpdate
  <2>3. QED
    BY <2>1, <2>2 DEF PausedInv
<1>7. ASSUME NEW s \in Sweepers, Sweep(s)
      PROVE  PausedInv'
  <2>1. CASE SweepNothing(s)
    BY <1>2, <2>1 DEF SweepNothing, rules, ledger, ghosts
  <2>2. CASE SweepRead(s)
    BY <1>2, <1>3, <2>2 DEF SweepRead, rules, ledger, ghosts
  <2>3. CASE SweepWrite(s)
    BY <1>2, <1>5, <2>3 DEF SweepWrite, ledger, ghosts
  <2>4. QED
    BY <1>1, <1>4, <1>6, <1>7, <2>1, <2>2, <2>3 DEF Sweep
<1>8. ASSUME NEW s \in Sweepers, NEW d \in FirstDues, CreateRule(s, d)
      PROVE  PausedInv'
  <2>1. ~paused /\ UNCHANGED <<txs, txFile, paused>> /\ first' = d
    BY <1>8 DEF PausedInv, CreateRule, ledger
  <2>2. d # Blank
    BY RecurringAssumption, BlankIsLate
  <2>3. QED
    BY <2>1, <2>2 DEF PausedInv
<1>9. ASSUME NEW active \in BOOLEAN, EditRule(active)
      PROVE  PausedInv'
  <2>1. /\ UNCHANGED <<txs, txFile, sweep, first>>
        /\ stored' = NewCell /\ first # Blank
    BY <1>9 DEF EditRule, PausedInv, ledger
  <2>2. CASE ~paused'
    BY <2>1, <2>2 DEF PausedInv
  <2>3. CASE paused'
    <3>1. PICK next \in {heap[stored].nextDue, Blank} :
              heap' = [heap EXCEPT ![NewCell] = [active |-> active, nextDue |-> next]]
      BY <1>9 DEF EditRule
    <3>2. ~active /\ \A s \in Sweepers : ~Sweeping(s)
      BY <1>9, <2>3 DEF EditRule
    <3>3. ruleFile' = heap'[NewCell]
      BY <1>9, <2>3 DEF EditRule, RuleSaved
    <3>4. Inactive(heap'[NewCell])
      BY <3>1, <3>2, NewCellIsFree DEF Inactive, TypedInv, RulesOK
    <3>5. QED
      BY <2>1, <3>2, <3>3, <3>4 DEF PausedInv, Sweeping, At, Inactive
  <2>4. QED
    BY <2>2, <2>3
<1>10. CASE DeleteRule
  <2>1. UNCHANGED <<txs, txFile, heap, sweep, paused, first>> /\ stored' = Nil
    BY <1>10 DEF DeleteRule, ledger
  <2>2. ruleFile' \in {Nil, ruleFile}
    BY <1>10 DEF DeleteRule, RuleSaved, RuleNotSaved
  <2>3. QED
    BY <2>1, <2>2 DEF PausedInv, At, Inactive
<1>11. CASE Crash
  <2>1. /\ UNCHANGED <<ruleFile, txFile, first, paused>> /\ txs' = txFile
        /\ stored' = Nil /\ sweep' = [s \in Sweepers |-> Idle]
    BY <1>11 DEF Crash
  <2>2. \A s \in Sweepers : sweep'[s].pc = "idle"
    BY <2>1 DEF Idle
  <2>3. \A d \in Days : txFile'[d] <= txs'[d]
    BY <2>1 DEF TypedInv, LedgerOK, Counts
  <2>4. QED
    BY <2>1, <2>2, <2>3 DEF PausedInv, At, Inactive
<1>12. CASE Restart
  <2>1. UNCHANGED <<txs, txFile, ruleFile, sweep, first, paused>>
    BY <1>12 DEF Restart, ledger, ghosts
  <2>2. CASE UNCHANGED <<stored, heap>>
    BY <2>1, <2>2 DEF PausedInv, At, Inactive
  <2>3. CASE /\ ruleFile # Nil /\ stored' = NewCell
             /\ heap' = [heap EXCEPT ![NewCell] = ruleFile]
    <3>1. /\ heap'[NewCell] = ruleFile
          /\ \A s \in Sweepers : heap'[sweep[s].rule] = heap[sweep[s].rule]
      BY <2>3, NewCellIsFree DEF TypedInv, RulesOK
    <3>2. QED
      BY <2>1, <2>3, <3>1 DEF PausedInv, At, Inactive
  <2>4. QED
    BY <1>12, <2>2, <2>3 DEF Restart
<1>13. CASE Midnight \/ UNCHANGED vars
  <2>1. UNCHANGED <<stored, heap, ruleFile, txs, txFile, sweep, first, paused>>
    BY <1>13 DEF Midnight, vars, rules, ledger, ghosts
  <2>2. QED
    BY <2>1 DEF PausedInv, At, Inactive
<1>14. QED
  BY <1>7, <1>8, <1>9, <1>10, <1>11, <1>12, <1>13 DEF Next

\* After a rule was made inactive between sweeps, nothing more is generated from it.
THEOREM PausedIsQuiet == Spec => PausedGeneratesNothing
<1>1. Init => PausedInv
  BY DEF Init, PausedInv, Days
<1>2. TypedInv /\ PausedInv /\ [Next]_vars => [paused => \A d \in Days : txs'[d] <= txs[d]]_vars
  <2> SUFFICES ASSUME TypedInv, PausedInv, [Next]_vars, paused, NEW d \in Days
               PROVE  txs'[d] <= txs[d]
    OBVIOUS
  <2>1. txs[d] \in Nat /\ txFile[d] <= txs[d]
    BY DEF TypedInv, LedgerOK, Counts, PausedInv
  <2>2. CASE Crash
    BY <2>1, <2>2 DEF Crash
  <2>3. CASE ~Crash
    <3>1. \A s \in Sweepers : ~SweepCreate(s)
      BY DEF PausedInv, SweepCreate, More, At
    <3>2. UNCHANGED txs
      BY <2>3, <3>1 DEF Next, Sweep, SweepList, SweepNothing, SweepRead, SweepWrite, SweepUpdate,
             CreateRule, EditRule, DeleteRule, Restart, Midnight, ledger, vars
    <3>3. QED
      BY <2>1, <3>2
  <2>4. QED
    BY <2>2, <2>3
<1>3. QED
  BY <1>1, <1>2, InitTyped, NextTyped, NextPaused, PTL DEF Spec, PausedGeneratesNothing

-----------------------------------------------------------------------------
(* No occurrence is skipped                                                *)

LEMMA ProductGrows == ASSUME NEW p \in Nat, NEW j \in Nat, j >= 1 PROVE j * p >= p
  OBVIOUS

\* Two multiples of a period less than a period apart are the same.
LEMMA SameMultiple ==
  ASSUME NEW p \in Nat \ {0}, NEW a \in Nat, NEW b \in Nat,
         a * p <= b * p, b * p < a * p + p
  PROVE  a = b
<1>1. CASE a < b
  <2>1. b - a \in Nat /\ b - a >= 1
    BY <1>1
  <2>2. (b - a) * p >= p
    BY <2>1, ProductGrows
  <2>3. (b - a) * p = b * p - a * p
    OBVIOUS
  <2>4. QED
    BY <2>2, <2>3
<1>2. CASE b < a
  <2>1. a - b \in Nat /\ a - b >= 1
    BY <1>2
  <2>2. (a - b) * p >= p
    BY <2>1, ProductGrows
  <2>3. (a - b) * p = a * p - b * p
    OBVIOUS
  <2>4. QED
    BY <2>2, <2>3
<1>3. QED
  BY <1>1, <1>2

\* A next_due up to which nothing is missing, neither in memory nor on disk.
Covers(n, start, memory, disk) ==
    n # Blank =>
        /\ \E k \in Nat : n = start + k * Period
        /\ \A d \in Days :
              d < n /\ (\E k \in 0 .. MaxToday : d = start + k * Period)
                  => memory[d] >= 1 /\ disk[d] >= 1

\* It holds of every next_due there is: in any struct, current or replaced, in the
\* file, and in the loop of a sweep.
SkipInv ==
    /\ first = Blank => /\ \A o \in Objects : heap[o] = Nil
                        /\ ruleFile = Nil /\ \A s \in Sweepers : ~Sweeping(s)
    /\ \A o \in Objects : heap[o] # Nil => Covers(heap[o].nextDue, first, txs, txFile)
    /\ ruleFile # Nil => Covers(ruleFile.nextDue, first, txs, txFile)
    /\ \A s \in Sweepers :
          Sweeping(s) /\ ~At(s, "read") => Covers(sweep[s].due, first, txs, txFile)

\* What is there stays there.
LedgerGrows ==
    \A d \in Days : txs[d] >= 1 /\ txFile[d] >= 1 => txs'[d] >= 1 /\ txFile'[d] >= 1

LEMMA CoveredStays ==
  ASSUME LedgerGrows, UNCHANGED first, NEW n, Covers(n, first, txs, txFile)
  PROVE  Covers(n, first', txs', txFile')
  BY DEF LedgerGrows, Covers

\* After one occurrence of a covered next_due has been stored, the next one is covered.
LEMMA NextIsCovered ==
  ASSUME TypedInv, NEW due \in Days, Covers(due, first, txs, txFile),
         LedgerGrows, UNCHANGED first,
         txs'[due] >= 1, txFile'[due] >= 1
  PROVE  Covers(advanceDate(due), first', txs', txFile')
<1> USE RecurringAssumption
<1>1. first \in Nat /\ due \in Nat /\ due # Blank
  BY BlankIsLate DEF TypedInv, ClockOK
<1>2. PICK k \in Nat : due = first + k * Period
  BY <1>1 DEF Covers
<1>3. advanceDate(due) = first + (k + 1) * Period
  BY <1>1, <1>2 DEF advanceDate
<1>4. ASSUME NEW d \in Days, d < advanceDate(due),
             NEW j \in 0 .. MaxToday, d = first + j * Period
      PROVE  txs'[d] >= 1 /\ txFile'[d] >= 1
  <2>1. CASE d < due
    BY <1>1, <1>4, <2>1 DEF Covers, LedgerGrows
  <2>2. CASE d >= due
    <3>1. k * Period \in Nat /\ j * Period \in Nat
      BY <1>4
    <3>2. k * Period <= j * Period /\ j * Period < k * Period + Period
      BY <1>1, <1>2, <1>4, <2>2, <3>1 DEF advanceDate
    <3>3. k = j
      BY <1>4, <3>2, SameMultiple
    <3>4. d = due
      BY <1>2, <1>4, <3>3
    <3>5. QED
      BY <3>4
  <2>3. QED
    BY <1>1, <2>1, <2>2 DEF Days
<1>5. \E x \in Nat : advanceDate(due) = first' + x * Period
  <2>1. k + 1 \in Nat
    OBVIOUS
  <2>2. QED
    BY <1>3, <2>1
<1>6. QED
  BY <1>4, <1>5 DEF Covers

\* The rules and the ledger stay; one sweep moves.
LEMMA SkipOfSweep ==
  ASSUME TypedInv, SkipInv, LedgerGrows, UNCHANGED <<first, heap, ruleFile>>,
         NEW s \in Sweepers, NEW new \in Locals, sweep' = [sweep EXCEPT ![s] = new],
         new.pc \in {"idle", "list"} \/ first # Blank,
         new.pc \in {"idle", "list", "read"} \/ Covers(new.due, first', txs', txFile')
  PROVE  SkipInv'
<1>1. sweep'[s] = new /\ \A q \in Sweepers \ {s} : sweep'[q] = sweep[q]
  BY LocalsAreTyped DEF TypedInv
<1>2. \A q \in Sweepers : Sweeping(q)' /\ ~At(q, "read")' =>
          Covers(sweep'[q].due, first', txs', txFile')
  <2> SUFFICES ASSUME NEW q \in Sweepers, Sweeping(q)', ~At(q, "read")'
               PROVE  Covers(sweep'[q].due, first', txs', txFile')
    OBVIOUS
  <2>1. CASE q = s
    <3>1. new.pc \notin {"idle", "list", "read"}
      BY <1>1, <2>1 DEF Sweeping, At
    <3>2. QED
      BY <1>1, <2>1, <3>1
  <2>2. CASE q # s
    <3>1. sweep'[q] = sweep[q] /\ Covers(sweep[q].due, first, txs, txFile)
      BY <1>1, <2>2 DEF SkipInv, Sweeping, At
    <3>2. QED
      BY <3>1, CoveredStays
  <2>3. QED
    BY <2>1, <2>2
<1>3. \A o \in Objects : heap'[o] # Nil => Covers(heap'[o].nextDue, first', txs', txFile')
  BY CoveredStays DEF SkipInv
<1>4. ruleFile' # Nil => Covers(ruleFile'.nextDue, first', txs', txFile')
  BY CoveredStays DEF SkipInv
<1>5. first' = Blank => /\ \A o \in Objects : heap'[o] = Nil
                        /\ ruleFile' = Nil /\ \A q \in Sweepers : ~Sweeping(q)'
  BY <1>1 DEF SkipInv, Sweeping, At
<1>6. QED
  BY <1>2, <1>3, <1>4, <1>5 DEF SkipInv

\* The sweeps and the ledger stay; the rules get covered ones.
LEMMA SkipOfRules ==
  ASSUME TypedInv, SkipInv, LedgerGrows, UNCHANGED first, first # Blank,
         \A s \in Sweepers : sweep'[s] = sweep[s] \/ sweep'[s].pc \in {"idle", "list"},
         \A o \in Objects : heap'[o] # Nil => Covers(heap'[o].nextDue, first', txs', txFile'),
         ruleFile' # Nil => Covers(ruleFile'.nextDue, first', txs', txFile')
  PROVE  SkipInv'
<1>1. ASSUME NEW q \in Sweepers, Sweeping(q)', ~At(q, "read")'
      PROVE  Covers(sweep'[q].due, first', txs', txFile')
  <2>1. sweep'[q] = sweep[q] /\ Covers(sweep[q].due, first, txs, txFile)
    BY <1>1 DEF SkipInv, Sweeping, At
  <2>2. QED
    BY <2>1, CoveredStays
<1>2. QED
  BY <1>1 DEF SkipInv

LEMMA UpdateLocals ==
  ASSUME TypedInv, NEW s \in Sweepers, sweep' = [sweep EXCEPT ![s].pc = "update"]
  PROVE  \E new \in Locals : /\ sweep' = [sweep EXCEPT ![s] = new]
                             /\ new.pc = "update" /\ new.rule = sweep[s].rule
                             /\ new.due = sweep[s].due
  BY RelabelledLocals DEF Labels

LEMMA NextSkip == TypedInv /\ SkipInv /\ [Next]_vars => SkipInv'
<1> SUFFICES ASSUME TypedInv, SkipInv, [Next]_vars
             PROVE  SkipInv'
  OBVIOUS
<1> USE RecurringAssumption
<1>0. UNCHANGED <<txs, txFile>> => LedgerGrows
  BY DEF LedgerGrows
<1>1. ASSUME NEW s \in Sweepers, SweepList(s)
      PROVE  SkipInv'
  <2>1. PICK new \in Locals : sweep' = [sweep EXCEPT ![s] = new] /\ new.pc = "read"
    BY <1>1, SweepListLocals
  <2>2. UNCHANGED <<txs, txFile, heap, ruleFile, first>> /\ stored # Nil
    BY <1>1 DEF SweepList, rules, ledger
  <2>3. first # Blank
    BY <2>2 DEF SkipInv, TypedInv, HeldInv, RulesOK
  <2>4. QED
    BY <1>0, <2>1, <2>2, <2>3, SkipOfSweep
<1>2. ASSUME NEW s \in Sweepers, SweepEnds(s), UNCHANGED <<txs, txFile, heap, ruleFile, first>>
      PROVE  SkipInv'
  <2>1. sweep' = [sweep EXCEPT ![s] = Idle] /\ Idle.pc = "idle"
    BY <1>2 DEF SweepEnds, Idle
  <2>2. QED
    BY <1>0, <1>2, <2>1, IdleIsTyped, SkipOfSweep
<1>3. ASSUME NEW s \in Sweepers, SweepRead(s)
      PROVE  SkipInv'
  <2>1. UNCHANGED <<txs, txFile, heap, ruleFile, first>>
    BY <1>3 DEF SweepRead, rules, ledger, ghosts
  <2>2. CASE SweepEnds(s)
    BY <1>2, <2>1, <2>2
  <2>3. CASE /\ heap[sweep[s].rule].nextDue # Blank
             /\ sweep' = [sweep EXCEPT ![s].pc = "create",
                                       ![s].due = heap[sweep[s].rule].nextDue]
    <3>1. PICK new \in Locals : /\ sweep' = [sweep EXCEPT ![s] = new]
                                /\ new.pc = "create"
                                /\ new.due = heap[sweep[s].rule].nextDue
      BY <1>3, <2>3, SweepReadLocals DEF SweepRead
    <3>2. sweep[s].rule \in Objects /\ heap[sweep[s].rule] # Nil
      BY <1>3 DEF SweepRead, TypedInv, HeldInv, Sweeping, At
    <3>3. Covers(new.due, first', txs', txFile') /\ first # Blank
      BY <2>1, <3>1, <3>2 DEF SkipInv
    <3>4. QED
      BY <1>0, <2>1, <3>1, <3>3, SkipOfSweep
  <2>4. QED
    BY <1>3, <2>2, <2>3 DEF SweepRead
<1>4. ASSUME NEW s \in Sweepers, SweepCreate(s)
      PROVE  SkipInv'
  <2>1. UNCHANGED <<heap, ruleFile, first>> /\ At(s, "create")
    BY <1>4 DEF SweepCreate, More, rules
  <2>2. sweep[s].due \in Days
    BY <1>4, SweepCreateLocals
  <2>3. PICK new \in Locals :
          /\ sweep' = [sweep EXCEPT ![s] = new]
          /\ \/ /\ new.pc = "create" /\ new.due = advanceDate(sweep[s].due)
                /\ txFile' = txs'
             \/ new.pc = "write" /\ new.due = sweep[s].due /\ UNCHANGED txFile
    BY <1>4, SweepCreateLocals
  <2>4. \A d \in Days : txs[d] \in Nat /\ txFile[d] \in Nat
    BY DEF TypedInv, LedgerOK, Counts
  <2>5. /\ \A d \in Days : txs'[d] >= txs[d]
        /\ txs'[sweep[s].due] >= 1 /\ \A d \in Days : txs'[d] \in Nat
    BY <1>4, <2>2, <2>4 DEF SweepCreate, TypedInv, LedgerOK, Counts
  <2>6. LedgerGrows
    BY <2>3, <2>4, <2>5 DEF LedgerGrows
  <2>7. Covers(sweep[s].due, first, txs, txFile) /\ first # Blank
    BY <2>1 DEF SkipInv, Sweeping, At
  <2>8. Covers(new.due, first', txs', txFile')
    <3>1. CASE new.due = sweep[s].due
      BY <2>1, <2>6, <2>7, <3>1, CoveredStays
    <3>2. CASE new.due = advanceDate(sweep[s].due) /\ txFile' = txs'
      BY <2>1, <2>2, <2>5, <2>6, <2>7, <3>2, NextIsCovered
    <3>3. QED
      BY <2>3, <3>1, <3>2
  <2>9. QED
    BY <2>1, <2>3, <2>6, <2>7, <2>8, SkipOfSweep
<1>5. ASSUME NEW s \in Sweepers, SweepWrite(s)
      PROVE  SkipInv'
  <2>1. UNCHANGED <<txs, txFile, ruleFile, first>>
    BY <1>5 DEF SweepWrite, ledger, ghosts
  <2>2. CASE SweepEnds(s) /\ UNCHANGED heap
    BY <1>2, <2>1, <2>2
  <2>3. CASE /\ heap' = [heap EXCEPT ![sweep[s].rule].nextDue = sweep[s].due]
             /\ sweep' = [sweep EXCEPT ![s].pc = "update"]
    <3>1. /\ sweep[s].rule \in Objects /\ heap[sweep[s].rule] \in Rule
          /\ Covers(sweep[s].due, first, txs, txFile) /\ first # Blank
      BY <1>5 DEF SweepWrite, More, TypedInv, HeldInv, RulesOK, SkipInv, Sweeping, At
    <3>2. /\ \A o \in Objects \ {sweep[s].rule} : heap'[o] = heap[o]
          /\ heap'[sweep[s].rule].nextDue = sweep[s].due
      BY <2>3, <3>1 DEF TypedInv, RulesOK, Rule
    <3>3. \A o \in Objects : heap'[o] # Nil => Covers(heap'[o].nextDue, first', txs', txFile')
      BY <2>1, <3>1, <3>2 DEF SkipInv
    <3>4. PICK new \in Locals :
            /\ sweep' = [sweep EXCEPT ![s] = new]
            /\ new.pc = "update" /\ new.rule = sweep[s].rule /\ new.due = sweep[s].due
      BY <2>3, UpdateLocals
    <3>5. sweep'[s] = new /\ \A q \in Sweepers \ {s} : sweep'[q] = sweep[q]
      BY <3>4, LocalsAreTyped DEF TypedInv
    <3>6. \A q \in Sweepers : Sweeping(q)' /\ ~At(q, "read")' =>
              Covers(sweep'[q].due, first', txs', txFile')
      BY <2>1, <3>1, <3>4, <3>5 DEF SkipInv, Sweeping, At
    <3>7. ruleFile' # Nil => Covers(ruleFile'.nextDue, first', txs', txFile')
      BY <2>1 DEF SkipInv
    <3>8. QED
      BY <2>1, <3>1, <3>3, <3>6, <3>7 DEF SkipInv
  <2>4. QED
    BY <1>5, <2>2, <2>3 DEF SweepWrite
<1>6. ASSUME NEW s \in Sweepers, SweepUpdate(s)
      PROVE  SkipInv'
  <2>1. UNCHANGED <<txs, txFile, heap, first>>
    BY <1>6 DEF SweepUpdate, ledger
  <2>2. sweep[s].rule \in Objects /\ heap[sweep[s].rule] # Nil /\ first # Blank
    BY <1>6 DEF SweepUpdate, TypedInv, HeldInv, SkipInv, Sweeping, At
  <2>3. ruleFile' \in {ruleFile, heap[sweep[s].rule]}
    BY <1>6 DEF SweepUpdate, RuleSaved, RuleNotSaved
  <2>4. ruleFile' # Nil => Covers(ruleFile'.nextDue, first', txs', txFile')
    BY <2>1, <2>2, <2>3 DEF SkipInv
  <2>5. \A o \in Objects : heap'[o] # Nil => Covers(heap'[o].nextDue, first', txs', txFile')
    BY <2>1 DEF SkipInv
  <2>6. \A q \in Sweepers : sweep'[q] = sweep[q] \/ sweep'[q].pc \in {"idle", "list"}
    BY <1>6 DEF SweepUpdate, SweepEnds, Idle, TypedInv, SweepOK
  <2>7. QED
    BY <1>0, <2>1, <2>2, <2>4, <2>5, <2>6, SkipOfRules
<1>7. ASSUME NEW s \in Sweepers, Sweep(s)
      PROVE  SkipInv'
  <2>1. CASE SweepNothing(s)
    BY <1>2, <2>1 DEF SweepNothing, rules, ledger, ghosts
  <2>2. QED
    BY <1>1, <1>3, <1>4, <1>5, <1>6, <1>7, <2>1 DEF Sweep
<1>8. ASSUME NEW s \in Sweepers, NEW d \in FirstDues, CreateRule(s, d)
      PROVE  SkipInv'
  <2> DEFINE rule == [active |-> TRUE, nextDue |-> d]
  <2>1. UNCHANGED <<txs, txFile>> /\ first' = d /\ first = Blank
    BY <1>8 DEF CreateRule, ledger
  <2>2. rule \in Rule /\ d # Blank /\ d \in Nat
    BY BlankIsLate DEF Rule, Days
  <2>3. Covers(d, first', txs', txFile')
    <3>1. ASSUME NEW x \in Days, x < d, NEW k \in 0 .. MaxToday, x = d + k * Period
          PROVE  FALSE
      <4>1. k * Period \in Nat
        OBVIOUS
      <4>2. QED
        BY <2>2, <3>1, <4>1 DEF Days
    <3>2. \E k \in Nat : d = d + k * Period
      BY <2>2
    <3>3. QED
      BY <2>1, <3>1, <3>2 DEF Covers
  <2>4. /\ \A o \in Objects \ {NewCell} : heap'[o] = heap[o]
        /\ heap'[NewCell] = rule
    BY <1>8, <2>2, NewRuleIsTyped DEF CreateRule
  <2>5. \A o \in Objects : heap'[o] # Nil => Covers(heap'[o].nextDue, first', txs', txFile')
    BY <2>1, <2>3, <2>4 DEF SkipInv
  <2>6. ruleFile' # Nil => Covers(ruleFile'.nextDue, first', txs', txFile')
    <3>1. ruleFile' \in {ruleFile, rule} /\ ruleFile = Nil
      BY <1>8, <2>1, <2>4 DEF CreateRule, RuleSaved, RuleNotSaved, SkipInv
    <3>2. QED
      BY <2>3, <3>1
  <2>7. \A q \in Sweepers : ~Sweeping(q)'
    <3>1. \A q \in Sweepers : sweep'[q] = sweep[q] \/ sweep'[q].pc = "list"
      <4>1. sweep' = sweep \/ sweep' = [sweep EXCEPT ![s].pc = "list"]
        BY <1>8 DEF CreateRule
      <4>2. QED
        BY <4>1 DEF TypedInv, SweepOK, Locals
    <3>2. QED
      BY <2>1, <3>1 DEF SkipInv, Sweeping, At
  <2>8. QED
    BY <2>1, <2>2, <2>5, <2>6, <2>7 DEF SkipInv
<1>9. ASSUME NEW active \in BOOLEAN, EditRule(active)
      PROVE  SkipInv'
  <2>1. UNCHANGED <<txs, txFile, sweep, first>> /\ stored # Nil /\ stored' = NewCell
    BY <1>9 DEF EditRule, ledger
  <2>2. PICK next \in {heap[stored].nextDue, Blank} :
            heap' = [heap EXCEPT ![NewCell] = [active |-> active, nextDue |-> next]]
    BY <1>9 DEF EditRule
  <2>3. heap[stored] # Nil /\ stored \in Objects
    BY <2>1 DEF TypedInv, HeldInv, RulesOK
  <2>4. Covers(next, first', txs', txFile') /\ first # Blank
    BY <2>1, <2>2, <2>3 DEF SkipInv, Covers
  <2>5. /\ \A o \in Objects \ {NewCell} : heap'[o] = heap[o]
        /\ heap'[NewCell] = [active |-> active, nextDue |-> next]
    BY <2>2, NewCellIsFree DEF TypedInv, RulesOK
  <2>6. \A o \in Objects : heap'[o] # Nil => Covers(heap'[o].nextDue, first', txs', txFile')
    BY <2>1, <2>4, <2>5 DEF SkipInv
  <2>7. ruleFile' \in {ruleFile, heap'[NewCell]}
    BY <1>9 DEF EditRule, RuleSaved, RuleNotSaved
  <2>8. ruleFile' # Nil => Covers(ruleFile'.nextDue, first', txs', txFile')
    BY <2>1, <2>4, <2>5, <2>7 DEF SkipInv
  <2>9. QED
    BY <1>0, <2>1, <2>4, <2>6, <2>8, SkipOfRules
<1>10. CASE DeleteRule
  <2>1. UNCHANGED <<txs, txFile, sweep, first, heap>> /\ stored # Nil
    BY <1>10 DEF DeleteRule, ledger
  <2>2. ruleFile' \in {ruleFile, Nil}
    BY <1>10 DEF DeleteRule, RuleSaved, RuleNotSaved
  <2>3. first # Blank
    BY <2>1 DEF SkipInv, TypedInv, HeldInv, RulesOK
  <2>4. ruleFile' # Nil => Covers(ruleFile'.nextDue, first', txs', txFile')
    BY <2>1, <2>2 DEF SkipInv
  <2>5. \A o \in Objects : heap'[o] # Nil => Covers(heap'[o].nextDue, first', txs', txFile')
    BY <2>1 DEF SkipInv
  <2>6. QED
    BY <1>0, <2>1, <2>3, <2>4, <2>5, SkipOfRules
<1>11. CASE Crash
  <2>1. /\ UNCHANGED <<ruleFile, txFile, first>> /\ txs' = txFile
        /\ heap' = [o \in Objects |-> Nil] /\ sweep' = [s \in Sweepers |-> Idle]
    BY <1>11 DEF Crash
  <2>2. LedgerGrows
    BY <2>1 DEF LedgerGrows
  <2>3. ruleFile' # Nil => Covers(ruleFile'.nextDue, first', txs', txFile')
    BY <2>1, <2>2, CoveredStays DEF SkipInv
  <2>4. \A q \in Sweepers : ~Sweeping(q)'
    BY <2>1 DEF Sweeping, At, Idle
  <2>5. QED
    BY <2>1, <2>3, <2>4 DEF SkipInv
<1>12. CASE Restart
  <2>1. UNCHANGED <<txs, txFile, ruleFile, sweep, first>>
    BY <1>12 DEF Restart, ledger, ghosts
  <2>2. CASE UNCHANGED heap
    BY <2>1, <2>2 DEF SkipInv, Sweeping, At
  <2>3. CASE ruleFile # Nil /\ heap' = [heap EXCEPT ![NewCell] = ruleFile]
    <3>1. /\ \A o \in Objects \ {NewCell} : heap'[o] = heap[o]
          /\ heap'[NewCell] = ruleFile
      BY <2>3, NewCellIsFree DEF TypedInv, RulesOK
    <3>2. first # Blank /\ Covers(ruleFile.nextDue, first, txs, txFile)
      BY <2>3 DEF SkipInv
    <3>3. \A o \in Objects : heap'[o] # Nil => Covers(heap'[o].nextDue, first', txs', txFile')
      BY <2>1, <3>1, <3>2 DEF SkipInv
    <3>4. QED
      BY <1>0, <2>1, <3>2, <3>3, SkipOfRules
  <2>4. QED
    BY <1>12, <2>2, <2>3 DEF Restart
<1>13. CASE Midnight \/ UNCHANGED vars
  <2>1. UNCHANGED <<heap, ruleFile, txs, txFile, sweep, first>>
    BY <1>13 DEF Midnight, vars, rules, ledger, ghosts
  <2>2. QED
    BY <2>1 DEF SkipInv, Sweeping, At
<1>14. QED
  BY <1>7, <1>8, <1>9, <1>10, <1>11, <1>12, <1>13 DEF Next

\* Every scheduled date before the rule's next_due has its transaction, in memory and,
\* for what a restart would load, on disk: sweeps may overlap, writes fail and the
\* server crash.
THEOREM NothingIsSkipped == Spec => []NoOccurrenceSkipped
<1>1. Init => SkipInv
  BY DEF Init, SkipInv, Sweeping, At, Idle
<1>2. TypedInv /\ SkipInv => NoOccurrenceSkipped
  BY DEF TypedInv, RulesOK, HeldInv, SkipInv, Covers, NoOccurrenceSkipped, Scheduled
<1>3. QED
  BY <1>1, <1>2, InitTyped, NextTyped, NextSkip, PTL DEF Spec

-----------------------------------------------------------------------------
(* Each occurrence is generated once                                       *)

\* Nothing is generated yet from a next_due on.
Clean(n, counts) == \A d \in Days : d >= n => counts[d] = 0

\* Without failures memory and file are the same, and hold each occurrence once; a rule
\* that is gone is gone from both.
LedgerInv ==
    /\ txFile = txs /\ \A d \in Days : txs[d] <= 1
    /\ status # "down" /\ stored = Nil => ruleFile = Nil

\* As long as no sweep has generated anything, each next_due that one may read is clean.
RulesInv ==
    (\A s \in Sweepers : sweep[s].created = 0) =>
        /\ stored # Nil => Clean(heap[stored].nextDue, txs)
        /\ ruleFile # Nil => Clean(ruleFile.nextDue, txs)
        /\ \A s \in Sweepers : At(s, "read") => Clean(heap[sweep[s].rule].nextDue, txs)

\* One sweep is at work at most; the date of its loop is clean, and what it puts back.
SweepsInv ==
    /\ \A q, s \in Sweepers : Sweeping(q) /\ Sweeping(s) => q = s
    /\ \A s \in Sweepers :
          /\ ~At(s, "write")
          /\ At(s, "create") \/ At(s, "update") => Clean(sweep[s].due, txs)
          /\ At(s, "update") => heap[sweep[s].rule].nextDue = sweep[s].due

OnceInv ==
    /\ status = "down" => \A s \in Sweepers : At(s, "idle")
    /\ \A s \in Sweepers :
          At(s, "idle") \/ At(s, "list") \/ At(s, "read") => sweep[s].created = 0
    /\ first = Blank => \A d \in Days : txs[d] = 0 /\ txFile[d] = 0
    /\ ~overlapped /\ ~degraded => LedgerInv /\ RulesInv /\ SweepsInv

\* A step of a sweep that is the only one.
LEMMA OnceOfSweep ==
  ASSUME TypedInv, OnceInv, NEW s \in Sweepers, NEW new \in Locals,
         sweep' = [sweep EXCEPT ![s] = new],
         new.pc \in {"idle", "list", "read"} => new.created = 0,
         status' # "down", UNCHANGED first,
         first = Blank => \A d \in Days : txs'[d] = 0 /\ txFile'[d] = 0,
         ~overlapped' /\ ~degraded' =>
             /\ \A q \in Sweepers \ {s} : ~Sweeping(q)
             /\ txFile' = txs' /\ \A d \in Days : txs'[d] <= 1
             /\ stored' = Nil => ruleFile' = Nil
             /\ new.created = 0 =>
                   /\ stored' # Nil => Clean(heap'[stored'].nextDue, txs')
                   /\ ruleFile' # Nil => Clean(ruleFile'.nextDue, txs')
                   /\ new.pc = "read" => Clean(heap'[new.rule].nextDue, txs')
             /\ new.pc # "write"
             /\ new.pc \in {"create", "update"} => Clean(new.due, txs')
             /\ new.pc = "update" => heap'[new.rule].nextDue = new.due
  PROVE  OnceInv'
<1>1. sweep'[s] = new /\ \A q \in Sweepers \ {s} : sweep'[q] = sweep[q]
  BY LocalsAreTyped DEF TypedInv
<1>2. \A q \in Sweepers : At(q, "idle")' \/ At(q, "list")' \/ At(q, "read")' =>
          sweep'[q].created = 0
  BY <1>1 DEF OnceInv, At
<1>3. ASSUME ~overlapped', ~degraded'
      PROVE  LedgerInv' /\ RulesInv' /\ SweepsInv'
  <2>1. \A q \in Sweepers \ {s} : ~Sweeping(q)' /\ ~At(q, "read")'
    BY <1>1, <1>3 DEF Sweeping, At
  <2>2. LedgerInv'
    BY <1>3 DEF LedgerInv
  <2>3. SweepsInv'
    <3>1. \A q, r \in Sweepers : Sweeping(q)' /\ Sweeping(r)' => q = r
      BY <2>1
    <3>2. ASSUME NEW q \in Sweepers
          PROVE  /\ ~At(q, "write")'
                 /\ At(q, "create")' \/ At(q, "update")' => Clean(sweep'[q].due, txs')
                 /\ At(q, "update")' => heap'[sweep'[q].rule].nextDue = sweep'[q].due
      <4>1. CASE q = s
        BY <1>1, <1>3, <4>1 DEF At
      <4>2. CASE q # s
        BY <2>1, <4>2 DEF Sweeping, At
      <4>3. QED
        BY <4>1, <4>2
    <3>3. QED
      BY <3>1, <3>2 DEF SweepsInv
  <2>4. RulesInv'
    <3> SUFFICES ASSUME \A q \in Sweepers : sweep'[q].created = 0
                 PROVE  /\ stored' # Nil => Clean(heap'[stored'].nextDue, txs')
                        /\ ruleFile' # Nil => Clean(ruleFile'.nextDue, txs')
                        /\ \A q \in Sweepers : At(q, "read")' =>
                              Clean(heap'[sweep'[q].rule].nextDue, txs')
      BY DEF RulesInv
    <3>1. new.created = 0
      BY <1>1
    <3>2. ASSUME NEW q \in Sweepers, At(q, "read")'
          PROVE  Clean(heap'[sweep'[q].rule].nextDue, txs')
      <4>1. q = s
        BY <2>1, <3>2
      <4>2. QED
        BY <1>1, <1>3, <3>1, <3>2, <4>1 DEF At
    <3>3. QED
      BY <1>3, <3>1, <3>2
  <2>5. QED
    BY <2>2, <2>3, <2>4
<1>4. QED
  BY <1>2, <1>3 DEF OnceInv

\* When one is at work, the others have generated nothing.
LEMMA OthersAreIdle ==
  ASSUME TypedInv, OnceInv, NEW s \in Sweepers, \A q \in Sweepers \ {s} : ~Sweeping(q)
  PROVE  \A q \in Sweepers \ {s} : sweep[q].created = 0
BY DEF OnceInv, Sweeping, At

\* The day a sweep generates was clean, and what comes after it still is.
LEMMA NextDayIsClean ==
  ASSUME TypedInv, NEW d \in Days, Clean(d, txs), txs' = [txs EXCEPT ![d] = @ + 1]
  PROVE  /\ txs'[d] = 1 /\ Clean(advanceDate(d), txs')
         /\ \A e \in Days \ {d} : txs'[e] = txs[e]
<1>1. txs[d] = 0 /\ d \in Nat /\ Period \in Nat \ {0}
  BY RecurringAssumption, BlankIsLate DEF Clean, Days
<1>2. txs'[d] = 1 /\ \A e \in Days \ {d} : txs'[e] = txs[e]
  BY <1>1 DEF TypedInv, LedgerOK, Counts
<1>3. QED
  BY <1>1, <1>2, BlankIsLate DEF Clean, advanceDate

LEMMA SweepOnce ==
  ASSUME TypedInv, SkipInv, OnceInv, NEW s \in Sweepers, Sweep(s)
  PROVE  OnceInv'
<1>1. ASSUME ~At(s, "idle")
      PROVE  status # "down"
  BY <1>1 DEF OnceInv
<1>2. ASSUME ~overlapped, ~degraded, Sweeping(s)
      PROVE  \A q \in Sweepers \ {s} : ~Sweeping(q)
  BY <1>2 DEF OnceInv, SweepsInv
<1>3. CASE SweepList(s)
  <2>1. PICK new \in Locals : /\ sweep' = [sweep EXCEPT ![s] = new]
                              /\ new.pc = "read" /\ new.rule = stored /\ new.created = 0
    BY <1>3, SweepListLocals
  <2>2. /\ UNCHANGED <<txs, txFile, heap, stored, ruleFile, first, status, degraded>>
        /\ stored # Nil /\ status # "down" /\ (At(s, "idle") \/ At(s, "list"))
        /\ overlapped' = (overlapped \/ \E q \in Sweepers \ {s} : Sweeping(q))
    BY <1>3 DEF SweepList, rules, ledger
  <2>3. ASSUME ~overlapped', ~degraded'
        PROVE  /\ \A q \in Sweepers \ {s} : ~Sweeping(q)
               /\ LedgerInv /\ RulesInv /\ \A q \in Sweepers : sweep[q].created = 0
    BY <2>2, <2>3, OthersAreIdle DEF OnceInv
  <2>4. ASSUME ~overlapped', ~degraded'
        PROVE  /\ txFile' = txs' /\ \A d \in Days : txs'[d] <= 1
               /\ Clean(heap'[stored'].nextDue, txs')
               /\ ruleFile' # Nil => Clean(ruleFile'.nextDue, txs')
    BY <2>2, <2>3, <2>4 DEF LedgerInv, RulesInv
  <2>5. first = Blank => \A d \in Days : txs'[d] = 0 /\ txFile'[d] = 0
    BY <2>2 DEF OnceInv
  <2>6. QED
    BY <2>1, <2>2, <2>3, <2>4, <2>5, OnceOfSweep
<1>4. CASE SweepNothing(s)
  <2>1. /\ SweepEnds(s) /\ (At(s, "list") \/ At(s, "idle")) /\ stored = Nil
        /\ At(s, "list") \/ status # "down"
        /\ UNCHANGED <<txs, txFile, heap, stored, ruleFile, first, overlapped, degraded>>
    BY <1>4 DEF SweepNothing, rules, ledger, ghosts
  <2>2. status # "down" /\ sweep[s].created = 0 /\ status' # "down"
    BY <2>1 DEF OnceInv, At, SweepEnds
  <2>3. sweep' = [sweep EXCEPT ![s] = Idle] /\ Idle.pc = "idle" /\ Idle.created = 0
    BY <2>1 DEF SweepEnds, Idle
  <2>4. sweep'[s] = Idle /\ \A q \in Sweepers \ {s} : sweep'[q] = sweep[q]
    BY <2>3, IdleIsTyped, LocalsAreTyped DEF TypedInv
  <2>5. \A q \in Sweepers : sweep'[q].created = sweep[q].created
    BY <2>2, <2>3, <2>4
  <2>6. ASSUME ~overlapped', ~degraded'
        PROVE  LedgerInv' /\ RulesInv' /\ SweepsInv'
    <3>1. LedgerInv /\ RulesInv /\ SweepsInv
      BY <2>1, <2>6 DEF OnceInv
    <3>2. LedgerInv'
      BY <2>1, <2>2, <3>1 DEF LedgerInv
    <3>3. RulesInv'
      BY <2>1, <2>3, <2>4, <2>5, <3>1 DEF RulesInv, At
    <3>4. SweepsInv'
      BY <2>1, <2>3, <2>4, <3>1 DEF SweepsInv, At, Sweeping
    <3>5. QED
      BY <3>2, <3>3, <3>4
  <2>7. \A q \in Sweepers : At(q, "idle")' \/ At(q, "list")' \/ At(q, "read")' =>
            sweep'[q].created = 0
    BY <2>3, <2>4 DEF OnceInv, At
  <2>8. first' = Blank => \A d \in Days : txs'[d] = 0 /\ txFile'[d] = 0
    BY <2>1 DEF OnceInv
  <2>9. QED
    BY <2>2, <2>6, <2>7, <2>8 DEF OnceInv
<1>5. CASE SweepRead(s)
  <2>1. /\ UNCHANGED <<txs, txFile, heap, stored, ruleFile, first, overlapped, degraded>>
        /\ At(s, "read") /\ Sweeping(s)
    BY <1>5 DEF SweepRead, rules, ledger, ghosts, Sweeping, At
  <2>2. status # "down" /\ sweep[s].created = 0
    BY <2>1 DEF OnceInv, At
  <2>3. ASSUME ~overlapped, ~degraded
        PROVE  \A q \in Sweepers \ {s} : sweep[q].created = 0 /\ ~Sweeping(q)
    BY <1>2, <2>1, <2>3, OthersAreIdle
  <2>4. first = Blank => \A d \in Days : txs'[d] = 0 /\ txFile'[d] = 0
    BY <2>1 DEF OnceInv
  <2>5. ASSUME ~overlapped', ~degraded'
        PROVE  /\ \A q \in Sweepers \ {s} : ~Sweeping(q)
               /\ txFile' = txs' /\ \A d \in Days : txs'[d] <= 1
               /\ stored' = Nil => ruleFile' = Nil
               /\ stored' # Nil => Clean(heap'[stored'].nextDue, txs')
               /\ ruleFile' # Nil => Clean(ruleFile'.nextDue, txs')
               /\ Clean(heap'[sweep[s].rule].nextDue, txs')
    <3>1. LedgerInv /\ RulesInv /\ \A q \in Sweepers : sweep[q].created = 0
      BY <2>1, <2>2, <2>3, <2>5 DEF OnceInv
    <3>2. QED
      BY <2>1, <2>2, <2>3, <2>5, <3>1 DEF LedgerInv, RulesInv
  <2>6. CASE SweepEnds(s)
    <3>1. /\ sweep' = [sweep EXCEPT ![s] = Idle] /\ Idle.pc = "idle" /\ Idle.created = 0
          /\ status' # "down"
      BY <2>2, <2>6 DEF SweepEnds, Idle
    <3>2. QED
      BY <2>1, <2>4, <2>5, <3>1, IdleIsTyped, OnceOfSweep
  <2>7. CASE /\ heap[sweep[s].rule].nextDue # Blank /\ UNCHANGED status
             /\ sweep' = [sweep EXCEPT ![s].pc = "create",
                                       ![s].due = heap[sweep[s].rule].nextDue]
    <3>1. PICK new \in Locals : /\ sweep' = [sweep EXCEPT ![s] = new]
                                /\ new.pc = "create" /\ new.due = heap[sweep[s].rule].nextDue
      BY <2>1, <2>7, SweepReadLocals
    <3>2. QED
      BY <2>1, <2>2, <2>4, <2>5, <2>7, <3>1, OnceOfSweep
  <2>8. QED
    BY <1>5, <2>6, <2>7 DEF SweepRead
<1>6. CASE SweepCreate(s)
  <2>1. /\ UNCHANGED <<heap, stored, ruleFile, first, overlapped, status>>
        /\ At(s, "create") /\ Sweeping(s) /\ sweep[s].due \in Days
        /\ txs' = [txs EXCEPT ![sweep[s].due] = @ + 1]
    BY <1>6, SweepCreateLocals DEF SweepCreate, More, rules, Sweeping, At
  <2>2. PICK new \in Locals :
          /\ sweep' = [sweep EXCEPT ![s] = new]
          /\ \/ /\ new.pc = "create" /\ new.due = advanceDate(sweep[s].due)
                /\ new.created = sweep[s].created + 1
                /\ txFile' = txs' /\ UNCHANGED degraded
             \/ new.pc = "write" /\ degraded'
    BY <1>6, SweepCreateLocals
  <2>3. status' # "down" /\ first # Blank
    BY <1>1, <2>1 DEF SkipInv, At
  <2>4. sweep[s].created \in Nat
    BY RecurringAssumption DEF TypedInv, SweepOK, Locals
  <2>5. ASSUME ~overlapped', ~degraded'
        PROVE  /\ \A q \in Sweepers \ {s} : ~Sweeping(q)
               /\ txFile' = txs' /\ \A d \in Days : txs'[d] <= 1
               /\ stored' = Nil => ruleFile' = Nil
               /\ new.pc = "create" /\ new.created # 0 /\ Clean(new.due, txs')
    <3>1. /\ new.pc = "create" /\ new.due = advanceDate(sweep[s].due)
          /\ new.created = sweep[s].created + 1 /\ txFile' = txs' /\ ~degraded
      BY <2>2, <2>5
    <3>2. LedgerInv /\ Clean(sweep[s].due, txs)
      BY <2>1, <2>5, <3>1 DEF OnceInv, SweepsInv
    <3>3. /\ txs'[sweep[s].due] = 1 /\ Clean(advanceDate(sweep[s].due), txs')
          /\ \A d \in Days \ {sweep[s].due} : txs'[d] = txs[d]
      BY <2>1, <3>2, NextDayIsClean
    <3>4. Clean(new.due, txs')
      BY <3>1, <3>3
    <3>5. \A d \in Days : txs'[d] <= 1
      BY <3>2, <3>3 DEF LedgerInv
    <3>6. QED
      BY <1>2, <2>1, <2>3, <2>4, <2>5, <3>1, <3>2, <3>4, <3>5 DEF LedgerInv
  <2>6. QED
    BY <2>1, <2>2, <2>3, <2>5, OnceOfSweep
<1>7. CASE SweepWrite(s)
  <2>1. /\ UNCHANGED <<txs, txFile, stored, ruleFile, first, overlapped, degraded>>
        /\ At(s, "write") \/ At(s, "create")
    BY <1>7 DEF SweepWrite, More, ledger, bounds, ghosts
  <2>2. Sweeping(s) /\ status # "down"
    BY <1>1, <2>1 DEF Sweeping, At
  <2>3. ASSUME ~overlapped, ~degraded
        PROVE  \A q \in Sweepers \ {s} : sweep[q].created = 0 /\ ~Sweeping(q)
    BY <1>2, <2>2, <2>3, OthersAreIdle
  <2>4. first = Blank => \A d \in Days : txs'[d] = 0 /\ txFile'[d] = 0
    BY <2>1 DEF OnceInv
  <2>5. ASSUME ~overlapped', ~degraded'
        PROVE  /\ \A q \in Sweepers \ {s} : ~Sweeping(q)
               /\ txFile' = txs' /\ \A d \in Days : txs'[d] <= 1
               /\ stored' = Nil => ruleFile' = Nil
               /\ Clean(sweep[s].due, txs')
    <3>1. LedgerInv /\ SweepsInv
      BY <2>1, <2>5 DEF OnceInv
    <3>2. QED
      BY <2>1, <2>2, <2>3, <2>5, <3>1 DEF LedgerInv, SweepsInv
  <2>6. CASE sweep[s].created = 0 /\ SweepEnds(s) /\ UNCHANGED heap
    <3>1. ~overlapped /\ ~degraded => LedgerInv /\ RulesInv
      BY DEF OnceInv
    <3>2. ASSUME ~overlapped', ~degraded'
          PROVE  /\ stored' # Nil => Clean(heap'[stored'].nextDue, txs')
                 /\ ruleFile' # Nil => Clean(ruleFile'.nextDue, txs')
      BY <2>1, <2>3, <2>6, <3>1, <3>2 DEF RulesInv
    <3>3. /\ sweep' = [sweep EXCEPT ![s] = Idle] /\ Idle.pc = "idle" /\ Idle.created = 0
          /\ status' # "down"
      BY <2>2, <2>6 DEF SweepEnds, Idle
    <3>4. QED
      BY <2>1, <2>4, <2>5, <3>2, <3>3, IdleIsTyped, OnceOfSweep
  <2>7. CASE /\ heap' = [heap EXCEPT ![sweep[s].rule].nextDue = sweep[s].due]
             /\ sweep' = [sweep EXCEPT ![s].pc = "update"] /\ UNCHANGED status
             /\ sweep[s].created > 0
    <3>1. PICK new \in Locals :
            /\ sweep' = [sweep EXCEPT ![s] = new]
            /\ new.pc = "update" /\ new.rule = sweep[s].rule /\ new.due = sweep[s].due
            /\ new.created = sweep[s].created
      BY <2>7, RelabelledLocals DEF Labels
    <3>2. sweep[s].rule \in Objects /\ heap[sweep[s].rule] \in Rule
      BY <2>2 DEF TypedInv, HeldInv, RulesOK
    <3>3. heap'[new.rule].nextDue = new.due
      BY <2>7, <3>1, <3>2 DEF TypedInv, RulesOK, Rule
    <3>4. new.created # 0
      BY <2>7, <3>1
    <3>5. QED
      BY <2>1, <2>2, <2>4, <2>5, <2>7, <3>1, <3>3, <3>4, OnceOfSweep
  <2>8. QED
    BY <1>7, <2>6, <2>7 DEF SweepWrite
<1>8. CASE SweepUpdate(s)
  <2>1. /\ UNCHANGED <<txs, txFile, heap, first, overlapped>> /\ SweepEnds(s)
        /\ At(s, "update") /\ Sweeping(s)
    BY <1>8 DEF SweepUpdate, ledger, Sweeping, At
  <2>2. /\ sweep' = [sweep EXCEPT ![s] = Idle] /\ Idle.pc = "idle" /\ Idle.created = 0
        /\ status # "down" /\ status' # "down"
    BY <1>1, <2>1 DEF SweepEnds, Idle, At
  <2>3. /\ sweep[s].rule \in Objects
        /\ \/ UNCHANGED <<ruleFile, degraded>> /\ stored = Nil /\ stored' = Nil
           \/ /\ ruleFile' = heap[sweep[s].rule] /\ UNCHANGED degraded
              /\ stored' = sweep[s].rule
           \/ degraded'
    BY <1>8, <2>1 DEF SweepUpdate, RuleSaved, RuleNotSaved, TypedInv, HeldInv
  <2>4. first = Blank => \A d \in Days : txs'[d] = 0 /\ txFile'[d] = 0
    BY <2>1 DEF OnceInv
  <2>5. ASSUME ~overlapped', ~degraded'
        PROVE  /\ \A q \in Sweepers \ {s} : ~Sweeping(q)
               /\ txFile' = txs' /\ \A d \in Days : txs'[d] <= 1
               /\ stored' = Nil => ruleFile' = Nil
               /\ stored' # Nil => Clean(heap'[stored'].nextDue, txs')
               /\ ruleFile' # Nil => Clean(ruleFile'.nextDue, txs')
    <3>1. ~degraded /\ ~overlapped
      BY <2>1, <2>3, <2>5
    <3>2. LedgerInv /\ heap[sweep[s].rule].nextDue = sweep[s].due /\ Clean(sweep[s].due, txs)
      BY <2>1, <3>1 DEF OnceInv, SweepsInv
    <3>3. sweep[s].rule # Nil
      BY <2>3, RecurringAssumption
    <3>4. QED
      BY <1>2, <2>1, <2>2, <2>3, <2>5, <3>1, <3>2, <3>3 DEF LedgerInv
  <2>6. QED
    BY <2>1, <2>2, <2>4, <2>5, IdleIsTyped, OnceOfSweep
<1>9. QED
  BY <1>3, <1>4, <1>5, <1>6, <1>7, <1>8 DEF Sweep

LEMMA NextOnce == TypedInv /\ SkipInv /\ OnceInv /\ [Next]_vars => OnceInv'
<1> SUFFICES ASSUME TypedInv, SkipInv, OnceInv, [Next]_vars
             PROVE  OnceInv'
  OBVIOUS
<1>1. ASSUME NEW s \in Sweepers, NEW d \in FirstDues, CreateRule(s, d)
      PROVE  OnceInv'
  <2> DEFINE rule == [active |-> TRUE, nextDue |-> d]
  <2>1. /\ UNCHANGED <<txs, txFile, status, overlapped>> /\ status = "up" /\ first = Blank
        /\ first' = d /\ stored' = NewCell /\ At(s, "idle")
        /\ sweep' = sweep \/ sweep' = [sweep EXCEPT ![s].pc = "list"]
        /\ (ruleFile' = heap'[NewCell] /\ UNCHANGED degraded) \/ degraded'
    BY <1>1 DEF CreateRule, ledger, RuleSaved, RuleNotSaved
  <2>2. /\ d \in Days /\ rule \in Rule /\ d # Blank /\ NewCell # Nil
    BY RecurringAssumption, NewCellIsFree, BlankIsLate DEF Rule, Days
  <2>3. heap'[NewCell] = rule
    BY <1>1, <2>2, NewRuleIsTyped DEF CreateRule
  <2>4. ASSUME NEW q \in Sweepers
        PROVE  /\ sweep'[q].pc \in {"idle", "list"} /\ sweep'[q].created = 0
    <3>1. sweep[q].pc \in {"idle", "list"} /\ sweep[q].created = 0
      BY <2>1 DEF SkipInv, OnceInv, Sweeping, At
    <3>2. sweep[q] \in Locals
      BY DEF TypedInv, SweepOK
    <3>3. QED
      BY <2>1, <3>1, <3>2 DEF TypedInv, SweepOK, Locals
  <2>5. \A e \in Days : txs'[e] = 0
    BY <2>1 DEF OnceInv
  <2>6. ASSUME ~overlapped', ~degraded'
        PROVE  LedgerInv' /\ RulesInv' /\ SweepsInv'
    <3>1. ruleFile' = rule /\ txFile' = txs'
      BY <2>1, <2>3, <2>6 DEF OnceInv, LedgerInv
    <3>2. LedgerInv'
      BY <2>1, <2>2, <2>5, <3>1 DEF LedgerInv
    <3>3. RulesInv'
      BY <2>1, <2>4, <2>5 DEF RulesInv, Clean, At
    <3>4. SweepsInv'
      BY <2>4 DEF SweepsInv, Sweeping, At
    <3>5. QED
      BY <3>2, <3>3, <3>4
  <2>7. QED
    BY <2>1, <2>2, <2>4, <2>6 DEF OnceInv, At
<1>2. ASSUME NEW active \in BOOLEAN, EditRule(active)
      PROVE  OnceInv'
  <2>1. /\ UNCHANGED <<txs, txFile, status, sweep, first, overlapped>>
        /\ status = "up" /\ stored # Nil /\ stored' = NewCell
        /\ (ruleFile' = heap'[NewCell] /\ UNCHANGED degraded) \/ degraded'
    BY <1>2 DEF EditRule, ledger, RuleSaved, RuleNotSaved
  <2>2. PICK next \in {heap[stored].nextDue, Blank} :
            heap' = [heap EXCEPT ![NewCell] = [active |-> active, nextDue |-> next]]
    BY <1>2 DEF EditRule
  <2>3. /\ heap'[NewCell] = [active |-> active, nextDue |-> next]
        /\ \A s \in Sweepers : heap'[sweep[s].rule] = heap[sweep[s].rule]
        /\ NewCell # Nil
    BY <2>2, NewCellIsFree, RecurringAssumption DEF TypedInv, RulesOK
  <2>4. ASSUME ~overlapped', ~degraded'
        PROVE  LedgerInv' /\ RulesInv' /\ SweepsInv'
    <3>1. LedgerInv /\ RulesInv /\ SweepsInv /\ ruleFile' = heap'[NewCell]
      BY <2>1, <2>4 DEF OnceInv
    <3>2. LedgerInv'
      BY <2>1, <2>3, <3>1 DEF LedgerInv
    <3>3. Clean(Blank, txs)
      BY BlankIsLate DEF Clean
    <3>4. (\A s \in Sweepers : sweep[s].created = 0) => Clean(next, txs)
      BY <2>1, <2>2, <3>1, <3>3 DEF RulesInv
    <3>5. RulesInv'
      BY <2>1, <2>3, <3>1, <3>4 DEF RulesInv, At
    <3>6. SweepsInv'
      BY <2>1, <2>3, <3>1 DEF SweepsInv, Sweeping, At
    <3>7. QED
      BY <3>2, <3>5, <3>6
  <2>5. QED
    BY <2>1, <2>4 DEF OnceInv, At
<1>3. CASE DeleteRule
  <2>1. /\ UNCHANGED <<txs, txFile, status, sweep, first, heap, overlapped>> /\ stored' = Nil
        /\ (ruleFile' = Nil /\ UNCHANGED degraded) \/ degraded'
    BY <1>3 DEF DeleteRule, ledger, RuleSaved, RuleNotSaved
  <2>2. QED
    BY <2>1 DEF OnceInv, LedgerInv, RulesInv, SweepsInv, Sweeping, At
<1>4. CASE Crash
  <2>1. /\ UNCHANGED <<ruleFile, txFile, first, overlapped>> /\ txs' = txFile
        /\ stored' = Nil /\ status' = "down" /\ sweep' = [s \in Sweepers |-> Idle]
        /\ degraded' = (degraded \/ \E s \in Sweepers : Sweeping(s))
    BY <1>4 DEF Crash
  <2>2. \A s \in Sweepers : sweep'[s].pc = "idle" /\ sweep'[s].created = 0
    BY <2>1 DEF Idle
  <2>3. ASSUME ~overlapped', ~degraded'
        PROVE  LedgerInv' /\ RulesInv' /\ SweepsInv'
    <3>1. LedgerInv /\ RulesInv /\ \A s \in Sweepers : ~Sweeping(s)
      BY <2>1, <2>3 DEF OnceInv
    <3>2. \A s \in Sweepers : sweep[s].created = 0
      BY <3>1 DEF OnceInv, Sweeping
    <3>3. LedgerInv'
      BY <2>1, <3>1 DEF LedgerInv
    <3>4. RulesInv'
      BY <2>1, <2>2, <3>1, <3>2 DEF RulesInv, LedgerInv, At
    <3>5. SweepsInv'
      BY <2>2 DEF SweepsInv, Sweeping, At
    <3>6. QED
      BY <3>3, <3>4, <3>5
  <2>4. QED
    BY <2>1, <2>2, <2>3 DEF OnceInv, At
<1>5. CASE Restart
  <2>1. /\ UNCHANGED <<txs, txFile, ruleFile, sweep, first, overlapped, degraded>>
        /\ status = "down" /\ status' = "starting"
        /\ \/ ruleFile = Nil /\ UNCHANGED <<stored, heap>>
           \/ /\ ruleFile # Nil /\ stored' = NewCell
              /\ heap' = [heap EXCEPT ![NewCell] = ruleFile]
    BY <1>5 DEF Restart, ledger, ghosts
  <2>2. \A s \in Sweepers : At(s, "idle") /\ sweep[s].created = 0
    BY <2>1 DEF OnceInv
  <2>3. NewCell # Nil /\ heap \in [Objects -> Rule \cup {Nil}] /\ NewCell \in Objects
    BY NewCellIsFree, RecurringAssumption DEF TypedInv, RulesOK
  <2>4. ASSUME ~overlapped', ~degraded'
        PROVE  LedgerInv' /\ RulesInv' /\ SweepsInv'
    <3>1. LedgerInv /\ RulesInv
      BY <2>1, <2>4 DEF OnceInv
    <3>2. LedgerInv'
      BY <2>1, <2>3, <3>1 DEF LedgerInv
    <3>3. RulesInv'
      BY <2>1, <2>2, <2>3, <3>1 DEF RulesInv, At
    <3>4. SweepsInv'
      BY <2>1, <2>2 DEF SweepsInv, Sweeping, At
    <3>5. QED
      BY <3>2, <3>3, <3>4
  <2>5. QED
    BY <2>1, <2>4 DEF OnceInv, At
<1>6. CASE Midnight \/ UNCHANGED vars
  <2>1. UNCHANGED <<status, stored, heap, ruleFile, txs, txFile, sweep, first, overlapped,
                    degraded>>
    BY <1>6 DEF Midnight, vars, rules, ledger, ghosts
  <2>2. QED
    BY <2>1 DEF OnceInv, LedgerInv, RulesInv, SweepsInv, Sweeping, At
<1>7. QED
  BY <1>1, <1>2, <1>3, <1>4, <1>5, <1>6, SweepOnce DEF Next

\* As long as sweeps have not overlapped, no write has failed and no crash has cut a sweep
\* short, each occurrence is generated once, however the rule was edited meanwhile.
THEOREM OnceAlone == Spec => []GeneratedOnce
<1>1. Init => SkipInv
  BY DEF Init, SkipInv, Sweeping, At, Idle
<1>2. Init => OnceInv
  BY DEF Init, OnceInv, LedgerInv, RulesInv, SweepsInv, Sweeping, At, Idle
<1>3. OnceInv => GeneratedOnce
  BY DEF OnceInv, LedgerInv, GeneratedOnce
<1>4. QED
  BY <1>1, <1>2, <1>3, InitTyped, NextTyped, NextSkip, NextOnce, PTL DEF Spec
=============================================================================
