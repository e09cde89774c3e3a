---------------------------- MODULE LedgerProofs ----------------------------
(***************************************************************************)
(* Proofs about Ledger, for any transactions, users and bounds.            *)
(***************************************************************************)
EXTENDS Ledger, TLAPS

-----------------------------------------------------------------------------
(* Type correctness, one group of variables at a time                      *)

PageOK ==
    /\ stored \in List /\ user \in Users \cup {None}
    /\ shown \in List
    /\ loading \in BOOLEAN /\ submitting \in BOOLEAN

TimersOK ==
    /\ hidden \subseteq Ids /\ timerOf \in [Ids -> 0..Clicks]
    /\ armed \subseteq Timer
    /\ undone \subseteq Ids /\ sent \subseteq Ids

BoundsOK == clicks \in 0..Clicks /\ failures \in 0..MaxFailures /\ signIns \in 0..MaxSignIns

NetworkOK == changes \subseteq Sending /\ refreshes \subseteq Refresh

TypedInv == PageOK /\ TimersOK /\ BoundsOK /\ NetworkOK

LEMMA TypedInvTypes == TypedInv => TypeOK
  BY DEF TypedInv, TypeOK, PageOK, TimersOK, BoundsOK, NetworkOK

LEMMA PageStays == PageOK /\ UNCHANGED <<stored, user, page, submitting>> => PageOK'
<1> SUFFICES ASSUME PageOK, UNCHANGED <<stored, user, shown, loading, submitting>>
             PROVE  PageOK'
  BY DEF page
<1>1. QED
  BY DEF PageOK

LEMMA TimersStay == TimersOK /\ UNCHANGED <<undo, sent>> => TimersOK'
  BY DEF TimersOK, undo

LEMMA BoundsStay == BoundsOK /\ UNCHANGED bounds => BoundsOK'
  BY DEF BoundsOK, bounds

LEMMA NetworkStays == NetworkOK /\ UNCHANGED <<changes, refreshes>> => NetworkOK'
  BY DEF NetworkOK

LEMMA StartedIsRefresh ==
  ASSUME NEW u \in Users \cup {None}, NEW silent \in BOOLEAN,
         NEW after \in {<<>>} \cup (Operation \X Ids)
  PROVE  Started(u, silent, after) \in Refresh
  BY DEF Started, Refresh

LEMMA SendIsTyped ==
  ASSUME NetworkOK, PageOK, NEW op \in Operation, NEW i \in Ids, Send(op, i),
         UNCHANGED refreshes
  PROVE  NetworkOK'
  BY DEF NetworkOK, PageOK, Send, Sending

LEMMA ClickIsTyped ==
  ASSUME BoundsOK, Click, UNCHANGED <<failures, signIns>>
  PROVE  BoundsOK' /\ clicks' \in 1..Clicks
  BY LedgerAssumption DEF BoundsOK, Click

LEMMA FailureIsTyped ==
  ASSUME BoundsOK, failures < MaxFailures, failures' = failures + 1,
         UNCHANGED <<clicks, signIns>>
  PROVE  BoundsOK'
  BY LedgerAssumption DEF BoundsOK

\* The finally of a handler.
LEMMA SettleIsTyped ==
  ASSUME PageOK, TimersOK, NEW op, NEW i, Settle(op, i)
  PROVE  submitting' \in BOOLEAN /\ hidden' \subseteq Ids /\ hidden' \subseteq hidden
<1>1. submitting \in BOOLEAN
  BY DEF PageOK
<1>2. submitting' \in BOOLEAN
  BY <1>1, Zenon DEF Settle
<1>3. QED
  BY <1>2 DEF Settle, TimersOK

LEMMA SettledIsTyped ==
  ASSUME PageOK, TimersOK, NEW after, Settled(after)
  PROVE  submitting' \in BOOLEAN /\ hidden' \subseteq Ids /\ hidden' \subseteq hidden
<1>1. CASE after = <<>>
  <2>1. submitting \in BOOLEAN /\ submitting' = submitting
    BY <1>1 DEF PageOK, Settled
  <2>2. submitting' \in BOOLEAN
    BY <2>1, Zenon
  <2>3. QED
    BY <1>1, <2>2 DEF TimersOK, Settled
<1>2. CASE after # <<>>
  BY <1>2, SettleIsTyped DEF Settled
<1>3. QED
  BY <1>1, <1>2

LEMMA ServedIsTyped ==
  ASSUME TypedInv, NEW c \in changes, ServeChange(c)
  PROVE  TypedInv'
<1>1. c \in Sending /\ changes \subseteq Sending
  BY DEF TypedInv, NetworkOK
<1>2. PICK a \in {"ok", "refused", "401"} :
          changes' = (changes \ {c}) \cup {[c EXCEPT !.answer = a]}
  BY DEF ServeChange
<1>3. [c EXCEPT !.answer = a] \in Sending
  BY <1>1 DEF Sending
<1>4. NetworkOK'
  BY <1>1, <1>2, <1>3 DEF ServeChange, TypedInv, NetworkOK
<1>5. stored' \in List
  <2>1. stored \in List /\ After(c.op) \in Versions /\ c.id \in Ids
    BY <1>1 DEF TypedInv, PageOK, After, Versions, Sending
  <2>2. stored' \in {stored, [stored EXCEPT ![c.id] = After(c.op)]}
    BY DEF ServeChange
  <2>3. QED
    BY <2>1, <2>2 DEF List
<1>6. UNCHANGED <<user, shown, loading, submitting>>
  BY DEF ServeChange, page
<1>7. PageOK'
  BY <1>5, <1>6 DEF TypedInv, PageOK
<1>8. QED
  BY <1>4, <1>7, TimersStay, BoundsStay DEF ServeChange, TypedInv

LEMMA ReadIsTyped ==
  ASSUME TypedInv, NEW r \in refreshes, Read(r)
  PROVE  TypedInv'
<1>1. r \in Refresh /\ refreshes \subseteq Refresh
  BY DEF TypedInv, NetworkOK
<1>2. Listing(r.by) \in List
  BY DEF Listing, List, Versions, TypedInv, PageOK
<1>3. [r EXCEPT !.list = Listing(r.by)] \in Refresh
  BY <1>1, <1>2 DEF Refresh
<1>4. NetworkOK'
  BY <1>1, <1>3 DEF Read, TypedInv, NetworkOK
<1>5. QED
  BY <1>4, PageStays, TimersStay, BoundsStay DEF Read, TypedInv

\* An answer comes, or is lost: its handler goes on.
LEMMA AnswersAreTyped ==
  ASSUME TypedInv, changes' \subseteq changes, refreshes' \subseteq Refresh,
         user' \in Users \cup {None}, shown' \in List, loading' \in BOOLEAN,
         submitting' \in BOOLEAN, hidden' \subseteq Ids, BoundsOK',
         UNCHANGED <<stored, timerOf, armed, undone, sent>>
  PROVE  TypedInv'
<1>1. PageOK' /\ TimersOK' /\ NetworkOK'
  BY DEF TypedInv, PageOK, TimersOK, NetworkOK
<1>2. QED
  BY <1>1 DEF TypedInv

LEMMA NextTyped == TypedInv /\ [Next]_vars => TypedInv'
<1> SUFFICES ASSUME TypedInv, [Next]_vars
             PROVE  TypedInv'
  OBVIOUS
<1> USE DEF TypedInv
<1>1. CASE Lock
  <2>1. PageOK'
    BY <1>1 DEF Lock, PageOK, page
  <2>2. QED
    BY <1>1, <2>1, TimersStay, BoundsStay, NetworkStays DEF Lock
<1>2. ASSUME NEW u \in Users, SignIn(u)
      PROVE  TypedInv'
  <2>1. PageOK'
    BY <1>2 DEF SignIn, PageOK, page
  <2>2. BoundsOK'
    BY <1>2, LedgerAssumption DEF SignIn, BoundsOK
  <2>3. NetworkOK'
    BY <1>2, StartedIsRefresh DEF SignIn, NetworkOK
  <2>4. QED
    BY <1>2, <2>1, <2>2, <2>3, TimersStay DEF SignIn
<1>3. CASE Poll
  <2>1. NetworkOK'
    BY <1>3, StartedIsRefresh DEF Poll, NetworkOK, PageOK
  <2>2. QED
    BY <1>3, <2>1, PageStays, TimersStay, BoundsStay DEF Poll
<1>4. ASSUME NEW i \in Ids, Create(i)
      PROVE  TypedInv'
  <2>1. submitting' \in BOOLEAN
    BY <1>4, Zenon DEF Create
  <2>2. PageOK'
    BY <1>4, <2>1 DEF Create, PageOK, page
  <2>3. QED
    BY <1>4, <2>2, TimersStay, ClickIsTyped, SendIsTyped DEF Create, Operation
<1>5. ASSUME NEW i \in Ids, Edit(i)
      PROVE  TypedInv'
  BY <1>5, PageStays, TimersStay, ClickIsTyped, SendIsTyped DEF Edit, Operation
<1>6. ASSUME NEW i \in Ids, Delete(i)
      PROVE  TypedInv'
  <2>1. BoundsOK' /\ clicks' \in 1..Clicks
    BY <1>6, ClickIsTyped DEF Delete
  <2>2. TimersOK'
    BY <1>6, <2>1 DEF Delete, TimersOK, Timer
  <2>3. QED
    BY <1>6, <2>1, <2>2, PageStays, NetworkStays DEF Delete
<1>7. ASSUME NEW i \in Ids, Undo(i)
      PROVE  TypedInv'
  <2>1. TimersOK'
    BY <1>7, LedgerAssumption DEF Undo, TimersOK
  <2>2. QED
    BY <1>7, <2>1, PageStays, BoundsStay, NetworkStays DEF Undo
<1>8. ASSUME NEW t \in armed, Fire(t)
      PROVE  TypedInv'
  <2>1. t.id \in Ids
    BY DEF TimersOK, Timer
  <2>2. TimersOK'
    BY <1>8, <2>1, LedgerAssumption DEF Fire, TimersOK
  <2>3. QED
    BY <1>8, <2>1, <2>2, PageStays, BoundsStay, SendIsTyped DEF Fire, Operation
<1>9. ASSUME NEW c \in changes, ServeChange(c)
      PROVE  TypedInv'
  BY <1>9, ServedIsTyped
<1>10. ASSUME NEW c \in changes, ChangeDone(c)
       PROVE  TypedInv'
  <2>1. <<c.op, c.id>> \in Operation \X Ids
    BY DEF NetworkOK, Sending
  <2>2. Started(user, FALSE, <<c.op, c.id>>) \in Refresh
    BY <2>1, StartedIsRefresh DEF PageOK
  <2>3. NetworkOK'
    BY <1>10, <2>2 DEF ChangeDone, NetworkOK
  <2>4. UNCHANGED <<undo, sent, bounds>>
    BY <1>10 DEF ChangeDone, Untouched, undo, bounds
  <2>5. QED
    BY <1>10, <2>3, <2>4, PageStays, TimersStay, BoundsStay DEF ChangeDone
<1>11. ASSUME NEW c \in changes, ChangeRefused(c)
       PROVE  TypedInv'
  <2>1. submitting' \in BOOLEAN /\ hidden' \subseteq Ids
    BY <1>11, SettleIsTyped DEF ChangeRefused
  <2>2. UNCHANGED <<stored, shown, loading, timerOf, armed, undone, sent, bounds, refreshes>>
    BY <1>11 DEF ChangeRefused, Untouched, page, bounds
  <2>3. BoundsOK'
    BY <2>2, BoundsStay
  <2>4. user' \in Users \cup {None} /\ shown' \in List /\ loading' \in BOOLEAN
    BY <1>11, <2>2 DEF ChangeRefused, PageOK
  <2>5. QED
    BY <1>11, <2>1, <2>2, <2>3, <2>4, AnswersAreTyped DEF ChangeRefused, NetworkOK
<1>12. ASSUME NEW c \in changes, ChangeLost(c)
       PROVE  TypedInv'
  <2>1. submitting' \in BOOLEAN /\ hidden' \subseteq Ids
    BY <1>12, SettleIsTyped DEF ChangeLost
  <2>2. UNCHANGED <<stored, user, shown, loading, timerOf, armed, undone, sent, refreshes>>
    BY <1>12 DEF ChangeLost, Untouched, page
  <2>3. BoundsOK'
    BY <1>12, FailureIsTyped DEF ChangeLost, Untouched
  <2>4. user' \in Users \cup {None} /\ shown' \in List /\ loading' \in BOOLEAN
    BY <2>2 DEF PageOK
  <2>5. QED
    BY <1>12, <2>1, <2>2, <2>3, <2>4, AnswersAreTyped DEF ChangeLost, NetworkOK
<1>13. ASSUME NEW r \in refreshes, Apply(r)
       PROVE  TypedInv'
  <2>1. submitting' \in BOOLEAN /\ hidden' \subseteq Ids
    BY <1>13, SettledIsTyped DEF Apply
  <2>2. r \in Refresh /\ r.list # Unread
    BY <1>13 DEF Apply, NetworkOK
  <2>3. shown' \in List
    BY <1>13, <2>2 DEF Apply, Refresh
  <2>4. loading' \in BOOLEAN
    BY <1>13, Zenon DEF Apply
  <2>5. UNCHANGED <<stored, user, timerOf, armed, undone, sent, bounds, changes>>
    BY <1>13 DEF Apply, Untouched, bounds
  <2>6. BoundsOK' /\ user' \in Users \cup {None}
    BY <2>5, BoundsStay DEF PageOK
  <2>7. refreshes' \subseteq Refresh
    BY <1>13 DEF Apply, NetworkOK
  <2>8. QED
    BY <2>1, <2>3, <2>4, <2>5, <2>6, <2>7, AnswersAreTyped
<1>14. ASSUME NEW r \in refreshes, RefreshFails(r)
       PROVE  TypedInv'
  <2>1. submitting' \in BOOLEAN /\ hidden' \subseteq Ids
    BY <1>14, SettledIsTyped DEF RefreshFails
  <2>2. loading' \in BOOLEAN
    BY <1>14, Zenon DEF RefreshFails
  <2>3. UNCHANGED <<stored, shown, timerOf, armed, undone, sent, changes, clicks, signIns>>
    BY <1>14 DEF RefreshFails, Untouched
  <2>4. shown' \in List /\ user' \in Users \cup {None}
    BY <1>14, <2>3 DEF RefreshFails, PageOK
  <2>5. BoundsOK'
    <3>1. CASE UNCHANGED failures
      BY <2>3, <3>1, BoundsStay DEF bounds
    <3>2. CASE failures < MaxFailures /\ failures' = failures + 1
      BY <2>3, <3>2, FailureIsTyped
    <3>3. QED
      BY <1>14, <3>1, <3>2 DEF RefreshFails
  <2>6. refreshes' \subseteq Refresh
    BY <1>14 DEF RefreshFails, NetworkOK
  <2>7. QED
    BY <2>1, <2>2, <2>3, <2>4, <2>5, <2>6, AnswersAreTyped
<1>15. CASE UNCHANGED vars
  <2>1. UNCHANGED <<stored, user, page, submitting>> /\ UNCHANGED <<undo, sent>>
        /\ UNCHANGED bounds /\ UNCHANGED <<changes, refreshes>>
    BY <1>15 DEF vars
  <2>2. QED
    BY <2>1, PageStays, TimersStay, BoundsStay, NetworkStays
<1> HIDE DEF TypedInv
<1>16. CASE \E i \in Ids : Create(i) \/ Edit(i) \/ Delete(i) \/ Undo(i)
  BY <1>4, <1>5, <1>6, <1>7, <1>16
<1>17. CASE \E c \in changes :
               ServeChange(c) \/ ChangeDone(c) \/ ChangeRefused(c) \/ ChangeLost(c)
  BY <1>9, <1>10, <1>11, <1>12, <1>17
<1>18. CASE \E r \in refreshes : Read(r) \/ Apply(r) \/ RefreshFails(r)
  <2>1. ASSUME NEW r \in refreshes, Read(r)
        PROVE  TypedInv'
    BY <2>1, ReadIsTyped
  <2>2. QED
    BY <1>13, <1>14, <1>18, <2>1
<1>19. QED
  BY <1>1, <1>2, <1>3, <1>8, <1>15, <1>16, <1>17, <1>18 DEF Next

LEMMA InitTyped == Init => TypedInv
<1> SUFFICES ASSUME Init PROVE TypedInv
  OBVIOUS
<1>1. loading \in BOOLEAN /\ submitting \in BOOLEAN
  BY Zenon DEF Init
<1>2. PageOK
  BY <1>1 DEF Init, PageOK, List, Versions, Blank
<1>3. TimersOK
  BY LedgerAssumption DEF Init, TimersOK
<1>4. BoundsOK
  BY LedgerAssumption DEF Init, BoundsOK
<1>5. NetworkOK
  BY StartedIsRefresh DEF Init, NetworkOK
<1>6. QED
  BY <1>2, <1>3, <1>4, <1>5 DEF TypedInv

\* The page, its timers and what is under way are well typed, and no bound is passed.
THEOREM TypeCorrect == Spec => []TypeOK
<1>1. QED
  BY InitTyped, NextTyped, TypedInvTypes, PTL DEF Spec

-----------------------------------------------------------------------------
(* Deletions                                                               *)

\* Why a row is hidden: its deletion waits, is under way, or awaits the refresh after it.
Reason(i) ==
    \/ \E t \in armed : t.id = i
    \/ \E c \in changes : c.op = "delete" /\ c.id = i
    \/ \E r \in refreshes : r.after = <<"delete", i>>

\* While no DELETE of a row has been sent, at most the timer the map knows waits for
\* it, the row is hidden and not undone; no handler of a deletion of it is under way.
WaitingInv ==
    \A i \in Ids \ sent :
        /\ \A t \in armed : t.id = i => t.n = timerOf[i] /\ i \in hidden /\ i \notin undone
        /\ \A c \in changes : ~(c.op = "delete" /\ c.id = i)
        /\ \A r \in refreshes : r.after # <<"delete", i>>

HiddenInv == TypedInv /\ HiddenForAReason
UndoInv == TypedInv /\ WaitingInv

\* A served change is the same change, and a refresh that was read waits for the same.
LEMMA ServedIsTheSame ==
  ASSUME TypedInv, NEW c \in changes, ServeChange(c)
  PROVE  \E d : /\ d.op = c.op /\ d.id = c.id
                /\ changes' = (changes \ {c}) \cup {d}
  <1>1. c \in Sending
    BY DEF TypedInv, NetworkOK
  <1>2. PICK a : changes' = (changes \ {c}) \cup {[c EXCEPT !.answer = a]}
    BY DEF ServeChange
  <1>3. QED
    BY <1>1, <1>2 DEF Sending

LEMMA ReadIsTheSame ==
  ASSUME TypedInv, NEW r \in refreshes, Read(r)
  PROVE  \E s : s.after = r.after /\ refreshes' = (refreshes \ {r}) \cup {s}
  <1>1. r \in Refresh
    BY DEF TypedInv, NetworkOK
  <1>2. QED
    BY <1>1 DEF Read, Refresh

\* The end of a handler shows its row, and no other.
LEMMA SettledShows ==
  ASSUME NEW after \in {<<>>} \cup (Operation \X Ids), Settled(after), NEW i
  PROVE  IF after = <<"delete", i>> THEN i \notin hidden' ELSE (i \in hidden' <=> i \in hidden)
<1>1. CASE after = <<>>
  BY <1>1 DEF Settled
<1>2. CASE after \in Operation \X Ids
  <2>1. after # <<>> /\ after = <<after[1], after[2]>>
    BY <1>2
  <2>2. QED
    BY <1>2, <2>1 DEF Settled, Settle
<1>3. QED
  BY <1>1, <1>2

LEMMA SettleShows ==
  ASSUME NEW op, NEW k, Settle(op, k), NEW i
  PROVE  IF op = "delete" /\ i = k THEN i \notin hidden' ELSE (i \in hidden' <=> i \in hidden)
  BY DEF Settle

LEMMA NextHidden == HiddenInv /\ [Next]_vars => HiddenForAReason'
<1> SUFFICES ASSUME HiddenInv, [Next]_vars, NEW i \in hidden'
             PROVE  Reason(i)'
  BY DEF HiddenForAReason, Reason
<1> USE DEF Reason, HiddenInv, HiddenForAReason
<1>1. CASE Lock \/ UNCHANGED vars
  BY <1>1 DEF Lock, undo, vars
<1>2. CASE Poll \/ \E u \in Users : SignIn(u)
  BY <1>2 DEF Poll, SignIn, undo
<1>3. CASE \E k \in Ids : Create(k) \/ Edit(k)
  BY <1>3 DEF Create, Edit, undo, Send
<1>4. ASSUME NEW k \in Ids, Delete(k)
      PROVE  Reason(i)'
  <2>1. [id |-> k, n |-> clicks'] \in armed' /\ armed \subseteq armed'
    BY <1>4 DEF Delete
  <2>2. i = k \/ i \in hidden
    BY <1>4 DEF Delete
  <2>3. CASE i = k
    BY <2>1, <2>3
  <2>4. CASE i \in hidden
    BY <1>4, <2>1, <2>4 DEF Delete
  <2>5. QED
    BY <2>2, <2>3, <2>4
<1>5. ASSUME NEW k \in Ids, Undo(k)
      PROVE  Reason(i)'
  <2>1. i \in hidden /\ i # k
    BY <1>5 DEF Undo
  <2>2. \A t \in armed : t.id = i => t \in armed'
    BY <1>5, <2>1 DEF Undo
  <2>3. QED
    BY <1>5, <2>1, <2>2 DEF Undo
<1>6. ASSUME NEW t \in armed, Fire(t)
      PROVE  Reason(i)'
  <2>1. i \in hidden /\ armed' = armed \ {t} /\ changes \subseteq changes'
        /\ UNCHANGED refreshes
    BY <1>6 DEF Fire, Send
  <2>2. CASE t.id = i
    <3>1. [op |-> "delete", id |-> t.id, by |-> user, answer |-> "none"] \in changes'
      BY <1>6 DEF Fire, Send
    <3>2. QED
      BY <2>2, <3>1
  <2>3. CASE t.id # i
    BY <2>1, <2>3
  <2>4. QED
    BY <2>2, <2>3
<1>7. ASSUME NEW c \in changes, ServeChange(c)
      PROVE  Reason(i)'
  <2>1. UNCHANGED <<hidden, armed, refreshes>>
    BY <1>7 DEF ServeChange, undo
  <2>2. QED
    BY <1>7, <2>1, ServedIsTheSame
<1>8. ASSUME NEW c \in changes, ChangeDone(c)
      PROVE  Reason(i)'
  <2>1. UNCHANGED <<hidden, armed>> /\ changes' = changes \ {c}
        /\ refreshes' = refreshes \cup {Started(user, FALSE, <<c.op, c.id>>)}
    BY <1>8 DEF ChangeDone, Untouched
  <2>2. Started(user, FALSE, <<c.op, c.id>>).after = <<c.op, c.id>>
    BY DEF Started
  <2>3. QED
    BY <2>1, <2>2
<1>9. ASSUME NEW c \in changes, ChangeRefused(c) \/ ChangeLost(c)
      PROVE  Reason(i)'
  <2>1. Settle(c.op, c.id) /\ changes' = changes \ {c} /\ UNCHANGED <<armed, refreshes>>
    BY <1>9 DEF ChangeRefused, ChangeLost, Untouched
  <2>2. i \in hidden /\ ~(c.op = "delete" /\ c.id = i)
    BY <2>1, SettleShows
  <2>3. QED
    BY <2>1, <2>2
<1>10. ASSUME NEW r \in refreshes, Read(r)
       PROVE  Reason(i)'
  <2>1. UNCHANGED <<hidden, armed, changes>>
    BY <1>10 DEF Read, undo
  <2>2. QED
    BY <1>10, <2>1, ReadIsTheSame
<1>11. ASSUME NEW r \in refreshes, Apply(r) \/ RefreshFails(r)
       PROVE  Reason(i)'
  <2>1. r.after \in {<<>>} \cup (Operation \X Ids)
    BY DEF TypedInv, NetworkOK, Refresh
  <2>2. Settled(r.after) /\ refreshes' = refreshes \ {r} /\ UNCHANGED <<armed, changes>>
    BY <1>11 DEF Apply, RefreshFails, Untouched
  <2>3. i \in hidden /\ r.after # <<"delete", i>>
    BY <2>1, <2>2, SettledShows
  <2>4. QED
    BY <2>2, <2>3
<1>12. QED
  BY <1>1, <1>2, <1>3, <1>4, <1>5, <1>6, <1>7, <1>8, <1>9, <1>10, <1>11 DEF Next

\* A row is hidden only as long as its deletion waits, is under way, or awaits the
\* refresh after it.
THEOREM RowsAreHiddenForAReason == Spec => []HiddenForAReason
<1>1. Init => HiddenForAReason
  BY DEF Init, HiddenForAReason
<1>2. HiddenInv /\ [Next]_vars => HiddenInv'
  BY NextHidden, NextTyped DEF HiddenInv
<1>3. Init => HiddenInv
  BY <1>1, InitTyped DEF HiddenInv
<1>4. HiddenInv => HiddenForAReason
  BY DEF HiddenInv
<1>5. QED
  BY <1>2, <1>3, <1>4, PTL DEF Spec

\* The part of WaitingInv about one row.
Waits(i) ==
    /\ \A t \in armed : t.id = i => t.n = timerOf[i] /\ i \in hidden /\ i \notin undone
    /\ \A c \in changes : ~(c.op = "delete" /\ c.id = i)
    /\ \A r \in refreshes : r.after # <<"delete", i>>

LEMMA NextWaits == UndoInv /\ [Next]_vars => WaitingInv'
<1> SUFFICES ASSUME UndoInv, [Next]_vars, NEW i \in Ids, i \notin sent'
             PROVE  Waits(i)'
  BY DEF WaitingInv, Waits
<1>1. i \notin sent
  BY DEF Next, Lock, Poll, SignIn, Create, Edit, Delete, Undo, Fire, ServeChange,
         ChangeDone, ChangeRefused, ChangeLost, Read, Apply, RefreshFails, Untouched, vars
<1>2. Waits(i)
  BY <1>1 DEF UndoInv, WaitingInv, Waits
<1>3. \A t \in armed : t \in Timer
  BY DEF UndoInv, TypedInv, TimersOK
<1> USE DEF Waits
<1>4. CASE Lock \/ UNCHANGED vars
  BY <1>2, <1>4 DEF Lock, undo, vars
<1>5. CASE Poll \/ \E u \in Users : SignIn(u)
  <2>1. PICK u, silent : refreshes' = refreshes \cup {Started(u, silent, <<>>)}
    BY <1>5 DEF Poll, SignIn
  <2>2. UNCHANGED <<undo, changes>>
    BY <1>5 DEF Poll, SignIn
  <2>3. QED
    BY <1>2, <2>1, <2>2 DEF Started, undo
<1>6. CASE \E k \in Ids : Create(k) \/ Edit(k)
  BY <1>2, <1>6 DEF Create, Edit, undo, Send
<1>7. ASSUME NEW k \in Ids, Delete(k)
      PROVE  Waits(i)'
  <2>1. CASE i # k
    BY <1>2, <1>7, <2>1 DEF Delete, UndoInv, TypedInv, TimersOK
  <2>2. CASE i = k
    <3>1. \A t \in armed : t.id # i
      BY <1>2, <1>7, <2>2 DEF Delete, Visible
    <3>2. QED
      BY <1>2, <1>7, <2>2, <3>1 DEF Delete, UndoInv, TypedInv, TimersOK
  <2>3. QED
    BY <2>1, <2>2
<1>8. ASSUME NEW k \in Ids, Undo(k)
      PROVE  Waits(i)'
  <2>1. timerOf' = [timerOf EXCEPT ![k] = 0] /\ timerOf \in [Ids -> 0..Clicks]
    BY <1>8 DEF Undo, UndoInv, TypedInv, TimersOK
  <2>2. CASE i # k
    BY <1>2, <1>8, <2>1, <2>2 DEF Undo
  <2>3. CASE i = k
    <3>1. \A t \in armed : t.id = i => t = [id |-> i, n |-> timerOf[i]]
      BY <1>2, <1>3 DEF Timer
    <3>2. \A t \in armed' : t.id # i
      BY <1>8, <2>3, <3>1 DEF Undo
    <3>3. QED
      BY <1>2, <1>8, <3>2 DEF Undo
  <2>4. QED
    BY <2>2, <2>3
<1>9. ASSUME NEW t \in armed, Fire(t)
      PROVE  Waits(i)'
  <2>1. t.id # i /\ t.id \in Ids /\ timerOf \in [Ids -> 0..Clicks]
    BY <1>3, <1>9 DEF Fire, Timer, UndoInv, TypedInv, TimersOK
  <2>2. timerOf'[i] = timerOf[i]
    BY <1>9, <2>1 DEF Fire
  <2>3. QED
    BY <1>2, <1>9, <2>1, <2>2 DEF Fire, Send
<1>10. ASSUME NEW c \in changes, ServeChange(c)
       PROVE  Waits(i)'
  <2>1. UNCHANGED <<undo, refreshes>>
    BY <1>10 DEF ServeChange
  <2>2. QED
    BY <1>2, <1>10, <2>1, ServedIsTheSame DEF UndoInv, undo
<1>11. ASSUME NEW c \in changes, ChangeDone(c)
       PROVE  Waits(i)'
  <2>1. UNCHANGED <<hidden, timerOf, armed, undone>> /\ changes' = changes \ {c}
        /\ refreshes' = refreshes \cup {Started(user, FALSE, <<c.op, c.id>>)}
    BY <1>11 DEF ChangeDone, Untouched
  <2>2. <<c.op, c.id>> # <<"delete", i>>
    BY <1>2
  <2>3. QED
    BY <1>2, <2>1, <2>2 DEF Started
<1>12. ASSUME NEW c \in changes, ChangeRefused(c) \/ ChangeLost(c)
       PROVE  Waits(i)'
  <2>1. Settle(c.op, c.id) /\ changes' = changes \ {c}
        /\ UNCHANGED <<timerOf, armed, undone, refreshes>>
    BY <1>12 DEF ChangeRefused, ChangeLost, Untouched
  <2>2. i \in hidden' <=> i \in hidden
    BY <1>2, <2>1, SettleShows
  <2>3. QED
    BY <1>2, <2>1, <2>2
<1>13. ASSUME NEW r \in refreshes, Read(r)
       PROVE  Waits(i)'
  <2>1. UNCHANGED <<undo, changes>>
    BY <1>13 DEF Read
  <2>2. QED
    BY <1>2, <1>13, <2>1, ReadIsTheSame DEF UndoInv, undo
<1>14. ASSUME NEW r \in refreshes, Apply(r) \/ RefreshFails(r)
       PROVE  Waits(i)'
  <2>1. r.after \in {<<>>} \cup (Operation \X Ids)
    BY DEF UndoInv, TypedInv, NetworkOK, Refresh
  <2>2. Settled(r.after) /\ refreshes' = refreshes \ {r}
        /\ UNCHANGED <<timerOf, armed, undone, changes>>
    BY <1>14 DEF Apply, RefreshFails, Untouched
  <2>3. i \in hidden' <=> i \in hidden
    BY <1>2, <2>1, <2>2, SettledShows
  <2>4. QED
    BY <1>2, <2>2, <2>3
<1>15. QED
  BY <1>4, <1>5, <1>6, <1>7, <1>8, <1>9, <1>10, <1>11, <1>12, <1>13, <1>14 DEF Next

\* Undo, while the deletion still waits, means that nothing is ever sent, unless a
\* deletion of the same row had been sent before.
THEOREM UndoHolds == Spec => UndoneIsNeverSent
<1>1. Init => UndoInv
  BY InitTyped DEF Init, UndoInv, WaitingInv, Started
<1>2. UndoInv /\ [Next]_vars => UndoInv'
  BY NextWaits, NextTyped DEF UndoInv
<1>3. UndoInv /\ [Next]_vars => [\A i \in undone \ sent : i \notin sent']_vars
  <2> SUFFICES ASSUME UndoInv, [Next]_vars, NEW i \in undone, i \notin sent
               PROVE  i \notin sent'
    OBVIOUS
  <2>1. i \in Ids
    BY DEF UndoInv, TypedInv, TimersOK
  <2>2. ASSUME NEW t \in armed, Fire(t)
        PROVE  i \notin sent'
    BY <2>1, <2>2 DEF Fire, UndoInv, WaitingInv
  <2>3. (\E t \in armed : Fire(t)) \/ UNCHANGED sent
    BY DEF Next, Lock, Poll, SignIn, Create, Edit, Delete, Undo, ServeChange,
           ChangeDone, ChangeRefused, ChangeLost, Read, Apply, RefreshFails, Untouched, vars
  <2>4. QED
    BY <2>2, <2>3
<1>4. QED
  BY <1>1, <1>2, <1>3, PTL DEF Spec, UndoneIsNeverSent
=============================================================================
