------------------------- MODULE BudgetHistoryProofs -------------------------
(***************************************************************************)
(* Proofs about BudgetHistory: for any limits and any number of months, a  *)
(* month is always compared against the limit that was in effect in it.    *)
(***************************************************************************)
EXTENDS BudgetHistory, TLAPS

\* The limit the loop of limitAtMonth ends with once it has taken k entries.
AfterTaking(b, k) == IF k = 0 THEN b.monthlyLimit ELSE b.history[k].limit

\* The loop stops at one place only, and with limit l.
Shows(b, m, l) ==
    \E k \in 0 .. Len(b.history) : Takes(b.history, m, k) /\ l = AfterTaking(b, k)

\* The first entry of a history is no later than the first known month.
StartsInTime ==
    budget # Nil /\ budget.history # <<>> => budget.history[1].month <= since

\* The inductive invariant: PastMonthsKeepTheirLimit with the place where the
\* loop stops made explicit, so that no step has to find it again.
HistoryInv ==
    /\ TypeOK
    /\ HistoryIsSorted
    /\ since <= month
    /\ StartsInTime
    /\ budget # Nil => \A m \in since .. month : Shows(budget, m, inEffect[m])

-----------------------------------------------------------------------------
LEMMA MonthsAreNumbers == /\ Months \subseteq Nat \ {0} /\ 1 \in Months
                          /\ \A c \in Change : c.month \in Nat /\ c.limit \in Limits
                          /\ \A m \in Months, l \in Limits :
                                [month |-> m, limit |-> l] \in Change
                          /\ \A l \in Limits : [month |-> 0, limit |-> l] \in Change
BY BudgetAssumption DEF Months, Change, Beginning

LEMMA EntriesAreChanges ==
    ASSUME NEW h \in Seq(Change)
    PROVE  /\ Len(h) \in Nat /\ h # <<>> => Len(h) >= 1
           /\ \A i \in 1 .. Len(h) :
                 h[i] \in Change /\ h[i].month \in Nat /\ h[i].limit \in Limits
<1>1. Len(h) \in Nat /\ (h # <<>> => Len(h) >= 1) /\ \A i \in 1 .. Len(h) : h[i] \in Change
  OBVIOUS
<1> QED
  BY <1>1, MonthsAreNumbers

LEMMA BudgetParts ==
    ASSUME NEW b \in Budget
    PROVE  b.monthlyLimit \in Limits /\ b.history \in Seq(Change)
BY DEF Budget

\* What the invariant says of the types of things, in the form the steps need.
LEMMA InvariantTypes ==
    ASSUME HistoryInv
    PROVE  /\ month \in Months /\ month \in Nat /\ month >= 1
           /\ since \in Months /\ since \in Nat /\ since >= 1 /\ since <= month
           /\ inEffect \in [Months -> Limits]
           /\ budget # Nil => /\ budget \in Budget /\ budget.monthlyLimit \in Limits
                              /\ budget.history \in Seq(Change)
           /\ \A m \in since .. month : m \in Months /\ m \in Int
BY BudgetAssumption, MonthsAreNumbers, BudgetParts DEF HistoryInv, TypeOK, Months

LEMMA StopsAtOnePlace ==
    ASSUME NEW h \in Seq(Change), NEW m \in Int,
           NEW j \in 0 .. Len(h), NEW k \in 0 .. Len(h),
           Takes(h, m, j), Takes(h, m, k)
    PROVE  j = k
<1>0. Len(h) \in Nat /\ \A i \in 1 .. Len(h) : h[i].month \in Int
  BY EntriesAreChanges
<1>1. ~(j < k)
  <2> SUFFICES ASSUME j < k PROVE FALSE
    OBVIOUS
  <2>1. j + 1 \in 1 .. k /\ j + 1 \in 1 .. Len(h) /\ j < Len(h)
    BY <1>0
  <2> QED
    BY <1>0, <2>1 DEF Takes
<1>2. ~(k < j)
  <2> SUFFICES ASSUME k < j PROVE FALSE
    OBVIOUS
  <2>1. k + 1 \in 1 .. j /\ k + 1 \in 1 .. Len(h) /\ k < Len(h)
    BY <1>0
  <2> QED
    BY <1>0, <2>1 DEF Takes
<1> QED
  BY <1>1, <1>2

LEMMA LimitAtMonthShows ==
    ASSUME NEW b \in Budget, NEW m \in Int, NEW l, Shows(b, m, l)
    PROVE  limitAtMonth(b, m) = l
<1>1. PICK k \in 0 .. Len(b.history) : Takes(b.history, m, k) /\ l = AfterTaking(b, k)
  BY DEF Shows
<1>2. (CHOOSE n \in 0 .. Len(b.history) : Takes(b.history, m, n)) = k
  <2> DEFINE n == CHOOSE x \in 0 .. Len(b.history) : Takes(b.history, m, x)
  <2>1. n \in 0 .. Len(b.history) /\ Takes(b.history, m, n)
    BY <1>1
  <2>2. b.history \in Seq(Change)
    BY BudgetParts
  <2> QED
    BY <1>1, <2>1, <2>2, StopsAtOnePlace
<1> QED
  BY <1>1, <1>2 DEF limitAtMonth, AfterTaking

LEMMA InvariantImplies == HistoryInv => PastMonthsKeepTheirLimit
<1> SUFFICES ASSUME HistoryInv, budget # Nil, NEW m \in since .. month
             PROVE  limitAtMonth(budget, m) = inEffect[m]
  BY DEF PastMonthsKeepTheirLimit
<1>1. budget \in Budget /\ m \in Int /\ Shows(budget, m, inEffect[m])
  BY MonthsAreNumbers DEF HistoryInv, TypeOK
<1> QED
  BY <1>1, LimitAtMonthShows

-----------------------------------------------------------------------------
\* A budget whose history is empty shows its limit in every month.
LEMMA EmptyHistoryShows ==
    ASSUME NEW l \in Limits, NEW m \in Int
    PROVE  Shows([monthlyLimit |-> l, history |-> <<>>], m, l)
BY DEF Shows, Takes, AfterTaking

\* A sorted history shows its last entry in every month from that entry's on.
LEMMA LastEntryShows ==
    ASSUME NEW b \in Budget, NEW m \in Int, b.history # <<>>,
           \A i \in 1 .. Len(b.history) : b.history[i].month <= m
    PROVE  Shows(b, m, b.history[Len(b.history)].limit)
<1>1. Len(b.history) \in Nat \ {0}
  BY BudgetParts, EntriesAreChanges
<1>2. Takes(b.history, m, Len(b.history))
  BY <1>1 DEF Takes
<1> QED
  BY <1>1, <1>2 DEF Shows, AfterTaking

LEMMA InitEstablishes == Init => HistoryInv
<1> SUFFICES ASSUME Init PROVE HistoryInv
  OBVIOUS
<1>1. PICK l \in Limits : inEffect = [m \in Months |-> l]
  BY DEF Init
<1>2. TypeOK /\ since <= month
  <2>1. inEffect[1] = l /\ inEffect \in [Months -> Limits]
    BY <1>1, MonthsAreNumbers
  <2>2. [monthlyLimit |-> l, history |-> <<>>] \in Budget
    BY DEF Budget
  <2> QED
    BY <2>1, <2>2, MonthsAreNumbers DEF Init, TypeOK
<1>3. CASE budget = Nil
  BY <1>2, <1>3 DEF HistoryInv, HistoryIsSorted, StartsInTime
<1>4. CASE budget = [monthlyLimit |-> l, history |-> <<>>]
  <2>1. \A m \in since .. month : Shows(budget, m, inEffect[m])
    BY <1>1, <1>4, MonthsAreNumbers, EmptyHistoryShows DEF Init
  <2> QED
    BY <1>2, <1>4, <2>1 DEF HistoryInv, HistoryIsSorted, StartsInTime
<1> QED
  BY <1>1, <1>3, <1>4, MonthsAreNumbers DEF Init

-----------------------------------------------------------------------------
\* recordLimitChange on a sorted history that ends with the limit in force:
\* the result is sorted and ends with the new limit; the earlier months are
\* shown what they were, and the current one the new limit.
LEMMA RecordLimitChange ==
    ASSUME HistoryInv, budget # Nil, NEW limit \in Limits,
           limit # budget.monthlyLimit,
           NEW new, new = recordLimitChange(budget.history, budget.monthlyLimit, limit)
    PROVE  /\ new \in Seq(Change) /\ new # <<>>
           /\ \A i, j \in 1 .. Len(new) : i < j => new[i].month < new[j].month
           /\ \A i \in 1 .. Len(new) : new[i].month <= month
           /\ new[Len(new)].limit = limit
           /\ new[1].month <= since \/ since = month
           /\ \A m \in since .. month - 1 :
                 \E k \in 1 .. Len(new) : Takes(new, m, k) /\ new[k].limit = inEffect[m]
<1> DEFINE old == budget.history
           full == IF old = <<>>
                     THEN <<[month |-> 0, limit |-> budget.monthlyLimit]>> ELSE old
           last == Len(full)
<1>1. /\ old \in Seq(Change) /\ budget \in Budget /\ budget.monthlyLimit \in Limits
      /\ month \in Nat /\ since \in Nat /\ month \in Months /\ since >= 1
      /\ since <= month
      /\ \A i, j \in 1 .. Len(old) : i < j => old[i].month < old[j].month
      /\ \A i \in 1 .. Len(old) : old[i].month <= month
      /\ old # <<>> => old[1].month <= since
      /\ \A m \in since .. month : Shows(budget, m, inEffect[m])
  BY BudgetParts, MonthsAreNumbers DEF HistoryInv, TypeOK, HistoryIsSorted, StartsInTime
<1>2. /\ full \in Seq(Change) /\ last \in Nat /\ last >= 1
      /\ \A i \in 1 .. last : full[i] \in Change /\ full[i].month \in Nat
      /\ \A i, j \in 1 .. last : i < j => full[i].month < full[j].month
      /\ \A i \in 1 .. last : full[i].month <= month
      /\ full[1].month <= since
  <2>1. CASE old = <<>>
    <3>1. full = <<[month |-> 0, limit |-> budget.monthlyLimit]>>
      BY <2>1
    <3>2. [month |-> 0, limit |-> budget.monthlyLimit] \in Change
      BY <1>1, MonthsAreNumbers
    <3>3. full \in Seq(Change) /\ last = 1 /\ full[1].month = 0
      BY <3>1, <3>2
    <3> QED
      BY <1>1, <3>3, EntriesAreChanges
  <2>2. CASE old # <<>>
    <3>1. full = old
      BY <2>2
    <3> HIDE DEF full
    <3> QED
      BY <1>1, <2>2, <3>1, EntriesAreChanges
  <2> QED
    BY <2>1, <2>2
<1>3. ASSUME NEW m \in since .. month
      PROVE  \E k \in 1 .. last : Takes(full, m, k) /\ full[k].limit = inEffect[m]
  <2>1. PICK k \in 0 .. Len(old) : Takes(old, m, k) /\ inEffect[m] = AfterTaking(budget, k)
    BY <1>1, <1>3 DEF Shows
  <2>2. CASE old = <<>>
    <3>1. k = 0 /\ last = 1 /\ full[1].month = 0 /\ full[1].limit = inEffect[m]
      BY <2>1, <2>2 DEF AfterTaking
    <3>2. Takes(full, m, 1)
      BY <1>1, <3>1 DEF Takes
    <3> QED
      BY <3>1, <3>2
  <2>3. CASE old # <<>>
    <3>1. full = old
      BY <2>3
    <3>2. k # 0
      BY <1>1, <1>2, <2>1, <3>1 DEF Takes
    <3> QED
      BY <2>1, <3>1, <3>2 DEF AfterTaking
  <2> QED
    BY <2>2, <2>3
<1>4. CASE full[last].month = month
  <2>1. new = [full EXCEPT ![last].limit = limit]
    BY <1>4 DEF recordLimitChange, Beginning, full
  <2>2. /\ new \in Seq(Change) /\ Len(new) = last /\ new[last].limit = limit
        /\ \A i \in 1 .. last : new[i].month = full[i].month
        /\ \A i \in 1 .. last : i # last => new[i] = full[i]
    <3> HIDE DEF full, last
    <3>1. last \in 1 .. last /\ full[last] \in Change /\ full[last].month \in Months
      BY <1>1, <1>2, <1>4
    <3>2. [full[last] EXCEPT !.limit = limit] = [month |-> month, limit |-> limit]
      BY <1>4, <3>1 DEF Change
    <3>3. [month |-> month, limit |-> limit] \in Change
      BY <1>1, MonthsAreNumbers
    <3>4. new = [full EXCEPT ![last] = [month |-> month, limit |-> limit]]
      BY <2>1, <3>2
    <3>5. new \in Seq(Change) /\ Len(new) = last
      BY <1>2, <3>1, <3>3, <3>4 DEF last
    <3>6. /\ \A i \in 1 .. last : i # last => new[i] = full[i]
          /\ new[last] = [month |-> month, limit |-> limit]
      BY <1>2, <3>1, <3>4 DEF last
    <3> QED
      BY <1>4, <3>5, <3>6
  <2>3. ASSUME NEW m \in since .. month - 1
        PROVE  \E k \in 1 .. Len(new) : Takes(new, m, k) /\ new[k].limit = inEffect[m]
    <3>1. PICK k \in 1 .. last : Takes(full, m, k) /\ full[k].limit = inEffect[m]
      BY <1>1, <1>3
    <3>2. k # last
      BY <1>1, <1>2, <1>4, <3>1 DEF Takes
    <3>3. Takes(new, m, k)
      BY <1>2, <2>2, <3>1 DEF Takes
    <3> QED
      BY <2>2, <3>1, <3>2, <3>3
  <2> HIDE DEF full, last
  <2>4. \A i, j \in 1 .. Len(new) : i < j => new[i].month < new[j].month
    BY <1>2, <2>2
  <2>5. new # <<>> /\ new[1].month <= since /\ \A i \in 1 .. Len(new) : new[i].month <= month
    BY <1>2, <2>2
  <2> QED
    BY <2>2, <2>3, <2>4, <2>5
<1>5. CASE full[last].month # month
  <2>1. new = Append(full, [month |-> month, limit |-> limit])
    BY <1>5 DEF recordLimitChange, Beginning, full
  <2>2. /\ new \in Seq(Change) /\ Len(new) = last + 1
        /\ new[last + 1].limit = limit /\ new[last + 1].month = month
        /\ \A i \in 1 .. last : new[i] = full[i]
    <3> HIDE DEF full
    <3>1. [month |-> month, limit |-> limit] \in Change
      BY <1>1, MonthsAreNumbers
    <3> QED
      BY <1>2, <2>1, <3>1
  <2>3. \A i \in 1 .. last : full[i].month < month
    BY <1>1, <1>2, <1>5
  <2>4. ASSUME NEW m \in since .. month - 1
        PROVE  \E k \in 1 .. Len(new) : Takes(new, m, k) /\ new[k].limit = inEffect[m]
    <3>1. PICK k \in 1 .. last : Takes(full, m, k) /\ full[k].limit = inEffect[m]
      BY <1>1, <1>3
    <3>2. Takes(new, m, k)
      <4> HIDE DEF full, last
      <4>1. k \in 0 .. Len(new) /\ \A i \in 1 .. k : new[i].month <= m
        BY <1>2, <2>2, <3>1 DEF Takes
      <4>2. new[k + 1].month > m
        <5>1. CASE k = last
          BY <1>1, <2>2, <5>1
        <5>2. CASE k # last
          <6>1. k + 1 \in 1 .. last /\ k < last
            BY <1>2, <5>2
          <6>2. full[k + 1].month > m
            BY <3>1, <6>1 DEF Takes, last
          <6> QED
            BY <2>2, <6>1, <6>2
        <5> QED
          BY <5>1, <5>2
      <4> QED
        BY <4>1, <4>2 DEF Takes
    <3> QED
      BY <1>2, <2>2, <3>1, <3>2
  <2> HIDE DEF full, last
  <2>5. \A i, j \in 1 .. Len(new) : i < j => new[i].month < new[j].month
    <3> SUFFICES ASSUME NEW i \in 1 .. Len(new), NEW j \in 1 .. Len(new), i < j
                 PROVE  new[i].month < new[j].month
      OBVIOUS
    <3>1. i \in 1 .. last
      BY <1>2, <2>2
    <3>2. CASE j = last + 1
      BY <2>2, <2>3, <3>1, <3>2
    <3>3. CASE j # last + 1
      BY <1>2, <2>2, <3>1, <3>3
    <3> QED
      BY <3>2, <3>3
  <2>6. new # <<>> /\ new[1].month <= since /\ \A i \in 1 .. Len(new) : new[i].month <= month
    <3>1. \A i \in 1 .. Len(new) : i \in 1 .. last \/ i = last + 1
      BY <1>2, <2>2
    <3>2. \A i \in 1 .. Len(new) : new[i].month <= month
      BY <1>1, <1>2, <2>2, <3>1
    <3>3. 1 \in 1 .. last /\ new[1] = full[1] /\ new # <<>>
      BY <1>2, <2>2
    <3> QED
      BY <1>2, <3>2, <3>3
  <2> QED
    BY <2>2, <2>4, <2>5, <2>6
<1> QED
  BY <1>4, <1>5

-----------------------------------------------------------------------------
LEMMA CreatePreserves ==
    ASSUME HistoryInv, NEW limit \in Limits, CreateBudget(limit)
    PROVE  HistoryInv'
<1> DEFINE h == <<[month |-> month, limit |-> limit]>>
<1>1. /\ month \in Months /\ month' = month /\ since' = month
      /\ budget' = [monthlyLimit |-> limit, history |-> h] /\ budget' \in Budget
      /\ h \in Seq(Change) /\ Len(h) = 1 /\ h[1] = [month |-> month, limit |-> limit]
      /\ inEffect' = [inEffect EXCEPT ![month] = limit]
      /\ inEffect \in [Months -> Limits]
  <2>1. month \in Months /\ inEffect \in [Months -> Limits]
    BY InvariantTypes
  <2>2. [month |-> month, limit |-> limit] \in Change
    BY <2>1, MonthsAreNumbers
  <2>3. h \in Seq(Change) /\ Len(h) = 1 /\ h[1] = [month |-> month, limit |-> limit]
    BY <2>2
  <2>4. [monthlyLimit |-> limit, history |-> h] \in Budget
    BY <2>3 DEF Budget
  <2> QED
    BY <2>1, <2>3, <2>4 DEF CreateBudget
<1> HIDE DEF h
<1>2. TypeOK' /\ HistoryIsSorted' /\ StartsInTime'
  <2>1. /\ month \in Nat /\ budget'.history = h /\ budget'.monthlyLimit = limit
        /\ h[1].month = month /\ h[1].limit = limit /\ h # <<>>
        /\ \A i \in 1 .. Len(h) : i = 1
    BY <1>1, InvariantTypes
  <2>2. TypeOK'
    BY <1>1 DEF TypeOK
  <2>3. HistoryIsSorted' /\ StartsInTime'
    <3>1. \A i, j \in 1 .. Len(h) : ~(i < j)
      BY <1>1
    <3>2. StartsInTime'
      BY <1>1, <2>1 DEF StartsInTime
    <3>3. (\A i \in 1 .. Len(h) : h[i].month <= month) /\ h[Len(h)].limit = limit
      BY <1>1, <2>1
    <3> QED
      BY <1>1, <2>1, <3>1, <3>2, <3>3 DEF HistoryIsSorted
  <2> QED
    BY <2>2, <2>3
<1>3. Shows(budget', month, limit)
  <2>1. /\ budget'.history = h /\ h # <<>> /\ month \in Int
        /\ h[1].month = month /\ \A i \in 1 .. Len(h) : i = 1
    BY <1>1, InvariantTypes
  <2>2. h[Len(h)].limit = limit
    BY <1>1
  <2> QED
    BY <1>1, <2>1, <2>2, LastEntryShows
<1>4. \A m \in (since .. month)' : m = month
  BY <1>1, InvariantTypes
<1> QED
  BY <1>1, <1>2, <1>3, <1>4, InvariantTypes DEF HistoryInv

LEMMA EditPreserves ==
    ASSUME HistoryInv, NEW limit \in Limits, EditBudget(limit)
    PROVE  HistoryInv'
<1> DEFINE h == recordLimitChange(budget.history, budget.monthlyLimit, limit)
<1>1. /\ month \in Months /\ month' = month /\ since \in Months /\ since' = since
      /\ since <= month /\ budget # Nil /\ budget \in Budget
      /\ budget' = [monthlyLimit |-> limit, history |-> h]
      /\ inEffect' = [inEffect EXCEPT ![month] = limit]
      /\ inEffect \in [Months -> Limits]
      /\ inEffect'[month] = limit
      /\ \A m \in since .. month - 1 : inEffect'[m] = inEffect[m]
  BY InvariantTypes DEF EditBudget
<1>a. /\ month \in Nat /\ since \in Nat /\ month \in Int /\ month \in since .. month
      /\ budget.history \in Seq(Change)
  BY <1>1, InvariantTypes
<1>2. CASE limit = budget.monthlyLimit
  <2>1. budget' = budget
    BY <1>1, <1>2 DEF recordLimitChange, Budget
  <2>2. inEffect[month] = limit
    <3>1. Shows(budget, month, inEffect[month])
      BY <1>1, <1>a DEF HistoryInv
    <3>2. Shows(budget, month, limit)
      <4>1. CASE budget.history = <<>>
        <5>1. budget = [monthlyLimit |-> limit, history |-> <<>>]
          BY <1>1, <1>2, <4>1 DEF Budget
        <5> QED
          BY <1>a, <5>1, EmptyHistoryShows
      <4>2. CASE budget.history # <<>>
        BY <1>1, <1>2, <1>a, <4>2, LastEntryShows DEF HistoryInv, HistoryIsSorted
      <4> QED
        BY <4>1, <4>2
    <3> QED
      BY <1>1, <1>a, <3>1, <3>2, LimitAtMonthShows
  <2>3. inEffect' = inEffect
    BY <1>1, <2>2
  <2> QED
    BY <1>1, <2>1, <2>3 DEF HistoryInv, TypeOK, HistoryIsSorted, StartsInTime
<1>3. CASE limit # budget.monthlyLimit
  <2>1. /\ h \in Seq(Change) /\ h # <<>>
        /\ \A i, j \in 1 .. Len(h) : i < j => h[i].month < h[j].month
        /\ \A i \in 1 .. Len(h) : h[i].month <= month
        /\ h[Len(h)].limit = limit
        /\ h[1].month <= since \/ since = month
        /\ \A m \in since .. month - 1 :
              \E k \in 1 .. Len(h) : Takes(h, m, k) /\ h[k].limit = inEffect[m]
    BY <1>1, <1>3, RecordLimitChange
  <2>2. budget' \in Budget /\ TypeOK'
    <3>1. [monthlyLimit |-> limit, history |-> h] \in Budget
      BY <2>1 DEF Budget
    <3> QED
      BY <1>1, <3>1 DEF TypeOK
  <2> HIDE DEF h
  <2>3. HistoryIsSorted' /\ StartsInTime'
    BY <1>1, <2>1 DEF HistoryIsSorted, StartsInTime
  <2>4. Shows(budget', month, limit)
    <3>1. budget'.history = h
      BY <1>1
    <3> QED
      BY <1>a, <2>1, <2>2, <3>1, LastEntryShows
  <2>5. ASSUME NEW m \in since .. month - 1
        PROVE  Shows(budget', m, inEffect[m])
    <3>1. PICK k \in 1 .. Len(h) : Takes(h, m, k) /\ h[k].limit = inEffect[m]
      BY <2>1
    <3>2. budget'.history = h /\ k \in 0 .. Len(h) /\ k # 0
      BY <1>1, <3>1
    <3> QED
      BY <3>1, <3>2 DEF Shows, AfterTaking
  <2>6. \A m \in (since .. month)' : Shows(budget', m, inEffect'[m])
    <3>1. \A m \in since .. month : m = month \/ m \in since .. month - 1
      BY <1>a
    <3> QED
      BY <1>1, <2>4, <2>5, <3>1
  <2> QED
    BY <1>1, <2>2, <2>3, <2>6 DEF HistoryInv
<1> QED
  BY <1>2, <1>3

LEMMA NextMonthPreserves == HistoryInv /\ NextMonth => HistoryInv'
<1> SUFFICES ASSUME HistoryInv, NextMonth PROVE HistoryInv'
  OBVIOUS
<1>1. /\ month \in Nat /\ month' = month + 1 /\ month' \in Months /\ since \in Nat
      /\ since' = since /\ budget' = budget /\ since <= month
      /\ month \in Months /\ since \in Months
  BY BudgetAssumption, InvariantTypes DEF NextMonth, Months
<1>2. CASE budget = Nil
  BY <1>1, <1>2 DEF NextMonth, HistoryInv, TypeOK, HistoryIsSorted, StartsInTime
<1>3. CASE budget # Nil
  <2>1. /\ budget \in Budget /\ inEffect \in [Months -> Limits]
        /\ inEffect' = [inEffect EXCEPT ![month + 1] = budget.monthlyLimit]
    BY <1>3 DEF NextMonth, HistoryInv, TypeOK
  <2>2. Shows(budget, month', budget.monthlyLimit)
    <3>1. CASE budget.history = <<>>
      <4>1. budget = [monthlyLimit |-> budget.monthlyLimit, history |-> <<>>]
        BY <2>1, <3>1 DEF Budget
      <4> QED
        BY <1>1, <2>1, <4>1, BudgetParts, EmptyHistoryShows
    <3>2. CASE budget.history # <<>>
      <4>1. \A i \in 1 .. Len(budget.history) : budget.history[i].month <= month + 1
        BY <1>1, <1>3, <2>1, BudgetParts, EntriesAreChanges DEF HistoryInv, HistoryIsSorted
      <4> QED
        BY <1>1, <1>3, <2>1, <3>2, <4>1, LastEntryShows DEF HistoryInv, HistoryIsSorted
    <3> QED
      BY <3>1, <3>2
  <2>3. TypeOK' /\ HistoryIsSorted' /\ StartsInTime'
    <3>1. TypeOK' /\ StartsInTime'
      BY <1>1, <2>1, BudgetParts DEF HistoryInv, TypeOK, StartsInTime
    <3>2. \A i \in 1 .. Len(budget.history) : budget.history[i].month <= month + 1
      BY <1>1, <1>3, <2>1, BudgetParts, EntriesAreChanges DEF HistoryInv, HistoryIsSorted
    <3> QED
      BY <1>1, <1>3, <3>1, <3>2 DEF HistoryInv, HistoryIsSorted
  <2>4. \A m \in since .. month + 1 : Shows(budget, m, inEffect'[m])
    BY <1>1, <1>3, <2>1, <2>2 DEF HistoryInv
  <2> QED
    BY <1>1, <2>3, <2>4 DEF HistoryInv
<1> QED
  BY <1>2, <1>3

LEMMA StepPreserves == HistoryInv /\ [Next]_vars => HistoryInv'
<1> SUFFICES ASSUME HistoryInv, [Next]_vars PROVE HistoryInv'
  OBVIOUS
<1>1. CASE \E limit \in Limits : CreateBudget(limit)
  BY <1>1, CreatePreserves
<1>2. CASE \E limit \in Limits : EditBudget(limit)
  BY <1>2, EditPreserves
<1>3. CASE DeleteBudget
  BY <1>3 DEF DeleteBudget, HistoryInv, TypeOK, HistoryIsSorted, StartsInTime
<1>4. CASE NextMonth
  BY <1>4, NextMonthPreserves
<1>5. CASE UNCHANGED vars
  BY <1>5 DEF vars, HistoryInv, TypeOK, HistoryIsSorted, StartsInTime
<1> QED
  BY <1>1, <1>2, <1>3, <1>4, <1>5 DEF Next

-----------------------------------------------------------------------------
\* The history of a budget (recordLimitChange) is always sorted and ends with
\* the limit in force, for any limits and any number of months.
THEOREM HistoryStaysSorted == Spec => [](TypeOK /\ HistoryIsSorted)
<1>1. HistoryInv => TypeOK /\ HistoryIsSorted
  BY DEF HistoryInv
<1> QED
  BY <1>1, InitEstablishes, StepPreserves, PTL DEF Spec

\* limitAtMonth gives, for every month since the budget exists, the limit that
\* was last in effect in that month.
THEOREM PastIsKept == Spec => []PastMonthsKeepTheirLimit
BY InitEstablishes, StepPreserves, InvariantImplies, PTL DEF Spec

\* No edit, of this month or a later one, changes what an earlier month is
\* compared against.
THEOREM EditsLeaveThePast == Spec => EditsKeepThePast
<1>1. ASSUME HistoryInv, HistoryInv', [Next]_vars
      PROVE  [budget # Nil /\ budget' # Nil =>
                \A m \in since .. month - 1 :
                   limitAtMonth(budget', m) = limitAtMonth(budget, m)]_vars
  <2> SUFFICES ASSUME Next, budget # Nil, budget' # Nil, NEW m \in since .. month - 1
               PROVE  limitAtMonth(budget', m) = limitAtMonth(budget, m)
    BY <1>1
  <2>0. /\ month \in Months /\ since \in Months /\ month \in Nat /\ since \in Nat
        /\ m \in since .. month /\ inEffect \in [Months -> Limits]
    BY <1>1, InvariantTypes
  <2>1. limitAtMonth(budget, m) = inEffect[m]
    BY <1>1, <2>0, InvariantImplies DEF PastMonthsKeepTheirLimit
  <2>2. CASE \E limit \in Limits : EditBudget(limit)
    <3>1. m \in (since .. month)' /\ inEffect'[m] = inEffect[m]
      BY <2>0, <2>2 DEF EditBudget
    <3>2. PastMonthsKeepTheirLimit'
      BY <1>1, InvariantImplies, PTL
    <3> QED
      BY <2>1, <3>1, <3>2 DEF PastMonthsKeepTheirLimit
  <2>3. CASE NextMonth
    BY <2>3 DEF NextMonth
  <2>4. CASE DeleteBudget \/ \E limit \in Limits : CreateBudget(limit)
    BY <2>4 DEF DeleteBudget, CreateBudget
  <2> QED
    BY <2>2, <2>3, <2>4 DEF Next
<1> QED
  BY <1>1, InitEstablishes, StepPreserves, PTL DEF Spec, EditsKeepThePast
=============================================================================
