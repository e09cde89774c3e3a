--------------------------- MODULE FileStoreProofs ---------------------------
(***************************************************************************)
(* Proofs about FileStore, for any tenants, ids and values.                *)
(***************************************************************************)
EXTENDS FileStore, TLAPS

USE FileStoreAssumption DEF Item, Collection, Nothing, NoOp, Op

-----------------------------------------------------------------------------
(* Type correctness                                                        *)

\* What an interrupted write leaves is a file.
LEMMA InterruptedType ==
  ASSUME TypeOK, file' \in Interrupted
  PROVE  file' \in Collection \cup {Partial}
<1>1. Nothing \in Collection
  OBVIOUS
<1>2. QED
  BY <1>1 DEF TypeOK, Interrupted

LEMMA NextTypeOK == TypeOK /\ [Next]_vars => TypeOK'
<1> SUFFICES ASSUME TypeOK, [Next]_vars
             PROVE  TypeOK'
  OBVIOUS
<1>1. ASSUME NEW tenant \in Tenants, NEW i \in Ids, NEW v \in Values, Create(tenant, i, v)
      PROVE  TypeOK'
  BY <1>1 DEF Create, Store, Ready, TypeOK, bounds
<1>2. ASSUME NEW tenant \in Tenants, NEW i \in Ids, NEW v \in Values, Update(tenant, i, v)
      PROVE  TypeOK'
  BY <1>2 DEF Update, Store, Ready, TypeOK, bounds
<1>3. ASSUME NEW tenant \in Tenants, NEW i \in Ids, Delete(tenant, i)
      PROVE  TypeOK'
  BY <1>3 DEF Delete, Store, Ready, TypeOK, bounds
<1>4. CASE Persist
  <2>1. op.id \in Ids
    BY <1>4 DEF Persist, TypeOK
  <2>2. QED
    BY <1>4, <2>1 DEF Persist, TypeOK, bounds
<1>5. CASE PersistFails
  <2>1. op.id \in Ids
    BY <1>5 DEF PersistFails, TypeOK
  <2>2. QED
    BY <1>5, <2>1, InterruptedType DEF PersistFails, TypeOK
<1>6. CASE Crash
  <2>1. file' \in Collection \cup {Partial}
    BY <1>6, InterruptedType DEF Crash, TypeOK
  <2>2. doubtful' \subseteq Ids
    BY <1>6 DEF Crash, TypeOK
  <2>3. up' \in BOOLEAN /\ items' \in Collection /\ op' \in Op \cup {NoOp}
    BY <1>6 DEF Crash
  <2>4. QED
    BY <1>6, <2>1, <2>2, <2>3 DEF Crash, TypeOK
<1>7. CASE Restart
  BY <1>7 DEF Restart, TypeOK, bounds, ghosts
<1>8. CASE UNCHANGED vars
  BY <1>8 DEF vars, TypeOK, bounds, ghosts
<1>9. QED
  BY <1>1, <1>2, <1>3, <1>4, <1>5, <1>6, <1>7, <1>8 DEF Next

\* Every reachable state of the store is well typed.
THEOREM TypeCorrect == Spec => []TypeOK
<1>1. Init => TypeOK
  BY DEF Init, TypeOK
<1>2. QED
  BY <1>1, NextTypeOK, PTL DEF Spec

-----------------------------------------------------------------------------
(* Ownership                                                               *)

\* An id that was never drawn names nothing, so drawing it cannot disturb the
\* owner of an item.
OwnershipInv ==
    /\ NeverChangesHands
    /\ \A i \in Ids \ spent :
          items[i] = NoItem /\ acked[i] = NoItem /\ (file # Partial => file[i] = NoItem)

LEMMA NextOwnership == TypeOK /\ OwnershipInv /\ [Next]_vars => OwnershipInv'
<1> SUFFICES ASSUME TypeOK, OwnershipInv, [Next]_vars
             PROVE  OwnershipInv'
  OBVIOUS
<1> USE DEF OwnershipInv, NeverChangesHands
<1>1. ASSUME NEW tenant \in Tenants, NEW i \in Ids, NEW v \in Values, Create(tenant, i, v)
      PROVE  OwnershipInv'
  BY <1>1 DEF Create, Store, TypeOK
<1>2. ASSUME NEW tenant \in Tenants, NEW i \in Ids, NEW v \in Values, Update(tenant, i, v)
      PROVE  OwnershipInv'
  BY <1>2 DEF Update, Owns, Store, TypeOK
<1>3. ASSUME NEW tenant \in Tenants, NEW i \in Ids, Delete(tenant, i)
      PROVE  OwnershipInv'
  BY <1>3 DEF Delete, Owns, Store, TypeOK
<1>4. CASE Persist
  BY <1>4 DEF Persist, TypeOK
<1>5. CASE PersistFails
  BY <1>5 DEF PersistFails, Interrupted
<1>6. CASE Crash
  BY <1>6 DEF Crash, Interrupted
<1>7. CASE Restart
  BY <1>7 DEF Restart, ghosts
<1>8. CASE UNCHANGED vars
  BY <1>8 DEF vars, ghosts
<1>9. QED
  BY <1>1, <1>2, <1>3, <1>4, <1>5, <1>6, <1>7, <1>8 DEF Next

LEMMA Ownership == Spec => []OwnershipInv
<1>1. Init => OwnershipInv
  BY DEF Init, OwnershipInv, NeverChangesHands
<1>2. QED
  BY <1>1, TypeCorrect, NextOwnership, PTL DEF Spec

\* Whatever writes fail, whatever a crash leaves of the file, an item never
\* ends up with another tenant.
THEOREM ItemsNeverChangeHands == Spec => []NeverChangesHands
<1>1. OwnershipInv => NeverChangesHands
  BY DEF OwnershipInv
<1>2. QED
  BY <1>1, Ownership, PTL

\* What a tenant other than the one at work sees stays as it is.
LEMMA OthersSeeNoChange ==
  ASSUME NEW tenant \in Tenants, NEW b \in Tenants \ {tenant}, NEW i \in Ids, NEW item,
         items \in Collection, items[i] = NoItem \/ items[i].tenant = tenant,
         item = NoItem \/ item.tenant = tenant,
         items' = [items EXCEPT ![i] = item]
  PROVE  List(b)' = List(b)
<1>1. \A j \in Ids : Owns(b, j)' = Owns(b, j) /\ (Owns(b, j) => items'[j] = items[j])
  BY DEF Owns
<1>2. QED
  BY <1>1 DEF List

\* A request changes what at most one tenant sees, whatever else goes on.
THEOREM OneTenantAtATime == Spec => OnlyOwnItemsChange
<1> DEFINE OneTenant == up /\ up' => \A a, b \in Tenants :
                           a = b \/ List(a)' = List(a) \/ List(b)' = List(b)
<1>1. TypeOK /\ OwnershipInv /\ [Next]_vars => [OneTenant]_vars
  <2> SUFFICES ASSUME TypeOK, OwnershipInv, Next, up, up'
               PROVE  OneTenant
    BY DEF vars
  <2>1. ASSUME items' = items
        PROVE  OneTenant
    BY <2>1 DEF List, Owns
  <2>2. ASSUME NEW tenant \in Tenants, NEW i \in Ids, NEW item,
               items[i] = NoItem \/ items[i].tenant = tenant,
               item = NoItem \/ item.tenant = tenant,
               items' = [items EXCEPT ![i] = item]
        PROVE  OneTenant
    <3>1. \A b \in Tenants \ {tenant} : List(b)' = List(b)
      BY <2>2, OthersSeeNoChange DEF TypeOK
    <3>2. QED
      BY <3>1
  <2>3. ASSUME NEW tenant \in Tenants, NEW i \in Ids, NEW v \in Values,
               Create(tenant, i, v)
        PROVE  OneTenant
    BY <2>2, <2>3 DEF Create, Store, OwnershipInv
  <2>4. ASSUME NEW tenant \in Tenants, NEW i \in Ids, NEW v \in Values,
               Update(tenant, i, v)
        PROVE  OneTenant
    BY <2>2, <2>4 DEF Update, Store, Owns
  <2>5. ASSUME NEW tenant \in Tenants, NEW i \in Ids, Delete(tenant, i)
        PROVE  OneTenant
    BY <2>2, <2>5 DEF Delete, Store, Owns
  <2>6. CASE Persist
    BY <2>1, <2>6 DEF Persist
  <2>7. CASE PersistFails
    BY <2>1, <2>7 DEF PersistFails
  <2>8. CASE Crash \/ Restart
    BY <2>8 DEF Crash, Restart
  <2>9. QED
    BY <2>3, <2>4, <2>5, <2>6, <2>7, <2>8 DEF Next
<1>2. Spec => [](TypeOK /\ OwnershipInv)
  BY TypeCorrect, Ownership, PTL
<1>3. QED
  BY <1>1, <1>2, PTL DEF Spec, OnlyOwnItemsChange

-----------------------------------------------------------------------------
(* Durability, where a write that does not complete leaves the old file     *)

\* Memory and file part only at ids in doubt and at the one being written, and
\* elsewhere both are what was acknowledged.
DurabilityInv ==
    /\ file # Partial
    /\ \A i \in Ids \ doubtful : file[i] = acked[i]
    /\ up => \A i \in Ids \ doubtful :
                items[i] = acked[i] \/ (op # NoOp /\ op.id = i)
    /\ ~up => op = NoOp

LEMMA NextDurability ==
  ASSUME Remnants \subseteq {"old"}, TypeOK, DurabilityInv, [Next]_vars
  PROVE  DurabilityInv'
<1> USE DEF DurabilityInv
<1>1. ASSUME NEW tenant \in Tenants, NEW i \in Ids, NEW v \in Values, Create(tenant, i, v)
      PROVE  DurabilityInv'
  BY <1>1 DEF Create, Ready, Store, TypeOK
<1>2. ASSUME NEW tenant \in Tenants, NEW i \in Ids, NEW v \in Values, Update(tenant, i, v)
      PROVE  DurabilityInv'
  BY <1>2 DEF Update, Ready, Store, TypeOK
<1>3. ASSUME NEW tenant \in Tenants, NEW i \in Ids, Delete(tenant, i)
      PROVE  DurabilityInv'
  BY <1>3 DEF Delete, Ready, Store, TypeOK
<1>4. CASE Persist
  BY <1>4 DEF Persist, TypeOK
<1>5. CASE PersistFails
  BY <1>5 DEF PersistFails, Interrupted
<1>6. CASE Crash
  BY <1>6 DEF Crash, Interrupted
<1>7. CASE Restart
  BY <1>7 DEF Restart, ghosts
<1>8. CASE UNCHANGED vars
  BY <1>8 DEF vars, ghosts
<1>9. QED
  BY <1>1, <1>2, <1>3, <1>4, <1>5, <1>6, <1>7, <1>8 DEF Next

\* If an incomplete write leaves the old file in place, what an operation
\* reported as done is what a running server shows and a restart would load.
THEOREM AcknowledgedSurvives ==
  ASSUME Remnants \subseteq {"old"}
  PROVE  Spec => [](AckedIsShown /\ AckedIsDurable)
<1>1. Init => DurabilityInv
  BY DEF Init, DurabilityInv
<1>2. DurabilityInv => AckedIsShown /\ AckedIsDurable
  BY DEF DurabilityInv, AckedIsShown, AckedIsDurable
<1>3. TypeOK /\ DurabilityInv /\ [Next]_vars => DurabilityInv'
  BY NextDurability
<1>4. QED
  BY <1>1, <1>2, <1>3, TypeCorrect, PTL DEF Spec

\* The second half of it: what an operation reported as done is what a restart loads.
THEOREM AcknowledgedIsDurable ==
  ASSUME Remnants \subseteq {"old"}
  PROVE  Spec => []AckedIsDurable
  BY AcknowledgedSurvives, PTL

-----------------------------------------------------------------------------
(* Refinement, until a write is reported as failed                          *)

\* With no failed write before it, the file is what memory was before the
\* running operation, and an id is new to the file when it is new to memory.
RefinementInv ==
    /\ faults = 0 /\ file # Partial
    /\ \A i \in Ids : (op # NoOp /\ op.id = i) \/ ~up \/ items[i] = file[i]
    /\ ~up => op = NoOp
    /\ op # NoOp =>
         /\ op.kind = "Create" =>
              op.id \in spent /\ file[op.id] = NoItem /\ items[op.id] # NoItem
         /\ op.kind = "Update" =>
              /\ file[op.id] # NoItem /\ items[op.id] # NoItem
              /\ file[op.id].tenant = items[op.id].tenant
         /\ op.kind = "Delete" => file[op.id] # NoItem /\ items[op.id] = NoItem
    /\ \A i \in Ids \ spent : items[i] = NoItem /\ file[i] = NoItem

\* The count of failed writes never goes back.
LEMMA FaultsGrow ==
  ASSUME TypeOK, [Next]_vars, faults' = 0
  PROVE  faults = 0
<1>1. CASE PersistFails
  BY <1>1 DEF PersistFails, TypeOK
<1>2. CASE Persist \/ Crash \/ Restart
  BY <1>2 DEF Persist, Crash, Restart, bounds
<1>3. CASE UNCHANGED vars
  BY <1>3 DEF vars, bounds
<1>4. ASSUME NEW tenant \in Tenants, NEW i \in Ids, NEW v \in Values,
             Create(tenant, i, v) \/ Update(tenant, i, v) \/ Delete(tenant, i)
      PROVE  faults = 0
  BY <1>4 DEF Create, Update, Delete, Store, bounds
<1>5. ASSUME NEW tenant \in Tenants, NEW i \in Ids, Delete(tenant, i)
      PROVE  faults = 0
  BY <1>5 DEF Delete, Store, bounds
<1>6. QED
  BY <1>1, <1>2, <1>3, <1>4, <1>5 DEF Next

LEMMA NextRefinement ==
  ASSUME Remnants \subseteq {"old"}, TypeOK, RefinementInv, [Next]_vars, faults' = 0
  PROVE  RefinementInv'
<1> USE DEF RefinementInv
<1>1. ASSUME NEW tenant \in Tenants, NEW i \in Ids, NEW v \in Values, Create(tenant, i, v)
      PROVE  RefinementInv'
  BY <1>1 DEF Create, Ready, Store, TypeOK, bounds
<1>2. ASSUME NEW tenant \in Tenants, NEW i \in Ids, NEW v \in Values, Update(tenant, i, v)
      PROVE  RefinementInv'
  BY <1>2 DEF Update, Ready, Owns, Store, TypeOK, bounds
<1>3. ASSUME NEW tenant \in Tenants, NEW i \in Ids, Delete(tenant, i)
      PROVE  RefinementInv'
  BY <1>3 DEF Delete, Ready, Owns, Store, TypeOK, bounds
<1>4. CASE Persist
  BY <1>4 DEF Persist, TypeOK, bounds
<1>5. CASE PersistFails
  BY <1>5 DEF PersistFails, TypeOK
<1>6. CASE Crash
  BY <1>6 DEF Crash, Interrupted
<1>7. CASE Restart
  BY <1>7 DEF Restart, bounds, ghosts
<1>8. CASE UNCHANGED vars
  BY <1>8 DEF vars, bounds, ghosts
<1>9. QED
  BY <1>1, <1>2, <1>3, <1>4, <1>5, <1>6, <1>7, <1>8 DEF Next

\* Every step of the store is a step of TenantStore on the file, or none: only
\* drawing an id and a successful write show.
LEMMA NextImplements ==
  ASSUME Remnants \subseteq {"old"}, TypeOK, RefinementInv, [Next]_vars, faults' = 0
  PROVE  [Durable!Next]_(Durable!storeVars)
<1> USE DEF Durable!storeVars
<1>1. ASSUME NEW tenant \in Tenants, NEW i \in Ids, NEW v \in Values, Create(tenant, i, v)
      PROVE  Durable!Draw(i)
  BY <1>1 DEF Create, Store, Durable!Draw
<1>2. ASSUME NEW tenant \in Tenants, NEW i \in Ids, NEW v \in Values, Update(tenant, i, v)
      PROVE  UNCHANGED <<file, spent>>
  BY <1>2 DEF Update, Store
<1>3. ASSUME NEW tenant \in Tenants, NEW i \in Ids, Delete(tenant, i)
      PROVE  UNCHANGED <<file, spent>>
  BY <1>3 DEF Delete, Store
<1>4. CASE Persist
  <2> DEFINE i == op.id
             item == items[i]
  <2>1. i \in Ids /\ op # NoOp /\ op \in Op
    BY <1>4 DEF Persist, TypeOK
  <2>2. file' = [file EXCEPT ![i] = item] /\ spent' = spent
    BY <1>4, <2>1 DEF Persist, RefinementInv, TypeOK
  <2>3. CASE op.kind = "Delete"
    <3>1. file[i] \in Item /\ item = NoItem
      BY <2>1, <2>3 DEF RefinementInv, TypeOK
    <3>2. Durable!Delete(file[i].tenant, i) /\ file[i].tenant \in Tenants
      BY <2>2, <3>1 DEF Durable!Delete, Durable!Owns
    <3>3. QED
      BY <2>1, <3>2 DEF Durable!Next
  <2>4. CASE op.kind = "Create"
    <3>1. item \in Item /\ i \in spent /\ file[i] = NoItem
      BY <2>1, <2>4 DEF RefinementInv, TypeOK
    <3>2. /\ Durable!Create(item.tenant, i, item.value)
          /\ item.tenant \in Tenants /\ item.value \in Values
      BY <2>2, <3>1 DEF Durable!Create
    <3>3. QED
      BY <2>1, <3>2 DEF Durable!Next
  <2>5. CASE op.kind = "Update"
    <3>1. item \in Item /\ file[i] # NoItem /\ file[i].tenant = item.tenant
      BY <2>1, <2>5 DEF RefinementInv, TypeOK
    <3>2. /\ Durable!Update(item.tenant, i, item.value)
          /\ item.tenant \in Tenants /\ item.value \in Values
      BY <2>2, <3>1 DEF Durable!Update, Durable!Owns
    <3>3. QED
      BY <2>1, <3>2 DEF Durable!Next
  <2>6. QED
    BY <2>1, <2>3, <2>4, <2>5
<1>5. CASE PersistFails
  BY <1>5 DEF PersistFails, TypeOK
<1>6. CASE Crash
  BY <1>6 DEF Crash, Interrupted
<1>7. CASE Restart
  BY <1>7 DEF Restart, ghosts
<1>8. CASE UNCHANGED vars
  BY <1>8 DEF vars, ghosts
<1>9. QED
  BY <1>1, <1>2, <1>3, <1>4, <1>5, <1>6, <1>7, <1>8 DEF Next, Durable!Next

\* Where writes either complete or leave the old file, the file store implements
\* the abstract store, crashes included, until one is reported as failed.
THEOREM Implements ==
  ASSUME Remnants \subseteq {"old"}
  PROVE  Spec => ImplementsTenantStore
<1> DEFINE Inv == faults = 0 => RefinementInv
           Implementing == faults' = 0 => [Durable!Next]_(Durable!storeVars)
<1>1. Init => Inv /\ Durable!Init
  BY DEF Init, RefinementInv, Durable!Init
<1>2. TypeOK /\ Inv /\ [Next]_vars => Inv'
  BY NextRefinement, FaultsGrow
<1>3. TypeOK /\ Inv /\ [Next]_vars => [Implementing]_vars
  BY NextImplements, FaultsGrow
<1> HIDE DEF Inv
<1>4. Spec => Durable!Init /\ [][Implementing]_vars
  BY <1>1, <1>2, <1>3, TypeCorrect, PTL DEF Spec
<1>5. QED
  BY <1>4 DEF ImplementsTenantStore
=============================================================================
