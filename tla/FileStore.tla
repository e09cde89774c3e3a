------------------------------ MODULE FileStore ------------------------------
(***************************************************************************)
(* A JSON-file store (src/backend/store.go for transactions, and           *)
(* generic_store.go for categories, budgets, recurring rules and goals):   *)
(* every tenant's items in one map in memory, guarded by one mutex, and    *)
(* the whole map rewritten to one file by every change.                    *)
(*                                                                         *)
(* Create, Update and Delete change the map, then call persist, and return *)
(* its error without undoing the change.  persist is os.WriteFile, which   *)
(* truncates the file before it writes: what a write that fails or is      *)
(* killed may leave behind is the constant Remnants.                       *)
(***************************************************************************)
EXTENDS Naturals

CONSTANTS
    Tenants, Ids, Values, NoItem,
    Partial,             \* a file that json.Unmarshal rejects
    Remnants,            \* subset of {"old", "empty", "partial"}
    MaxFaults, MaxCrashes   \* bounds: writes that fail, crashes

Item == [tenant : Tenants, value : Values]
Collection == [Ids -> Item \cup {NoItem}]
Nothing == [i \in Ids |-> NoItem]
Kinds == {"none", "Create", "Update", "Delete"}

ASSUME FileStoreAssumption ==
    /\ NoItem \notin Item /\ Partial \notin Collection
    /\ Remnants \subseteq {"old", "empty", "partial"}
    /\ MaxFaults \in Nat /\ MaxCrashes \in Nat

VARIABLES
    up,          \* the server process is running
    items,       \* the map in memory
    file,        \* the data file; absent, empty and [] all load as no items
    op,          \* the operation holding the mutex while persist runs
    faults, crashes,
    \* what an observer knows
    spent,       \* ids newID has returned
    creator,     \* the tenant each id was first stored for
    acked,       \* what the last operation on each id that returned nil left
    doubtful     \* ids with a later operation that failed or was cut off

bounds == <<faults, crashes>>
ghosts == <<spent, creator, acked, doubtful>>
vars == <<up, items, file, op, bounds, ghosts>>

NoOp == [kind |-> "none"]
Op == [kind : {"Create", "Update", "Delete"}, id : Ids]

TypeOK ==
    /\ up \in BOOLEAN
    /\ items \in Collection
    /\ file \in Collection \cup {Partial}
    /\ op \in Op \cup {NoOp}
    /\ faults \in Nat /\ crashes \in Nat
    /\ spent \subseteq Ids
    /\ creator \in [Ids -> Tenants \cup {NoItem}]
    /\ acked \in Collection
    /\ doubtful \subseteq Ids

Init ==
    /\ up = TRUE /\ items = Nothing /\ file = Nothing /\ op = NoOp
    /\ faults = 0 /\ crashes = 0
    /\ spent = {} /\ creator = [i \in Ids |-> NoItem]
    /\ acked = Nothing /\ doubtful = {}

-----------------------------------------------------------------------------
Ready == up /\ op = NoOp

\* Get's answer: another tenant's item is ErrNotFound, like a missing one.
Owns(tenant, i) == items[i] # NoItem /\ items[i].tenant = tenant

\* What List(tenant) returns: the tenant's own items.
List(tenant) == [i \in Ids |-> IF Owns(tenant, i) THEN items[i] ELSE NoItem]

\* The map changes and persist starts; a refused call changes nothing.
Store(kind, i, item) ==
    /\ items' = [items EXCEPT ![i] = item]
    /\ op' = [kind |-> kind, id |-> i]
    /\ UNCHANGED <<up, file, bounds, acked, doubtful>>

Create(tenant, i, v) ==
    /\ Ready /\ i \notin spent
    /\ spent' = spent \cup {i}
    /\ creator' = [creator EXCEPT ![i] = tenant]
    /\ Store("Create", i, [tenant |-> tenant, value |-> v])

\* Mutant: whose item it is goes unchecked.
UpdateForeign(tenant, i, v) ==
    /\ Ready /\ items[i] # NoItem
    /\ Store("Update", i, [tenant |-> tenant, value |-> v])
    /\ UNCHANGED <<spent, creator>>

\* The id and the owner are the stored item's, whatever the body says.
Update(tenant, i, v) ==
    /\ Ready /\ Owns(tenant, i)
    /\ Store("Update", i, [tenant |-> tenant, value |-> v])
    /\ UNCHANGED <<spent, creator>>

Delete(tenant, i) ==
    /\ Ready /\ Owns(tenant, i)
    /\ Store("Delete", i, NoItem)
    /\ UNCHANGED <<spent, creator>>

\* Mutant: success is reported, and the file is left for a later write.
PersistLater ==
    /\ up /\ op # NoOp
    /\ op' = NoOp
    /\ acked' = [acked EXCEPT ![op.id] = items[op.id]]
    /\ doubtful' = doubtful \ {op.id}
    /\ UNCHANGED <<up, items, file, bounds, spent, creator>>

\* Mutant: only the items of the tenant at work are written.
PersistOneTenant ==
    /\ up /\ op # NoOp
    /\ file' = [i \in Ids |-> IF creator[i] = creator[op.id] THEN items[i] ELSE NoItem]
    /\ op' = NoOp
    /\ acked' = [acked EXCEPT ![op.id] = items[op.id]]
    /\ doubtful' = doubtful \ {op.id}
    /\ UNCHANGED <<up, items, bounds, spent, creator>>

\* persist returns nil, and so does the operation.
Persist ==
    /\ up /\ op # NoOp
    /\ file' = items
    /\ op' = NoOp
    /\ acked' = [acked EXCEPT ![op.id] = items[op.id]]
    /\ doubtful' = doubtful \ {op.id}
    /\ UNCHANGED <<up, items, bounds, spent, creator>>

\* The file after a write that did not complete.
Interrupted ==
    {file} \cup (IF "empty" \in Remnants THEN {Nothing} ELSE {})
           \cup (IF "partial" \in Remnants THEN {Partial} ELSE {})

\* persist returns an error: so does the operation, and memory keeps its change.
PersistFails ==
    /\ up /\ op # NoOp /\ faults < MaxFaults
    /\ file' \in Interrupted
    /\ op' = NoOp
    /\ doubtful' = doubtful \cup {op.id}
    /\ faults' = faults + 1
    /\ UNCHANGED <<up, items, crashes, spent, creator, acked>>

Crash ==
    /\ up /\ crashes < MaxCrashes
    /\ up' = FALSE /\ items' = Nothing
    /\ IF op = NoOp THEN UNCHANGED <<file, doubtful>>
       ELSE file' \in Interrupted /\ doubtful' = doubtful \cup {op.id}
    /\ op' = NoOp
    /\ crashes' = crashes + 1
    /\ UNCHANGED <<faults, spent, creator, acked>>

\* NewStore / NewFileStore: a file it cannot parse ends the program.
Restart ==
    /\ ~up /\ file # Partial
    /\ up' = TRUE /\ items' = file
    /\ UNCHANGED <<file, op, bounds, ghosts>>

Next ==
    \/ \E tenant \in Tenants, i \in Ids :
          \/ \E v \in Values : Create(tenant, i, v) \/ Update(tenant, i, v)
          \/ Delete(tenant, i)
    \/ Persist \/ PersistFails
    \/ Crash \/ Restart

Spec == Init /\ [][Next]_vars

-----------------------------------------------------------------------------
(* What makes it correct                                                   *)

\* An item never changes hands: in memory, on disk and in what clients were
\* told, an id holds either nothing or an item of the tenant it was created for.
NeverChangesHands ==
    \A i \in Ids :
        /\ items[i] # NoItem => items[i].tenant = creator[i]
        /\ file # Partial /\ file[i] # NoItem => file[i].tenant = creator[i]
        /\ acked[i] # NoItem => acked[i].tenant = creator[i]

\* A request changes what at most one tenant sees: as long as the server runs,
\* no step changes the lists of two tenants.
OnlyOwnItemsChange ==
    [][up /\ up' =>
          \A a, b \in Tenants : a = b \/ List(a)' = List(a) \/ List(b)' = List(b)]_vars

\* A running server shows what the last successful operation on an item left,
\* unless a later operation on that same item failed: a failed write of one
\* item never costs, or brings back, another.
AckedIsShown ==
    up => \A i \in Ids :
        items[i] = acked[i] \/ i \in doubtful \/ (op # NoOp /\ op.id = i)

\* The same of the file: what was acknowledged is what a restart would load.
AckedIsDurable ==
    file # Partial /\ \A i \in Ids \ doubtful : file[i] = acked[i]

\* As long as no write has failed, the store implements TenantStore on its file:
\* each successful write is one whole operation of one tenant, and a crash loses
\* none.
Durable == INSTANCE TenantStore WITH store <- file, spent <- spent
ImplementsTenantStore ==
    Durable!Init /\ [][faults' = 0 => [Durable!Next]_(Durable!storeVars)]_vars
=============================================================================
