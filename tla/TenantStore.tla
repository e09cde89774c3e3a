----------------------------- MODULE TenantStore -----------------------------
(***************************************************************************)
(* What the five stores behind stores.go promise their handlers: one       *)
(* durable collection of items, each owned by the tenant that created it,  *)
(* changed only by whole operations of that tenant, and an id is given out *)
(* once.  FileStore and PostgresStore are the two implementations.         *)
(***************************************************************************)
CONSTANTS
    Tenants,   \* accounts, and the legacy household
    Ids,       \* item ids: newID never repeats one
    Values,    \* what an item holds, for the store an opaque payload
    NoItem     \* an id that is not in the store

Item == [tenant : Tenants, value : Values]
Collection == [Ids -> Item \cup {NoItem}]

VARIABLES
    store,     \* the items that would survive a restart
    spent      \* ids given out so far
storeVars == <<store, spent>>

TypeOK == store \in Collection /\ spent \subseteq Ids

Init == store = [i \in Ids |-> NoItem] /\ spent = {}

Owns(coll, tenant, i) == coll[i] # NoItem /\ coll[i].tenant = tenant

\* newID: the id is spent whether or not the item is ever stored.
Draw(i) ==
    /\ i \notin spent
    /\ spent' = spent \cup {i}
    /\ UNCHANGED store

Create(tenant, i, v) ==
    /\ i \in spent /\ store[i] = NoItem
    /\ store' = [store EXCEPT ![i] = [tenant |-> tenant, value |-> v]]
    /\ UNCHANGED spent

Update(tenant, i, v) ==
    /\ Owns(store, tenant, i)
    /\ store' = [store EXCEPT ![i] = [tenant |-> tenant, value |-> v]]
    /\ UNCHANGED spent

Delete(tenant, i) ==
    /\ Owns(store, tenant, i)
    /\ store' = [store EXCEPT ![i] = NoItem]
    /\ UNCHANGED spent

Next ==
    \E i \in Ids :
        \/ Draw(i)
        \/ \E tenant \in Tenants :
              \/ \E v \in Values : Create(tenant, i, v) \/ Update(tenant, i, v)
              \/ Delete(tenant, i)

Spec == Init /\ [][Next]_storeVars
=============================================================================
