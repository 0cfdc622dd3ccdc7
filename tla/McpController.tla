--------------------------- MODULE McpController ---------------------------
(***************************************************************************)
(* The generic MCP sink controller of pilot                                *)
(* (pilot/pkg/serviceregistry/mcp/controller.go).                          *)
(*                                                                         *)
(* Apply(change) rebuilds the whole [namespace][name] map of the change's  *)
(* type off to the side (innerStore), writing every accepted object to the *)
(* ledger as it goes, deletes the removed keys from the ledger, swaps the  *)
(* new map into configStore[type] under configStoreMu, marks the           *)
(* collection synced, and then either diffs the new map against the old    *)
(* one and dispatches Add/Update/Delete events to the ServiceEntry         *)
(* handlers, or asks the XDS updater for a full push.                      *)
(*                                                                         *)
(* List(type) takes the sub-map reference under the lock and iterates it   *)
(* after releasing the lock; this is safe only because Apply never writes  *)
(* into a map that has been published.  Go maps are references, so the    *)
(* store is modelled as a heap: `maps` holds every map Apply has made and  *)
(* configStore[c] is the id of the published one.                          *)
(*                                                                         *)
(* A key stands for a "namespace/name" identity, a version for the         *)
(* resource version stamp; payload, labels and timestamps are abstracted   *)
(* away.  An object whose timestamp does not parse and one that fails      *)
(* validation are both an object with ok = FALSE.                          *)
(***************************************************************************)
EXTENDS Naturals, FiniteSets

CONSTANTS
    Collections,    \* the collections of descriptorsByCollection (type = collection)
    ServiceEntry,   \* the service-entry collection: changes are dispatched as events
    SyntheticSE,    \* the synthetic service-entry collection, refused by Apply
    Unknown,        \* a collection name that no descriptor has
    Keys,           \* "namespace/name" identities
    Versions,       \* resource version stamps
    Readers,        \* goroutines calling List
    NoConfig,       \* "no config under this key"
    NilMap,         \* configStore[type] not present
    MaxApply,       \* bound on the number of Apply calls
    MaxObjects,     \* bound on the objects of one change
    MaxHandlers     \* bound on RegisterEventHandler calls per type

ASSUME CollectionsAssumption ==
    /\ ServiceEntry \in Collections
    /\ Unknown \notin Collections
    /\ NoConfig \notin Versions
ASSUME BoundsAssumption ==
    /\ MaxApply \in Nat \ {0}
    /\ MaxObjects \in Nat
    /\ MaxHandlers \in Nat
ASSUME NilMapAssumption == NilMap \notin Nat

VARIABLES
    maps,         \* the heap of [namespace][name] maps, flattened to [Keys -> ...]
    configStore,  \* configStore[type]: id of the published map, or NilMap
    synced,       \* synced[collection]
    handlers,     \* number of handlers in eventHandlers[type]
    ledger,       \* the config ledger: version per <<collection, key>>
    pushes,       \* full ConfigUpdate pushes requested, per type
    events,       \* events delivered by the last serviceEntryEvents call
    applier,      \* the goroutine running Apply
    readers,      \* the goroutines running List
    applied       \* Apply calls accepted so far (each allocates a map)

vars == <<maps, configStore, synced, handlers, ledger, pushes, events,
          applier, readers, applied>>

MapIds == 1..MaxApply
Slot == Versions \cup {NoConfig}
EmptyMap == [k \in Keys |-> NoConfig]
Object == [key : Keys, version : Versions, ok : BOOLEAN]
EventKinds == {"add", "update", "delete"}
Event == [kind : EventKinds, key : Keys, version : Versions]

\* Contents of configStore[type]; a missing sub-map reads as empty.
Contents(ref) == IF ref = NilMap THEN EmptyMap ELSE maps[ref]

IdleApplier == [pc |-> "idle", coll |-> Unknown, incr |-> FALSE, left |-> 0,
                removed |-> {}, inner |-> NilMap, prev |-> NilMap, touched |-> {}]
IdleReader == [pc |-> "idle", typ |-> ServiceEntry, ref |-> NilMap,
               out |-> EmptyMap, seen |-> EmptyMap, visited |-> {}]

-----------------------------------------------------------------------------
Init ==
    /\ maps = [i \in MapIds |-> EmptyMap]
    /\ configStore = [c \in Collections |-> NilMap]
    /\ synced = [c \in Collections |-> FALSE]
    /\ handlers = [c \in Collections |-> 0]
    /\ ledger = [ck \in Collections \X Keys |-> NoConfig]
    /\ pushes = [c \in Collections |-> 0]
    /\ events = {}
    /\ applier = IdleApplier
    /\ readers = [r \in Readers |-> IdleReader]
    /\ applied = 0

\* Apply, refused collection: an unknown collection or the synthetic
\* service-entry collection returns an error and changes nothing.
ApplyUnsupported(c) ==
    /\ applier.pc = "idle"
    /\ c \notin Collections \/ c = SyntheticSE
    /\ UNCHANGED vars

\* Mutant: Apply writes into the published sub-map instead of a new one.
ApplyStartReusingMap(c, incr, n, removed) ==
    /\ applier.pc = "idle"
    /\ c \in Collections /\ c # SyntheticSE
    /\ applied < MaxApply
    /\ applied' = applied + 1
    /\ maps' = IF configStore[c] = NilMap THEN [maps EXCEPT ![applied + 1] = EmptyMap]
               ELSE maps
    /\ applier' = [pc |-> "objects", coll |-> c, incr |-> incr, left |-> n,
                   removed |-> removed,
                   inner |-> IF configStore[c] = NilMap THEN applied + 1 ELSE configStore[c],
                   prev |-> NilMap, touched |-> removed]
    /\ UNCHANGED <<configStore, synced, handlers, ledger, pushes, events,
                   readers>>

\* Mutant: the collection is marked synced before its map is swapped in.
ApplyStartSyncFirst(c, incr, n, removed) ==
    /\ applier.pc = "idle"
    /\ c \in Collections /\ c # SyntheticSE
    /\ applied < MaxApply
    /\ applied' = applied + 1
    /\ maps' = [maps EXCEPT ![applied + 1] = EmptyMap]
    /\ synced' = [synced EXCEPT ![c] = TRUE]
    /\ applier' = [pc |-> "objects", coll |-> c, incr |-> incr, left |-> n,
                   removed |-> removed, inner |-> applied + 1,
                   prev |-> NilMap, touched |-> removed]
    /\ UNCHANGED <<configStore, handlers, ledger, pushes, events, readers>>

\* Apply, accepted collection: allocate innerStore for the change.
ApplyStart(c, incr, n, removed) ==
    /\ applier.pc = "idle"
    /\ c \in Collections /\ c # SyntheticSE
    /\ applied < MaxApply
    /\ applied' = applied + 1
    /\ maps' = [maps EXCEPT ![applied + 1] = EmptyMap]
    /\ applier' = [pc |-> "objects", coll |-> c, incr |-> incr, left |-> n,
                   removed |-> removed, inner |-> applied + 1,
                   prev |-> NilMap, touched |-> removed]
    /\ UNCHANGED <<configStore, synced, handlers, ledger, pushes, events,
                   readers>>

\* One iteration of the loop over change.Objects: a discarded object is
\* skipped; an accepted one goes into innerStore and to the ledger, whose
\* Put may fail (the error is only logged).
ApplyObject(obj) ==
    /\ applier.pc = "objects"
    /\ applier.left > 0
    /\ IF obj.ok
         THEN /\ maps' = [maps EXCEPT ![applier.inner][obj.key] = obj.version]
              /\ \E written \in BOOLEAN :
                    ledger' = IF written
                                THEN [ledger EXCEPT ![<<applier.coll, obj.key>>] = obj.version]
                                ELSE ledger
              /\ applier' = [applier EXCEPT !.left = @ - 1,
                                            !.touched = @ \cup {obj.key}]
         ELSE /\ applier' = [applier EXCEPT !.left = @ - 1]
              /\ UNCHANGED <<maps, ledger>>
    /\ UNCHANGED <<configStore, synced, handlers, pushes, events, readers,
                   applied>>

\* The loop over change.Removed: each ledger Delete may fail.
ApplyRemoved ==
    /\ applier.pc = "objects"
    /\ applier.left = 0
    /\ \E deleted \in SUBSET applier.removed :
          ledger' = [ck \in Collections \X Keys |->
                       IF ck[1] = applier.coll /\ ck[2] \in deleted
                         THEN NoConfig ELSE ledger[ck]]
    /\ applier' = [applier EXCEPT !.pc = "swap"]
    /\ UNCHANGED <<maps, configStore, synced, handlers, pushes, events,
                   readers, applied>>

\* Under configStoreMu: prevStore = configStore[type]; configStore[type] = innerStore.
ApplySwap ==
    /\ applier.pc = "swap"
    /\ configStore' = [configStore EXCEPT ![applier.coll] = applier.inner]
    /\ applier' = [applier EXCEPT !.pc = "sync", !.prev = configStore[applier.coll]]
    /\ UNCHANGED <<maps, synced, handlers, ledger, pushes, events, readers,
                   applied>>

\* c.sync(change.Collection)
ApplySync ==
    /\ applier.pc = "sync"
    /\ synced' = [synced EXCEPT ![applier.coll] = TRUE]
    /\ applier' = [applier EXCEPT !.pc = "dispatch"]
    /\ UNCHANGED <<maps, configStore, handlers, ledger, pushes, events,
                   readers, applied>>

\* Mutant: Update is sent without comparing ResourceVersion.
ServiceEntryEventsNoVersionCheck(cur, prev) ==
    { [kind |-> IF prev[k] = NoConfig THEN "add" ELSE "update",
       key |-> k, version |-> cur[k]] : k \in {k \in Keys : cur[k] # NoConfig} }
    \cup
    { [kind |-> "delete", key |-> k, version |-> prev[k]] :
         k \in {k \in Keys : prev[k] # NoConfig /\ cur[k] = NoConfig} }

\* serviceEntryEvents(currentStore, prevStore): Add for a key new to the
\* type, Update for a key whose ResourceVersion changed, Delete for a key
\* that is gone.  Nothing is dispatched when no handler is registered.
ServiceEntryEvents(cur, prev) ==
    { [kind |-> IF prev[k] = NoConfig THEN "add" ELSE "update",
       key |-> k, version |-> cur[k]] :
         k \in {k \in Keys : cur[k] # NoConfig /\ cur[k] # prev[k]} }
    \cup
    { [kind |-> "delete", key |-> k, version |-> prev[k]] :
         k \in {k \in Keys : prev[k] # NoConfig /\ cur[k] = NoConfig} }

\* The tail of Apply: events for ServiceEntry, a full push for other types.
ApplyDispatch ==
    /\ applier.pc = "dispatch"
    /\ IF applier.coll = ServiceEntry
         THEN /\ events' = IF handlers[ServiceEntry] > 0
                             THEN ServiceEntryEvents(maps[applier.inner],
                                                     Contents(applier.prev))
                             ELSE {}
              /\ UNCHANGED pushes
         ELSE /\ pushes' = [pushes EXCEPT ![applier.coll] = @ + 1]
              /\ UNCHANGED events
    /\ applier' = IdleApplier
    /\ UNCHANGED <<maps, configStore, synced, handlers, ledger, readers,
                   applied>>

\* RegisterEventHandler(typ, handler): appended, never removed.
RegisterEventHandler(typ) ==
    /\ handlers[typ] < MaxHandlers
    /\ handlers' = [handlers EXCEPT ![typ] = @ + 1]
    /\ UNCHANGED <<maps, configStore, synced, ledger, pushes, events, applier,
                   readers, applied>>

\* List(typ, ""): byType = configStore[typ] under the lock; a missing
\* sub-map returns nil at once.  `seen` records the map at that instant.
ListLock(r, typ) ==
    /\ readers[r].pc = "idle"
    /\ readers' = [readers EXCEPT ![r] =
                     [pc |-> IF configStore[typ] = NilMap THEN "done" ELSE "iter",
                      typ |-> typ, ref |-> configStore[typ], out |-> EmptyMap,
                      seen |-> Contents(configStore[typ]), visited |-> {}]]
    /\ UNCHANGED <<maps, configStore, synced, handlers, ledger, pushes, events,
                   applier, applied>>

\* One step of the unlocked iteration over byType, in map order.
ListIterate(r) ==
    /\ readers[r].pc = "iter"
    /\ \E k \in Keys \ readers[r].visited :
          LET visited == readers[r].visited \cup {k}
          IN readers' = [readers EXCEPT
                           ![r].out[k] = maps[readers[r].ref][k],
                           ![r].visited = visited,
                           ![r].pc = IF visited = Keys THEN "done" ELSE "iter"]
    /\ UNCHANGED <<maps, configStore, synced, handlers, ledger, pushes, events,
                   applier, applied>>

\* List returns out to its caller.
ListReturn(r) ==
    /\ readers[r].pc = "done"
    /\ readers' = [readers EXCEPT ![r] = IdleReader]
    /\ UNCHANGED <<maps, configStore, synced, handlers, ledger, pushes, events,
                   applier, applied>>

Next ==
    \/ \E c \in Collections \cup {Unknown, SyntheticSE} : ApplyUnsupported(c)
    \/ \E c \in Collections, incr \in BOOLEAN, n \in 0..MaxObjects,
          removed \in SUBSET Keys : ApplyStart(c, incr, n, removed)
    \/ \E obj \in Object : ApplyObject(obj)
    \/ ApplyRemoved
    \/ ApplySwap
    \/ ApplySync
    \/ ApplyDispatch
    \/ \E typ \in Collections : RegisterEventHandler(typ)
    \/ \E r \in Readers :
          \/ \E typ \in Collections : ListLock(r, typ)
          \/ ListIterate(r)
          \/ ListReturn(r)

Spec == Init /\ [][Next]_vars

-----------------------------------------------------------------------------
(***************************************************************************)
(* Properties.                                                             *)
(***************************************************************************)

\* Every variable keeps its type.
TypeOK ==
    /\ maps \in [MapIds -> [Keys -> Slot]]
    /\ configStore \in [Collections -> MapIds \cup {NilMap}]
    /\ synced \in [Collections -> BOOLEAN]
    /\ handlers \in [Collections -> 0..MaxHandlers]
    /\ ledger \in [Collections \X Keys -> Slot]
    /\ pushes \in [Collections -> Nat]
    /\ events \subseteq Event
    /\ applied \in 0..MaxApply
    /\ applier \in [pc : {"idle", "objects", "swap", "sync", "dispatch"},
                    coll : Collections \cup {Unknown}, incr : BOOLEAN,
                    left : 0..MaxObjects, removed : SUBSET Keys,
                    inner : MapIds \cup {NilMap}, prev : MapIds \cup {NilMap},
                    touched : SUBSET Keys]
    /\ readers \in [Readers -> [pc : {"idle", "iter", "done"},
                                typ : Collections, ref : MapIds \cup {NilMap},
                                out : [Keys -> Slot], seen : [Keys -> Slot],
                                visited : SUBSET Keys]]

\* List reads the sub-map outside configStoreMu (controller.go:118, "ByType
\* does not need locking since we replace the entire sub-map"): whatever
\* Apply does meanwhile, a List returns exactly the map that was published
\* when it took the lock, never a mix of an old and a new collection.
ListAtomic ==
    \A r \in Readers : readers[r].pc = "done" => readers[r].out = readers[r].seen

\* HasSynced for a collection is never reported before its first change is
\* visible to List: sync(collection) runs only after the swap (Apply).
SyncedImpliesPublished ==
    \A c \in Collections : synced[c] => configStore[c] # NilMap

\* The map a handler rebuilds from one round of serviceEntryEvents.
Replay(m, E) ==
    [k \in Keys |->
        IF \E e \in E : e.key = k /\ e.kind = "delete" THEN NoConfig
        ELSE IF \E e \in E : e.key = k THEN (CHOOSE e \in E : e.key = k).version
        ELSE m[k]]

\* A step that ends a ServiceEntry Apply with a handler registered sends
\* events that, applied by the handler to the contents before the change,
\* give exactly the contents after it; an Add names a new key, an Update a
\* changed version.
DiffStep ==
    (/\ applier.pc = "dispatch" /\ applier'.pc = "idle"
     /\ applier.coll = ServiceEntry /\ handlers[ServiceEntry] > 0)
    => LET prev == Contents(applier.prev)
       IN /\ Replay(prev, events') = maps[applier.inner]
          /\ \A e \in events' :
                /\ e.kind = "add" => prev[e.key] = NoConfig
                /\ e.kind = "update" => prev[e.key] \notin {NoConfig, e.version}

\* The events of one ServiceEntry change (serviceEntryEvents), applied by a
\* handler to the contents before the change, give exactly the contents
\* after it; an Add is only sent for a new key, an Update only for a
\* changed version.
DiffExact == [][DiffStep]_vars

\* Spec section 3: an incremental change only touches the keys it upserts or
\* removes; every other record of the collection is preserved.
IncrementalPreservesUntouched ==
    applier.pc \in {"sync", "dispatch"} /\ applier.incr =>
        \A k \in Keys \ applier.touched :
            Contents(configStore[applier.coll])[k] = Contents(applier.prev)[k]

=============================================================================
