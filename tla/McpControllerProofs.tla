------------------------- MODULE McpControllerProofs -------------------------
(***************************************************************************)
(* Machine-checked proofs about the generic MCP controller                 *)
(* (McpController, pilot/pkg/serviceregistry/mcp/controller.go), for every *)
(* value of the constants that satisfies the module's assumptions.         *)
(*                                                                         *)
(* None of TypeOK, SyncedImpliesPublished or ListAtomic is inductive as    *)
(* stated; each is proved from a strengthening that TLC checks first on    *)
(* the MCMcpController instance.                                           *)
(***************************************************************************)
EXTENDS McpController, TLAPS

USE CollectionsAssumption, BoundsAssumption, NilMapAssumption

-----------------------------------------------------------------------------
(***************************************************************************)
(* Typing.  TypeOK alone does not say which heap entries the running      *)
(* Apply and List goroutines dereference: innerStore is an allocated map   *)
(* of an accepted collection while Apply runs, and a reader iterates only  *)
(* a map it found published.                                               *)
(***************************************************************************)
TypeInv ==
    /\ TypeOK
    /\ applier.pc # "idle" => applier.coll \in Collections /\ applier.inner \in MapIds
    /\ \A r \in Readers : readers[r].pc = "iter" => readers[r].ref \in MapIds

\* Every event serviceEntryEvents builds from two typed maps is an Event.
LEMMA ServiceEntryEventsType ==
    ASSUME NEW cur \in [Keys -> Slot], NEW prev \in [Keys -> Slot]
    PROVE  ServiceEntryEvents(cur, prev) \subseteq Event
BY DEF ServiceEntryEvents, Event, EventKinds, Slot

\* Contents of a published or missing reference is a typed map.
LEMMA ContentsType ==
    ASSUME NEW m \in [MapIds -> [Keys -> Slot]], NEW ref \in MapIds \cup {NilMap}
    PROVE  (IF ref = NilMap THEN EmptyMap ELSE m[ref]) \in [Keys -> Slot]
BY DEF EmptyMap, Slot

LEMMA TypeInit == Init => TypeInv
BY DEF Init, TypeInv, TypeOK, IdleApplier, IdleReader, EmptyMap, Slot, MapIds,
       Contents

LEMMA TypeStep == TypeInv /\ [Next]_vars => TypeInv'
<1> SUFFICES ASSUME TypeInv, [Next]_vars PROVE TypeInv'
  OBVIOUS
<1>1. ASSUME NEW c \in Collections \cup {Unknown, SyntheticSE}, ApplyUnsupported(c)
      PROVE  TypeInv'
  BY <1>1 DEF ApplyUnsupported, vars, TypeInv, TypeOK
<1>2. ASSUME NEW c \in Collections, NEW incr \in BOOLEAN, NEW n \in 0..MaxObjects,
             NEW removed \in SUBSET Keys, ApplyStart(c, incr, n, removed)
      PROVE  TypeInv'
  <2>1. applied + 1 \in MapIds /\ applied' = applied + 1
    BY <1>2 DEF ApplyStart, TypeInv, TypeOK, MapIds
  <2>2. maps' \in [MapIds -> [Keys -> Slot]]
    BY <1>2, <2>1 DEF ApplyStart, TypeInv, TypeOK, EmptyMap, Slot
  <2>3. applier' \in [pc : {"idle", "objects", "swap", "sync", "dispatch"},
                      coll : Collections \cup {Unknown}, incr : BOOLEAN,
                      left : 0..MaxObjects, removed : SUBSET Keys,
                      inner : MapIds \cup {NilMap}, prev : MapIds \cup {NilMap},
                      touched : SUBSET Keys]
        /\ applier'.coll \in Collections /\ applier'.inner \in MapIds
    BY <1>2, <2>1 DEF ApplyStart
  <2>4. applied' \in 0..MaxApply
    BY <2>1 DEF MapIds
  <2>5. QED
    BY <1>2, <2>2, <2>3, <2>4 DEF ApplyStart, TypeInv, TypeOK
<1>3. ASSUME NEW obj \in Object, ApplyObject(obj)
      PROVE  TypeInv'
  <2>1. applier.pc = "objects" /\ applier.left > 0 /\ applier.inner \in MapIds
        /\ applier.coll \in Collections
    BY <1>3 DEF ApplyObject, TypeInv
  <2>2. applier.left - 1 \in 0..MaxObjects
    BY <2>1 DEF TypeInv, TypeOK
  <2>3. CASE obj.ok
    <3>0. maps' = [maps EXCEPT ![applier.inner] =
                     [maps[applier.inner] EXCEPT ![obj.key] = obj.version]]
      BY <1>3, <2>3 DEF ApplyObject
    <3>1. maps' \in [MapIds -> [Keys -> Slot]]
      <4>1. obj.key \in Keys /\ obj.version \in Slot
        BY DEF Object, Slot
      <4>2. [maps[applier.inner] EXCEPT ![obj.key] = obj.version] \in [Keys -> Slot]
        BY <2>1, <4>1 DEF TypeInv, TypeOK
      <4>3. QED
        BY <3>0, <4>2 DEF TypeInv, TypeOK
    <3>2. ledger' \in [Collections \X Keys -> Slot]
      BY <1>3, <2>1, <2>3 DEF ApplyObject, TypeInv, TypeOK, Object, Slot
    <3>3. applier' = [applier EXCEPT !.left = applier.left - 1,
                                     !.touched = applier.touched \cup {obj.key}]
      BY <1>3, <2>3 DEF ApplyObject
    <3>4. QED
      BY <1>3, <2>1, <2>2, <3>1, <3>2, <3>3 DEF ApplyObject, TypeInv, TypeOK, Object
  <2>4. CASE ~obj.ok
    <3>1. applier' = [applier EXCEPT !.left = applier.left - 1]
          /\ UNCHANGED <<maps, ledger>>
      BY <1>3, <2>4 DEF ApplyObject
    <3>2. QED
      BY <1>3, <2>1, <2>2, <3>1 DEF ApplyObject, TypeInv, TypeOK
  <2>5. QED
    BY <2>3, <2>4
<1>4. CASE ApplyRemoved
  BY <1>4 DEF ApplyRemoved, TypeInv, TypeOK, Slot
<1>5. CASE ApplySwap
  BY <1>5 DEF ApplySwap, TypeInv, TypeOK
<1>6. CASE ApplySync
  BY <1>6 DEF ApplySync, TypeInv, TypeOK
<1>7. CASE ApplyDispatch
  <2>1. applier.pc = "dispatch" /\ applier.coll \in Collections
        /\ applier.inner \in MapIds
    BY <1>7 DEF ApplyDispatch, TypeInv
  <2>2. Contents(applier.prev) \in [Keys -> Slot]
    BY ContentsType DEF TypeInv, TypeOK, Contents
  <2>3. ServiceEntryEvents(maps[applier.inner], Contents(applier.prev)) \subseteq Event
    BY <2>1, <2>2, ServiceEntryEventsType DEF TypeInv, TypeOK
  <2>4. QED
    BY <1>7, <2>1, <2>3 DEF ApplyDispatch, TypeInv, TypeOK, IdleApplier
<1>8. ASSUME NEW typ \in Collections, RegisterEventHandler(typ)
      PROVE  TypeInv'
  BY <1>8 DEF RegisterEventHandler, TypeInv, TypeOK
<1>9. ASSUME NEW r \in Readers, NEW typ \in Collections, ListLock(r, typ)
      PROVE  TypeInv'
  <2>1. Contents(configStore[typ]) \in [Keys -> Slot]
    BY ContentsType DEF TypeInv, TypeOK, Contents
  <2>2. QED
    BY <1>9, <2>1 DEF ListLock, TypeInv, TypeOK, EmptyMap, Slot
<1>10. ASSUME NEW r \in Readers, ListIterate(r)
       PROVE  TypeInv'
  <2>1. PICK k \in Keys \ readers[r].visited :
               readers' = [readers EXCEPT
                             ![r].out[k] = maps[readers[r].ref][k],
                             ![r].visited = readers[r].visited \cup {k},
                             ![r].pc = IF readers[r].visited \cup {k} = Keys
                                         THEN "done" ELSE "iter"]
    BY <1>10 DEF ListIterate
  <2>2. readers[r].ref \in MapIds
    BY <1>10 DEF ListIterate, TypeInv
  <2>3. maps[readers[r].ref][k] \in Slot
    BY <2>1, <2>2 DEF TypeInv, TypeOK
  <2>35. readers'[r] = [readers[r] EXCEPT
                          !.out = [readers[r].out EXCEPT ![k] = maps[readers[r].ref][k]],
                          !.visited = readers[r].visited \cup {k},
                          !.pc = IF readers[r].visited \cup {k} = Keys
                                   THEN "done" ELSE "iter"]
    BY <2>1 DEF TypeInv, TypeOK
  <2>4. readers'[r] \in [pc : {"idle", "iter", "done"},
                         typ : Collections, ref : MapIds \cup {NilMap},
                         out : [Keys -> Slot], seen : [Keys -> Slot],
                         visited : SUBSET Keys]
        /\ readers'[r].ref = readers[r].ref
    <3>1. k \in Keys /\ readers[r].visited \cup {k} \in SUBSET Keys
      BY <2>1 DEF TypeInv, TypeOK
    <3>2. [readers[r].out EXCEPT ![k] = maps[readers[r].ref][k]] \in [Keys -> Slot]
      BY <2>3, <3>1 DEF TypeInv, TypeOK
    <3>3. readers[r] \in [pc : {"idle", "iter", "done"},
                         typ : Collections, ref : MapIds \cup {NilMap},
                         out : [Keys -> Slot], seen : [Keys -> Slot],
                         visited : SUBSET Keys]
      BY DEF TypeInv, TypeOK
    <3>4. QED
      BY <2>35, <3>1, <3>2, <3>3
  <2>5. \A s \in Readers \ {r} : readers'[s] = readers[s]
    BY <2>1 DEF TypeInv, TypeOK
  <2>6. readers' \in [Readers -> [pc : {"idle", "iter", "done"},
                         typ : Collections, ref : MapIds \cup {NilMap},
                         out : [Keys -> Slot], seen : [Keys -> Slot],
                         visited : SUBSET Keys]]
    BY <2>1, <2>4, <2>5 DEF TypeInv, TypeOK
  <2>7. QED
    BY <1>10, <2>2, <2>4, <2>5, <2>6 DEF ListIterate, TypeInv, TypeOK
<1>11. ASSUME NEW r \in Readers, ListReturn(r)
       PROVE  TypeInv'
  BY <1>11 DEF ListReturn, TypeInv, TypeOK, IdleReader, EmptyMap, Slot
<1>12. CASE UNCHANGED vars
  BY <1>12 DEF vars, TypeInv, TypeOK
<1>13. QED
  BY <1>1, <1>2, <1>3, <1>4, <1>5, <1>6, <1>7, <1>8, <1>9, <1>10, <1>11, <1>12
  DEF Next

\* Apply and List keep every variable of the controller within its type.
THEOREM TypeCorrect == Spec => []TypeOK
<1>1. TypeInv => TypeOK
  BY DEF TypeInv
<1>2. QED
  BY TypeInit, TypeStep, <1>1, PTL DEF Spec

-----------------------------------------------------------------------------
(***************************************************************************)
(* Synced collections are published.  The invariant needs to know that     *)
(* between the swap and the end of Apply the collection being applied is   *)
(* already in configStore: sync(collection) runs in that window.           *)
(***************************************************************************)
SyncInv ==
    /\ SyncedImpliesPublished
    /\ applier.pc \in {"sync", "dispatch"} => configStore[applier.coll] # NilMap

LEMMA SyncInit == Init => SyncInv
BY DEF Init, SyncInv, SyncedImpliesPublished, IdleApplier

LEMMA SyncStep == TypeInv /\ SyncInv /\ [Next]_vars => SyncInv'
<1> SUFFICES ASSUME TypeInv, SyncInv, [Next]_vars PROVE SyncInv'
  OBVIOUS
<1>1. ASSUME NEW c \in Collections \cup {Unknown, SyntheticSE}, ApplyUnsupported(c)
      PROVE  SyncInv'
  BY <1>1 DEF ApplyUnsupported, vars, SyncInv, SyncedImpliesPublished
<1>2. ASSUME NEW c \in Collections, NEW incr \in BOOLEAN, NEW n \in 0..MaxObjects,
             NEW removed \in SUBSET Keys, ApplyStart(c, incr, n, removed)
      PROVE  SyncInv'
  BY <1>2 DEF ApplyStart, SyncInv, SyncedImpliesPublished
<1>3. ASSUME NEW obj \in Object, ApplyObject(obj)
      PROVE  SyncInv'
  <2>1. applier'.pc = "objects"
    BY <1>3 DEF ApplyObject, TypeInv, TypeOK
  <2>2. QED
    BY <1>3, <2>1 DEF ApplyObject, SyncInv, SyncedImpliesPublished
<1>4. CASE ApplyRemoved
  BY <1>4 DEF ApplyRemoved, SyncInv, SyncedImpliesPublished, TypeInv, TypeOK
<1>5. CASE ApplySwap
  <2>1. applier.coll \in Collections /\ applier.inner \in MapIds
    BY <1>5 DEF ApplySwap, TypeInv
  <2>2. configStore'[applier.coll] = applier.inner /\ applier.inner # NilMap
    BY <1>5, <2>1 DEF ApplySwap, TypeInv, TypeOK, MapIds
  <2>3. \A c \in Collections : configStore[c] # NilMap => configStore'[c] # NilMap
    BY <1>5, <2>2 DEF ApplySwap, TypeInv, TypeOK
  <2>4. QED
    BY <1>5, <2>2, <2>3 DEF ApplySwap, SyncInv, SyncedImpliesPublished, TypeInv, TypeOK
<1>6. CASE ApplySync
  <2>1. applier.coll \in Collections /\ configStore[applier.coll] # NilMap
    BY <1>6 DEF ApplySync, TypeInv, SyncInv
  <2>2. QED
    BY <1>6, <2>1 DEF ApplySync, SyncInv, SyncedImpliesPublished, TypeInv, TypeOK
<1>7. CASE ApplyDispatch
  BY <1>7 DEF ApplyDispatch, SyncInv, SyncedImpliesPublished, IdleApplier
<1>8. ASSUME NEW typ \in Collections, RegisterEventHandler(typ)
      PROVE  SyncInv'
  BY <1>8 DEF RegisterEventHandler, SyncInv, SyncedImpliesPublished
<1>9. ASSUME NEW r \in Readers, NEW typ \in Collections, ListLock(r, typ)
      PROVE  SyncInv'
  BY <1>9 DEF ListLock, SyncInv, SyncedImpliesPublished
<1>10. ASSUME NEW r \in Readers, ListIterate(r)
       PROVE  SyncInv'
  BY <1>10 DEF ListIterate, SyncInv, SyncedImpliesPublished
<1>11. ASSUME NEW r \in Readers, ListReturn(r)
       PROVE  SyncInv'
  BY <1>11 DEF ListReturn, SyncInv, SyncedImpliesPublished
<1>12. CASE UNCHANGED vars
  BY <1>12 DEF vars, SyncInv, SyncedImpliesPublished
<1>13. QED
  BY <1>1, <1>2, <1>3, <1>4, <1>5, <1>6, <1>7, <1>8, <1>9, <1>10, <1>11, <1>12
  DEF Next

\* HasSynced never reports a collection whose first change List cannot yet
\* see: Apply calls sync(collection) only after swapping innerStore in.
THEOREM SyncedPublished == Spec => []SyncedImpliesPublished
<1>1. SyncInv => SyncedImpliesPublished
  BY DEF SyncInv
<1>2. QED
  BY TypeInit, TypeStep, SyncInit, SyncStep, <1>1, PTL DEF Spec

-----------------------------------------------------------------------------
(***************************************************************************)
(* List is atomic although it iterates outside configStoreMu.  The         *)
(* argument: Apply writes only to the map it allocated last (id applied),  *)
(* and while it writes, that map is neither published nor held by a        *)
(* reader; every published or held map has an id no larger than applied,  *)
(* so the fresh map of the next Apply is never one of them.  Hence a       *)
(* reader's map keeps the contents it had at the lock, and every key it    *)
(* copied agrees with them.                                                *)
(***************************************************************************)
HeapInv ==
    /\ \A c \in Collections : configStore[c] # NilMap => configStore[c] <= applied
    /\ \A r \in Readers : readers[r].pc = "iter" => readers[r].ref <= applied
    /\ applier.pc # "idle" => applier.inner = applied
    /\ applier.pc = "objects" =>
          /\ \A c \in Collections : configStore[c] # applier.inner
          /\ \A r \in Readers : readers[r].pc = "iter" => readers[r].ref # applier.inner

\* What a List goroutine has copied so far agrees with the map it locked.
ReaderInv(r) ==
    /\ readers[r].pc = "iter" =>
          /\ maps[readers[r].ref] = readers[r].seen
          /\ \A k \in readers[r].visited : readers[r].out[k] = readers[r].seen[k]
    /\ readers[r].pc = "done" => readers[r].out = readers[r].seen

ListInv == \A r \in Readers : ReaderInv(r)

LEMMA ListInit == Init => HeapInv /\ ListInv
BY DEF Init, HeapInv, ListInv, ReaderInv, IdleApplier, IdleReader

\* A step that moves neither the maps nor the readers keeps every reader's view.
LEMMA ListUnchanged ==
    ASSUME ListInv, UNCHANGED <<maps, readers>>
    PROVE  ListInv'
BY DEF ListInv, ReaderInv

LEMMA ListStep ==
    TypeInv /\ HeapInv /\ ListInv /\ [Next]_vars => HeapInv' /\ ListInv'
<1> SUFFICES ASSUME TypeInv, HeapInv, ListInv, [Next]_vars
             PROVE  HeapInv' /\ ListInv'
  OBVIOUS
<1>0. /\ TypeOK
      /\ applier.pc # "idle" => applier.coll \in Collections /\ applier.inner \in MapIds
      /\ \A r \in Readers : readers[r].pc = "iter" => readers[r].ref \in MapIds
  BY DEF TypeInv
<1>1. ASSUME NEW c \in Collections \cup {Unknown, SyntheticSE}, ApplyUnsupported(c)
      PROVE  HeapInv' /\ ListInv'
  BY <1>1, ListUnchanged DEF ApplyUnsupported, vars, HeapInv
<1>2. ASSUME NEW c \in Collections, NEW incr \in BOOLEAN, NEW n \in 0..MaxObjects,
             NEW removed \in SUBSET Keys, ApplyStart(c, incr, n, removed)
      PROVE  HeapInv' /\ ListInv'
  <2>1. applied \in Nat /\ applied' = applied + 1 /\ applier'.inner = applied + 1
        /\ applier'.pc = "objects"
        /\ maps' = [maps EXCEPT ![applied + 1] = EmptyMap]
        /\ UNCHANGED <<configStore, readers>>
    BY <1>0, <1>2 DEF ApplyStart, TypeOK
  <2>2. \A c2 \in Collections : configStore[c2] # NilMap => configStore[c2] \in Nat
    <3>1. configStore \in [Collections -> MapIds \cup {NilMap}]
      BY <1>0 DEF TypeOK
    <3>2. MapIds \subseteq Nat
      BY DEF MapIds
    <3>3. QED
      BY <3>1, <3>2
  <2>3. \A r \in Readers : readers[r].pc = "iter" => readers[r].ref \in Nat
    BY <1>0 DEF MapIds
  <2>4. HeapInv'
    BY <2>1, <2>2, <2>3 DEF HeapInv
  <2>5. ASSUME NEW r \in Readers PROVE ReaderInv(r)'
    <3>1. readers[r].pc = "iter" => maps'[readers[r].ref] = maps[readers[r].ref]
      BY <1>0, <2>1, <2>3 DEF HeapInv, TypeOK
    <3>2. QED
      BY <2>1, <3>1 DEF ListInv, ReaderInv
  <2>6. QED
    BY <2>4, <2>5 DEF ListInv
<1>3. ASSUME NEW obj \in Object, ApplyObject(obj)
      PROVE  HeapInv' /\ ListInv'
  <2>1. applier.pc = "objects" /\ applier'.pc = "objects"
        /\ applier'.inner = applier.inner
        /\ UNCHANGED <<configStore, readers, applied>>
    BY <1>0, <1>3 DEF ApplyObject, TypeOK
  <2>2. HeapInv'
    BY <2>1 DEF HeapInv
  <2>3. \A m \in MapIds : m # applier.inner => maps'[m] = maps[m]
    BY <1>0, <1>3 DEF ApplyObject, TypeOK
  <2>4. ASSUME NEW r \in Readers PROVE ReaderInv(r)'
    <3>1. readers[r].pc = "iter" => maps'[readers[r].ref] = maps[readers[r].ref]
      BY <1>0, <2>1, <2>3 DEF HeapInv
    <3>2. QED
      BY <2>1, <3>1 DEF ListInv, ReaderInv
  <2>5. QED
    BY <2>2, <2>4 DEF ListInv
<1>4. CASE ApplyRemoved
  BY <1>4, ListUnchanged DEF ApplyRemoved, HeapInv
<1>5. CASE ApplySwap
  <2>1. configStore' = [configStore EXCEPT ![applier.coll] = applier.inner]
        /\ applier'.pc = "sync" /\ applier'.inner = applier.inner
        /\ applier.pc = "swap"
        /\ UNCHANGED <<maps, readers, applied>>
    BY <1>0, <1>5 DEF ApplySwap, TypeOK
  <2>2. HeapInv'
    BY <1>0, <2>1 DEF HeapInv, TypeOK
  <2>3. QED
    BY <2>1, <2>2, ListUnchanged
<1>6. CASE ApplySync
  BY <1>0, <1>6, ListUnchanged DEF ApplySync, HeapInv, TypeOK
<1>7. CASE ApplyDispatch
  BY <1>7, ListUnchanged DEF ApplyDispatch, HeapInv, IdleApplier
<1>8. ASSUME NEW typ \in Collections, RegisterEventHandler(typ)
      PROVE  HeapInv' /\ ListInv'
  BY <1>8, ListUnchanged DEF RegisterEventHandler, HeapInv
<1>9. ASSUME NEW r \in Readers, NEW typ \in Collections, ListLock(r, typ)
      PROVE  HeapInv' /\ ListInv'
  <2>1. /\ readers'[r].pc = IF configStore[typ] = NilMap THEN "done" ELSE "iter"
        /\ readers'[r].ref = configStore[typ]
        /\ readers'[r].out = EmptyMap
        /\ readers'[r].seen = Contents(configStore[typ])
        /\ readers'[r].visited = {}
        /\ \A s \in Readers \ {r} : readers'[s] = readers[s]
        /\ UNCHANGED <<maps, configStore, applier, applied>>
    BY <1>0, <1>9 DEF ListLock, TypeOK
  <2>2. HeapInv'
    <3>1. readers'[r].pc = "iter" => readers'[r].ref <= applied
      BY <2>1 DEF HeapInv
    <3>2. applier.pc = "objects" /\ readers'[r].pc = "iter"
            => readers'[r].ref # applier.inner
      BY <2>1 DEF HeapInv
    <3>3. QED
      BY <2>1, <3>1, <3>2 DEF HeapInv
  <2>3. ReaderInv(r)'
    <3>1. CASE configStore[typ] = NilMap
      BY <2>1, <3>1 DEF ReaderInv, Contents
    <3>2. CASE configStore[typ] # NilMap
      BY <2>1, <3>2 DEF ReaderInv, Contents
    <3>3. QED
      BY <3>1, <3>2
  <2>4. \A s \in Readers \ {r} : ReaderInv(s)'
    BY <2>1 DEF ListInv, ReaderInv
  <2>5. QED
    BY <2>2, <2>3, <2>4 DEF ListInv
<1>10. ASSUME NEW r \in Readers, ListIterate(r)
       PROVE  HeapInv' /\ ListInv'
  <2>1. PICK k \in Keys \ readers[r].visited :
               readers' = [readers EXCEPT
                             ![r].out[k] = maps[readers[r].ref][k],
                             ![r].visited = readers[r].visited \cup {k},
                             ![r].pc = IF readers[r].visited \cup {k} = Keys
                                         THEN "done" ELSE "iter"]
    BY <1>10 DEF ListIterate
  <2>2. UNCHANGED <<maps, configStore, applier, applied>>
        /\ readers[r].pc = "iter"
    BY <1>10 DEF ListIterate
  <2>3. \A s \in Readers \ {r} : readers'[s] = readers[s]
    BY <1>0, <2>1 DEF TypeOK
  <2>4. readers'[r] = [readers[r] EXCEPT
                         !.out = [readers[r].out EXCEPT ![k] = maps[readers[r].ref][k]],
                         !.visited = readers[r].visited \cup {k},
                         !.pc = IF readers[r].visited \cup {k} = Keys
                                  THEN "done" ELSE "iter"]
    BY <1>0, <2>1 DEF TypeOK
  <2>5. readers[r] \in [pc : {"idle", "iter", "done"},
                        typ : Collections, ref : MapIds \cup {NilMap},
                        out : [Keys -> Slot], seen : [Keys -> Slot],
                        visited : SUBSET Keys]
    BY <1>0 DEF TypeOK
  <2>6. /\ readers'[r].ref = readers[r].ref
        /\ readers'[r].seen = readers[r].seen
        /\ readers'[r].visited = readers[r].visited \cup {k}
        /\ readers'[r].out = [readers[r].out EXCEPT ![k] = maps[readers[r].ref][k]]
        /\ readers'[r].pc = IF readers[r].visited \cup {k} = Keys THEN "done" ELSE "iter"
    BY <2>4, <2>5
  <2>7. HeapInv'
    BY <2>2, <2>3, <2>6 DEF HeapInv
  <2>8. \A j \in readers'[r].visited : readers'[r].out[j] = readers'[r].seen[j]
    <3>1. maps[readers[r].ref] = readers[r].seen
          /\ \A j \in readers[r].visited : readers[r].out[j] = readers[r].seen[j]
      BY <2>2 DEF ListInv, ReaderInv
    <3>2. k \in Keys /\ readers[r].out \in [Keys -> Slot]
      BY <2>1, <2>5
    <3>3. QED
      BY <2>6, <3>1, <3>2
  <2>9. ReaderInv(r)'
    <3>1. CASE readers[r].visited \cup {k} = Keys
      <4>1. readers'[r].out \in [Keys -> Slot] /\ readers'[r].seen \in [Keys -> Slot]
        <5>0. k \in Keys /\ readers[r].ref \in MapIds
          BY <1>0, <2>1, <2>2
        <5>1. maps[readers[r].ref][k] \in Slot
          BY <1>0, <5>0 DEF TypeOK
        <5>2. QED
          BY <2>5, <2>6, <5>0, <5>1
      <4>2. QED
        BY <2>6, <2>8, <3>1, <4>1 DEF ReaderInv
    <3>2. CASE readers[r].visited \cup {k} # Keys
      BY <2>2, <2>6, <2>8, <3>2 DEF ListInv, ReaderInv
    <3>3. QED
      BY <3>1, <3>2
  <2>10. \A s \in Readers \ {r} : ReaderInv(s)'
    BY <2>2, <2>3 DEF ListInv, ReaderInv
  <2>11. QED
    BY <2>7, <2>9, <2>10 DEF ListInv
<1>11. ASSUME NEW r \in Readers, ListReturn(r)
       PROVE  HeapInv' /\ ListInv'
  <2>1. /\ readers'[r] = IdleReader
        /\ \A s \in Readers \ {r} : readers'[s] = readers[s]
        /\ maps' = maps /\ configStore' = configStore
        /\ applier' = applier /\ applied' = applied
    BY <1>0, <1>11 DEF ListReturn, TypeOK
  <2>2. readers'[r].pc = "idle"
    BY <2>1 DEF IdleReader
  <2>3. HeapInv'
    <3>1. \A s \in Readers : readers'[s].pc = "iter" => readers'[s] = readers[s]
      BY <2>1, <2>2
    <3>2. \A s \in Readers : readers'[s].pc = "iter" => readers'[s].ref <= applied'
      BY <2>1, <3>1 DEF HeapInv
    <3>3. applier'.pc = "objects" =>
            \A s \in Readers : readers'[s].pc = "iter" => readers'[s].ref # applier'.inner
      BY <2>1, <3>1 DEF HeapInv
    <3>4. QED
      BY <2>1, <3>2, <3>3 DEF HeapInv
  <2>4. ListInv'
    BY <2>1, <2>2 DEF ListInv, ReaderInv
  <2>5. QED
    BY <2>3, <2>4
<1>12. CASE UNCHANGED vars
  BY <1>12, ListUnchanged DEF vars, HeapInv
<1>13. QED
  BY <1>1, <1>2, <1>3, <1>4, <1>5, <1>6, <1>7, <1>8, <1>9, <1>10, <1>11, <1>12
  DEF Next

\* List, which iterates the sub-map after releasing configStoreMu, returns
\* exactly the collection that was published when it took the lock, for
\* any number of collections, keys, readers and Apply calls.
THEOREM ListAtomicity == Spec => []ListAtomic
<1>1. TypeInv /\ HeapInv /\ ListInv => ListAtomic
  BY DEF ListInv, ReaderInv, ListAtomic
<1>2. TypeInv /\ HeapInv /\ ListInv /\ [Next]_vars => (TypeInv /\ HeapInv /\ ListInv)'
  BY TypeStep, ListStep
<1>3. QED
  BY TypeInit, ListInit, <1>1, <1>2, PTL DEF Spec

-----------------------------------------------------------------------------
(***************************************************************************)
(* serviceEntryEvents is an exact diff.  The add/update events and the     *)
(* delete events name disjoint keys (the first need a current config, the  *)
(* second its absence), so a handler finds at most one event per key, and  *)
(* it finds one exactly for the keys whose slot changed.                   *)
(***************************************************************************)

\* What each event of serviceEntryEvents says about its key.
LEMMA EventsOfKey ==
    ASSUME NEW cur \in [Keys -> Slot], NEW prev \in [Keys -> Slot]
    PROVE  \A e \in ServiceEntryEvents(cur, prev) :
              /\ e.key \in Keys
              /\ cur[e.key] # prev[e.key]
              /\ e.kind = "delete" <=> cur[e.key] = NoConfig
              /\ e.kind # "delete" => e.version = cur[e.key]
              /\ e.kind = "delete" => prev[e.key] # NoConfig
              /\ e.kind = "add" => prev[e.key] = NoConfig
              /\ e.kind = "update" => prev[e.key] \notin {NoConfig, e.version}
BY DEF ServiceEntryEvents

\* Every key whose slot changed has an event.
LEMMA EventForChange ==
    ASSUME NEW cur \in [Keys -> Slot], NEW prev \in [Keys -> Slot],
           NEW k \in Keys, cur[k] # prev[k]
    PROVE  \E e \in ServiceEntryEvents(cur, prev) : e.key = k
<1>1. CASE cur[k] = NoConfig
  <2>1. [kind |-> "delete", key |-> k, version |-> prev[k]] \in ServiceEntryEvents(cur, prev)
    BY <1>1 DEF ServiceEntryEvents
  <2>2. QED
    BY <2>1
<1>2. CASE cur[k] # NoConfig
  <2>1. [kind |-> IF prev[k] = NoConfig THEN "add" ELSE "update",
         key |-> k, version |-> cur[k]] \in ServiceEntryEvents(cur, prev)
    BY <1>2 DEF ServiceEntryEvents
  <2>2. QED
    BY <2>1
<1>3. QED
  BY <1>1, <1>2

\* Replaying serviceEntryEvents(cur, prev) over prev rebuilds cur.
LEMMA ReplayDiff ==
    ASSUME NEW cur \in [Keys -> Slot], NEW prev \in [Keys -> Slot]
    PROVE  Replay(prev, ServiceEntryEvents(cur, prev)) = cur
<1> DEFINE E == ServiceEntryEvents(cur, prev)
<1>1. \A e \in E :
         /\ e.key \in Keys
         /\ cur[e.key] # prev[e.key]
         /\ e.kind = "delete" <=> cur[e.key] = NoConfig
         /\ e.kind # "delete" => e.version = cur[e.key]
  BY EventsOfKey
<1>2. SUFFICES ASSUME NEW k \in Keys PROVE Replay(prev, E)[k] = cur[k]
  BY DEF Replay
<1>3. CASE cur[k] = prev[k]
  <2>1. ~\E e \in E : e.key = k
    BY <1>1, <1>3
  <2>2. QED
    BY <1>3, <2>1 DEF Replay
<1>4. CASE cur[k] # prev[k] /\ cur[k] = NoConfig
  <2>1. PICK e \in E : e.key = k
    BY <1>4, EventForChange
  <2>2. e.kind = "delete"
    BY <1>1, <1>4, <2>1
  <2>3. QED
    BY <1>4, <2>1, <2>2 DEF Replay
<1>5. CASE cur[k] # prev[k] /\ cur[k] # NoConfig
  <2>1. \E e \in E : e.key = k
    BY <1>5, EventForChange
  <2>2. ~\E e \in E : e.key = k /\ e.kind = "delete"
    BY <1>1, <1>5
  <2>3. (CHOOSE e \in E : e.key = k).version = cur[k]
    BY <1>1, <2>1, <2>2
  <2>4. Replay(prev, E)[k] = (CHOOSE e \in E : e.key = k).version
    BY <2>1, <2>2, Zenon DEF Replay
  <2>5. QED
    BY <2>3, <2>4
<1>6. QED
  BY <1>3, <1>4, <1>5

\* Only ApplyDispatch ends an Apply: no other step goes from dispatch to idle.
LEMMA OnlyDispatchEnds ==
    ASSUME TypeInv, [Next]_vars, ~ApplyDispatch,
           applier.pc = "dispatch"
    PROVE  applier'.pc # "idle"
<1>1. CASE \E c \in Collections \cup {Unknown, SyntheticSE} : ApplyUnsupported(c)
  BY <1>1 DEF ApplyUnsupported, vars
<1>2. CASE \E c \in Collections, incr \in BOOLEAN, n \in 0..MaxObjects,
             removed \in SUBSET Keys : ApplyStart(c, incr, n, removed)
  BY <1>2 DEF ApplyStart
<1>3. CASE \E obj \in Object : ApplyObject(obj)
  BY <1>3 DEF ApplyObject
<1>4. CASE ApplyRemoved \/ ApplySwap \/ ApplySync
  BY <1>4 DEF ApplyRemoved, ApplySwap, ApplySync
<1>5. CASE \E typ \in Collections : RegisterEventHandler(typ)
  BY <1>5 DEF RegisterEventHandler
<1>6. CASE \E r \in Readers :
             \/ \E typ \in Collections : ListLock(r, typ)
             \/ ListIterate(r)
             \/ ListReturn(r)
  BY <1>6 DEF ListLock, ListIterate, ListReturn
<1>7. CASE UNCHANGED vars
  BY <1>7 DEF vars
<1>8. QED
  BY <1>1, <1>2, <1>3, <1>4, <1>5, <1>6, <1>7 DEF Next

\* Every step of the controller is a DiffStep.
LEMMA DiffStepHolds == TypeInv /\ [Next]_vars => DiffStep
<1> SUFFICES ASSUME TypeInv, [Next]_vars,
                    applier.pc = "dispatch", applier'.pc = "idle",
                    applier.coll = ServiceEntry, handlers[ServiceEntry] > 0
             PROVE  LET prev == Contents(applier.prev)
                    IN /\ Replay(prev, events') = maps[applier.inner]
                       /\ \A e \in events' :
                             /\ e.kind = "add" => prev[e.key] = NoConfig
                             /\ e.kind = "update" => prev[e.key] \notin {NoConfig, e.version}
  BY DEF DiffStep
<1>1. ApplyDispatch
  BY OnlyDispatchEnds
<1>2. events' = ServiceEntryEvents(maps[applier.inner], Contents(applier.prev))
  BY <1>1 DEF ApplyDispatch
<1>3. maps[applier.inner] \in [Keys -> Slot]
  BY DEF TypeInv, TypeOK
<1>4. Contents(applier.prev) \in [Keys -> Slot]
  BY ContentsType DEF TypeInv, TypeOK, Contents
<1>5. QED
  BY <1>2, <1>3, <1>4, ReplayDiff, EventsOfKey

\* Each round of ServiceEntry events that Apply dispatches (controller.go
\* serviceEntryEvents) lets a handler rebuild the new collection from the
\* old one exactly, with an Add only for a new key and an Update only for
\* a changed resource version, for every number of keys and versions.
THEOREM DiffIsExact == Spec => DiffExact
<1>1. Spec => []TypeInv
  BY TypeInit, TypeStep, PTL DEF Spec
<1>2. QED
  BY <1>1, DiffStepHolds, PTL DEF Spec, DiffExact

=============================================================================
