--------------------- MODULE SyntheticServiceEntryProofs ---------------------
(***************************************************************************)
(* Machine-checked proofs about the incremental controller for synthetic   *)
(* service entries (SyntheticServiceEntry, pilot/pkg/serviceregistry/      *)
(* synthetic/serviceentry/syntheticserviceentrycontroller.go), for every   *)
(* value of the constants that satisfies the module's assumptions.         *)
(*                                                                         *)
(* Neither TypeOK nor NonEmptyAppliedAsSent is inductive as stated: TypeOK *)
(* says nothing of the fields of Apply's locals that later steps copy, and *)
(* NonEmptyAppliedAsSent speaks only of idle states, while its truth is    *)
(* built up step by step while Apply runs.  Both strengthenings below are *)
(* checked by TLC on the MCSyntheticServiceEntry instance first.           *)
(***************************************************************************)
EXTENDS SyntheticServiceEntry, TLAPS

USE KeysAssumption, ModesAssumption, BoundsAssumption, CollectionAssumption,
    ModulusAssumption, NoConfigAssumption

-----------------------------------------------------------------------------
(***************************************************************************)
(* Typing: every field of Apply's locals has its type.                     *)
(***************************************************************************)
ApplierType ==
    [pc : {"idle", "remove", "incremental", "full"}, left : 0..MaxObjects,
     removed : SUBSET Keys, svcChange : SUBSET Namespaces,
     configs : [Keys -> Slot], configsNs : SUBSET Namespaces,
     expect : [Keys -> Slot], sent : 0..MaxObjects]

TypeInv ==
    /\ store \in [Keys -> Slot]
    /\ nsPresent \subseteq Namespaces
    /\ synced \in 0..(SyncedModulus - 1)
    /\ registered \in BOOLEAN
    /\ mirror \subseteq Keys
    /\ downstream \in [Keys -> View]
    /\ applier \in ApplierType
    /\ applied \in 0..MaxApply

(***************************************************************************)
(* What a running Apply has done so far.  Before removeConfig runs, the    *)
(* expected contents are the store minus the removals; during the          *)
(* incremental loop every accepted object has gone into both, so they      *)
(* agree; during the full loop the new `configs` map is exactly the        *)
(* expected contents, and the swap installs it.                            *)
(***************************************************************************)
AppliedInv ==
    /\ applier.pc = "idle" /\ applier.sent > 0 => store = applier.expect
    /\ applier.pc = "remove" =>
          applier.expect = [k \in Keys |-> IF k \in applier.removed
                                             THEN NoConfig ELSE store[k]]
    /\ applier.pc = "incremental" => store = applier.expect
    /\ applier.pc = "full" => applier.configs = applier.expect

\* The deferred increment of synced keeps it a uint32 of SyncedBits bits.
LEMMA SyncedIncrementType ==
    ASSUME synced \in 0..(SyncedModulus - 1)
    PROVE  SyncedIncrement \in 0..(SyncedModulus - 1)
BY DEF SyncedIncrement

\* Every namespace a key names is a namespace.
LEMMA NsType == \A k \in Keys : Ns(k) \in Namespaces
BY KeysAssumption DEF Ns

\* What a full push leaves the XDS updater with is a view of every key.
LEMMA FullPushType ==
    ASSUME NEW st \in [Keys -> Slot], NEW ns, downstream \in [Keys -> View]
    PROVE  FullPush(st, ns) \in [Keys -> View]
BY DEF FullPush, ViewOf, View, NoView, Slot, Config

LEMMA TypeInit == Init => TypeInv
<1> SUFFICES ASSUME Init PROVE TypeInv
  OBVIOUS
<1>1. EmptyStore \in [Keys -> Slot]
  BY DEF EmptyStore, Slot
<1>2. IdleApplier(EmptyStore, 0) \in ApplierType
  BY <1>1 DEF IdleApplier, ApplierType
<1>3. [k \in Keys |-> NoView] \in [Keys -> View]
  <2>1. NoView \in View
    BY DEF View, NoView
  <2> QED BY <2>1
<1>4. 0 \in 0..(SyncedModulus - 1) /\ 0 \in 0..MaxApply
  OBVIOUS
<1> QED
  BY <1>1, <1>2, <1>3, <1>4, Zenon DEF Init, TypeInv

\* Apply's locals between two changes are typed when what they carry over is.
LEMMA IdleApplierType ==
    ASSUME NEW e \in [Keys -> Slot], NEW n \in 0..MaxObjects
    PROVE  IdleApplier(e, n) \in ApplierType
<1>1. EmptyStore \in [Keys -> Slot]
  BY DEF EmptyStore, Slot
<1> QED
  BY <1>1 DEF IdleApplier, ApplierType

\* An accepted object's config is one the store may hold.
LEMMA ConfigOfType ==
    ASSUME NEW obj \in Object
    PROVE  /\ obj.key \in Keys
           /\ ConfigOf(obj) \in Config
           /\ ConfigOf(obj) \in Slot
           /\ ConfigOf(obj) \in View
BY DEF Object, ConfigOf, Config, Slot, View

\* The store minus a set of keys is a store.
LEMMA RemovedType ==
    ASSUME NEW st \in [Keys -> Slot], NEW removed
    PROVE  [k \in Keys |-> IF k \in removed THEN NoConfig ELSE st[k]] \in [Keys -> Slot]
BY DEF Slot

LEMMA TypeStep == TypeInv /\ [Next]_vars => TypeInv'
<1> SUFFICES ASSUME TypeInv, [Next]_vars PROVE TypeInv'
  OBVIOUS
<1>0. /\ store \in [Keys -> Slot]
      /\ nsPresent \subseteq Namespaces
      /\ synced \in 0..(SyncedModulus - 1)
      /\ registered \in BOOLEAN
      /\ mirror \subseteq Keys
      /\ downstream \in [Keys -> View]
      /\ applier \in ApplierType
      /\ applied \in 0..MaxApply
  BY DEF TypeInv
<1>1. CASE ApplyUnsupported(OtherCollection)
  BY <1>1 DEF ApplyUnsupported, vars, TypeInv
<1>2. ASSUME NEW incr \in Modes, NEW removed \in SUBSET Keys,
             ApplyNoObjects(incr, removed)
      PROVE  TypeInv'
  <2>1. synced' \in 0..(SyncedModulus - 1)
    BY <1>0, <1>2, SyncedIncrementType DEF ApplyNoObjects
  <2>2. applier' \in ApplierType
    <3>1. (IF incr THEN [k \in Keys |-> IF k \in removed THEN NoConfig ELSE store[k]]
                   ELSE EmptyStore) \in [Keys -> Slot]
      BY <1>0, RemovedType DEF EmptyStore, Slot
    <3> QED
      BY <1>2, <3>1, IdleApplierType DEF ApplyNoObjects
  <2>3. applied' \in 0..MaxApply
    BY <1>0, <1>2 DEF ApplyNoObjects
  <2> QED
    BY <1>0, <1>2, <2>1, <2>2, <2>3 DEF ApplyNoObjects, TypeInv
<1>3. ASSUME NEW incr \in Modes, NEW n \in 1..MaxObjects, NEW removed \in SUBSET Keys,
             ApplyStart(incr, n, removed)
      PROVE  TypeInv'
  <2>1. applier' \in ApplierType
    <3>1. (IF incr THEN [k \in Keys |-> IF k \in removed THEN NoConfig ELSE store[k]]
                   ELSE EmptyStore) \in [Keys -> Slot]
      BY <1>0, RemovedType DEF EmptyStore, Slot
    <3> DEFINE e == IF incr THEN [k \in Keys |-> IF k \in removed THEN NoConfig ELSE store[k]]
                             ELSE EmptyStore
    <3>2. applier' = [pc |-> IF incr THEN "remove" ELSE "full", left |-> n,
                      removed |-> removed, svcChange |-> {}, configs |-> EmptyStore,
                      configsNs |-> {}, expect |-> e, sent |-> n]
      BY <1>3 DEF ApplyStart, IdleApplier
    <3>3. EmptyStore \in [Keys -> Slot] /\ n \in 0..MaxObjects
      BY DEF EmptyStore, Slot
    <3> QED
      BY <3>1, <3>2, <3>3 DEF ApplierType
  <2>2. applied' \in 0..MaxApply
    BY <1>0, <1>3 DEF ApplyStart
  <2> QED
    BY <1>0, <1>3, <2>1, <2>2 DEF ApplyStart, TypeInv
<1>4. CASE RemoveConfig
  <2>1. store' \in [Keys -> Slot]
    BY <1>0, <1>4 DEF RemoveConfig, Slot
  <2>2. mirror' \subseteq Keys
    BY <1>0, <1>4 DEF RemoveConfig
  <2>3. applier' \in ApplierType
    BY <1>0, <1>4 DEF RemoveConfig, ApplierType
  <2> QED
    BY <1>0, <1>4, <2>1, <2>2, <2>3 DEF RemoveConfig, TypeInv
<1>5. ASSUME NEW obj \in Object, IncrementalObject(obj)
      PROVE  TypeInv'
  <2>1. applier.left > 0 /\ applier.left - 1 \in 0..MaxObjects
    <3>1. applier.left \in 0..MaxObjects
      BY <1>0 DEF ApplierType
    <3> QED
      BY <1>5, <3>1 DEF IncrementalObject
  <2>2. CASE obj.ok
    <3> DEFINE k == obj.key
               conf == ConfigOf(obj)
               oldEp == IF store[k] # NoConfig THEN store[k].ep ELSE NoVersion
               svcChanged == IsFullUpdateRequired(k, conf)
    <3>0. k \in Keys /\ conf \in Slot /\ Ns(k) \in Namespaces
      BY ConfigOfType, NsType
    <3>1. store' \in [Keys -> Slot]
      BY <1>0, <1>5, <2>2, <3>0 DEF IncrementalObject
    <3>2. nsPresent' \subseteq Namespaces /\ mirror' \subseteq Keys
      BY <1>0, <1>5, <2>2, <3>0 DEF IncrementalObject
    <3>3. applier' \in ApplierType
      <4>1. applier' = [applier EXCEPT !.left = @ - 1,
                          !.svcChange = IF svcChanged THEN @ \cup {Ns(k)} ELSE @,
                          !.expect[k] = conf]
        BY <1>5, <2>2 DEF IncrementalObject
      <4> QED
        BY <1>0, <2>1, <3>0, <4>1 DEF ApplierType
    <3>4. downstream' \in [Keys -> View]
      <4>1. downstream' = IF ~svcChanged /\ oldEp # conf.ep
                            THEN [downstream EXCEPT ![k].ep = conf.ep]
                            ELSE downstream
        BY <1>5, <2>2 DEF IncrementalObject
      <4>2. conf.ep \in Fingerprints
        BY ConfigOfType DEF Config
      <4> QED
        BY <1>0, <3>0, <4>1, <4>2 DEF View
    <3> QED
      BY <1>0, <1>5, <3>1, <3>2, <3>3, <3>4 DEF IncrementalObject, TypeInv
  <2>3. CASE ~obj.ok
    <3>1. applier' \in ApplierType
      BY <1>0, <1>5, <2>1, <2>3 DEF IncrementalObject, ApplierType
    <3> QED
      BY <1>0, <1>5, <2>3, <3>1 DEF IncrementalObject, TypeInv
  <2> QED
    BY <2>2, <2>3
<1>6. CASE IncrementalPush
  <2>1. synced' \in 0..(SyncedModulus - 1)
    BY <1>0, <1>6, SyncedIncrementType DEF IncrementalPush
  <2>2. applier' \in ApplierType
    BY <1>0, <1>6, IdleApplierType DEF IncrementalPush, ApplierType
  <2>3. downstream' \in [Keys -> View]
    BY <1>0, <1>6, FullPushType DEF IncrementalPush
  <2> QED
    BY <1>0, <1>6, <2>1, <2>2, <2>3 DEF IncrementalPush, TypeInv
<1>7. ASSUME NEW obj \in Object, FullObject(obj)
      PROVE  TypeInv'
  <2>1. applier.left > 0 /\ applier.left - 1 \in 0..MaxObjects
    <3>1. applier.left \in 0..MaxObjects
      BY <1>0 DEF ApplierType
    <3> QED
      BY <1>7, <3>1 DEF FullObject
  <2>2. CASE obj.ok
    <3> DEFINE k == obj.key
               conf == ConfigOf(obj)
    <3>0. k \in Keys /\ conf \in Slot /\ Ns(k) \in Namespaces
      BY ConfigOfType, NsType
    <3>1. applier' = [applier EXCEPT
                        !.left = @ - 1,
                        !.configs[k] = conf,
                        !.configsNs = @ \cup {Ns(k)},
                        !.svcChange = IF IsFullUpdateRequired(k, conf)
                                        THEN @ \cup {Ns(k)} ELSE @,
                        !.expect[k] = conf]
      BY <1>7, <2>2 DEF FullObject
    <3>2. applier' \in ApplierType
      BY <1>0, <2>1, <3>0, <3>1 DEF ApplierType
    <3>3. mirror' \subseteq Keys
      BY <1>0, <1>7, <2>2, <3>0 DEF FullObject
    <3> QED
      BY <1>0, <1>7, <3>2, <3>3 DEF FullObject, TypeInv
  <2>3. CASE ~obj.ok
    <3>1. applier' \in ApplierType
      BY <1>0, <1>7, <2>1, <2>3 DEF FullObject, ApplierType
    <3> QED
      BY <1>0, <1>7, <2>3, <3>1 DEF FullObject, TypeInv
  <2> QED
    BY <2>2, <2>3
<1>8. CASE FullSwap
  <2>1. synced' \in 0..(SyncedModulus - 1)
    BY <1>0, <1>8, SyncedIncrementType DEF FullSwap
  <2>2. applier' \in ApplierType
    BY <1>0, <1>8, IdleApplierType DEF FullSwap, ApplierType
  <2>3. downstream' \in [Keys -> View]
    BY <1>0, <1>8, FullPushType DEF FullSwap, ApplierType
  <2>4. store' \in [Keys -> Slot] /\ nsPresent' \subseteq Namespaces
    BY <1>0, <1>8 DEF FullSwap, ApplierType
  <2> QED
    BY <1>0, <1>8, <2>1, <2>2, <2>3, <2>4 DEF FullSwap, TypeInv
<1>9. CASE RegisterEventHandler
  BY <1>0, <1>9 DEF RegisterEventHandler, TypeInv, StoreKeys
<1>10. CASE UNCHANGED vars
  BY <1>0, <1>10 DEF vars, TypeInv
<1> QED
  BY <1>1, <1>2, <1>3, <1>4, <1>5, <1>6, <1>7, <1>8, <1>9, <1>10 DEF Next

\* TypeInv holds in every reachable state.
THEOREM TypeInvariant == Spec => []TypeInv
BY TypeInit, TypeStep, PTL DEF Spec

\* TypeInv is TypeOK with every field of Apply's locals typed.
LEMMA TypeInvTypeOK == TypeInv => TypeOK
BY DEF TypeInv, TypeOK, ApplierType

\* Every variable of the controller keeps its type, whatever sequence of
\* Apply calls (accepted, refused, empty, incremental or full) and handler
\* registration the MCP client makes.
THEOREM SyntheticTypeCorrect == Spec => []TypeOK
BY TypeInvariant, TypeInvTypeOK, PTL

-----------------------------------------------------------------------------
(***************************************************************************)
(* Non-empty changes are applied as sent.                                  *)
(***************************************************************************)
LEMMA AppliedInit == Init => AppliedInv
BY DEF Init, AppliedInv, IdleApplier

LEMMA AppliedStep == TypeInv /\ AppliedInv /\ [Next]_vars => AppliedInv'
<1> SUFFICES ASSUME TypeInv, AppliedInv, [Next]_vars PROVE AppliedInv'
  OBVIOUS
<1>0. /\ store \in [Keys -> Slot]
      /\ applier \in ApplierType
  BY DEF TypeInv
<1>1. CASE ApplyUnsupported(OtherCollection)
  BY <1>1 DEF ApplyUnsupported, vars, AppliedInv
<1>2. ASSUME NEW incr \in Modes, NEW removed \in SUBSET Keys,
             ApplyNoObjects(incr, removed)
      PROVE  AppliedInv'
  <2>1. applier'.pc = "idle" /\ applier'.sent = 0
    BY <1>2 DEF ApplyNoObjects, IdleApplier
  <2> QED
    BY <2>1 DEF AppliedInv
<1>3. ASSUME NEW incr \in Modes, NEW n \in 1..MaxObjects, NEW removed \in SUBSET Keys,
             ApplyStart(incr, n, removed)
      PROVE  AppliedInv'
  <2>1. CASE incr
    <3>1. /\ applier'.pc = "remove"
          /\ applier'.removed = removed
          /\ applier'.expect = [k \in Keys |-> IF k \in removed THEN NoConfig ELSE store[k]]
      BY <1>3, <2>1 DEF ApplyStart, IdleApplier
    <3> QED
      BY <1>3, <3>1 DEF ApplyStart, AppliedInv
  <2>2. CASE ~incr
    <3>1. /\ applier'.pc = "full"
          /\ applier'.configs = EmptyStore
          /\ applier'.expect = EmptyStore
      BY <1>3, <2>2 DEF ApplyStart, IdleApplier
    <3> QED
      BY <3>1 DEF AppliedInv
  <2> QED
    BY <2>1, <2>2
<1>4. CASE RemoveConfig
  <2>1. applier.pc = "remove" /\ applier' = [applier EXCEPT !.pc = "incremental"]
    BY <1>4 DEF RemoveConfig
  <2>2. applier'.pc = "incremental" /\ applier'.expect = applier.expect
    BY <1>0, <2>1 DEF ApplierType
  <2>3. store' = applier.expect
    BY <1>4, <2>1 DEF RemoveConfig, AppliedInv
  <2> QED
    BY <2>2, <2>3 DEF AppliedInv
<1>5. ASSUME NEW obj \in Object, IncrementalObject(obj)
      PROVE  AppliedInv'
  <2>1. applier.pc = "incremental" /\ store = applier.expect
    BY <1>5 DEF IncrementalObject, AppliedInv
  <2>2. CASE obj.ok
    <3>1. /\ store' = [store EXCEPT ![obj.key] = ConfigOf(obj)]
          /\ applier' = [applier EXCEPT
                           !.left = @ - 1,
                           !.svcChange = IF IsFullUpdateRequired(obj.key, ConfigOf(obj))
                                           THEN @ \cup {Ns(obj.key)} ELSE @,
                           !.expect[obj.key] = ConfigOf(obj)]
      BY <1>5, <2>2 DEF IncrementalObject
    <3>2. /\ applier'.pc = "incremental"
          /\ applier'.expect = [applier.expect EXCEPT ![obj.key] = ConfigOf(obj)]
      BY <1>0, <2>1, <3>1 DEF ApplierType
    <3> QED
      BY <2>1, <3>1, <3>2 DEF AppliedInv
  <2>3. CASE ~obj.ok
    <3>1. applier' = [applier EXCEPT !.left = @ - 1] /\ store' = store
      BY <1>5, <2>3 DEF IncrementalObject
    <3>2. applier'.pc = "incremental" /\ applier'.expect = applier.expect
      BY <1>0, <2>1, <3>1 DEF ApplierType
    <3> QED
      BY <2>1, <3>1, <3>2 DEF AppliedInv
  <2> QED
    BY <2>2, <2>3
<1>6. CASE IncrementalPush
  <2>1. applier.pc = "incremental" /\ store = applier.expect /\ store' = store
    BY <1>6 DEF IncrementalPush, AppliedInv
  <2>2. applier'.pc = "idle" /\ applier'.expect = applier.expect
    BY <1>6 DEF IncrementalPush, IdleApplier
  <2> QED
    BY <2>1, <2>2 DEF AppliedInv
<1>7. ASSUME NEW obj \in Object, FullObject(obj)
      PROVE  AppliedInv'
  <2>1. applier.pc = "full" /\ applier.configs = applier.expect /\ store' = store
    BY <1>7 DEF FullObject, AppliedInv
  <2>2. CASE obj.ok
    <3>1. applier' = [applier EXCEPT
                        !.left = @ - 1,
                        !.configs[obj.key] = ConfigOf(obj),
                        !.configsNs = @ \cup {Ns(obj.key)},
                        !.svcChange = IF IsFullUpdateRequired(obj.key, ConfigOf(obj))
                                        THEN @ \cup {Ns(obj.key)} ELSE @,
                        !.expect[obj.key] = ConfigOf(obj)]
      BY <1>7, <2>2 DEF FullObject
    <3>2. /\ applier'.pc = "full"
          /\ applier'.configs = [applier.configs EXCEPT ![obj.key] = ConfigOf(obj)]
          /\ applier'.expect = [applier.expect EXCEPT ![obj.key] = ConfigOf(obj)]
      BY <1>0, <2>1, <3>1 DEF ApplierType
    <3> QED
      BY <2>1, <3>2 DEF AppliedInv
  <2>3. CASE ~obj.ok
    <3>1. applier' = [applier EXCEPT !.left = @ - 1]
      BY <1>7, <2>3 DEF FullObject
    <3>2. /\ applier'.pc = "full"
          /\ applier'.configs = applier.configs
          /\ applier'.expect = applier.expect
      BY <1>0, <2>1, <3>1 DEF ApplierType
    <3> QED
      BY <2>1, <3>2 DEF AppliedInv
  <2> QED
    BY <2>2, <2>3
<1>8. CASE FullSwap
  <2>1. applier.pc = "full" /\ store' = applier.configs /\ applier.configs = applier.expect
    BY <1>8 DEF FullSwap, AppliedInv
  <2>2. applier'.pc = "idle" /\ applier'.expect = applier.expect
    BY <1>8 DEF FullSwap, IdleApplier
  <2> QED
    BY <2>1, <2>2 DEF AppliedInv
<1>9. CASE RegisterEventHandler
  BY <1>9 DEF RegisterEventHandler, AppliedInv
<1>10. CASE UNCHANGED vars
  BY <1>10 DEF vars, AppliedInv
<1> QED
  BY <1>1, <1>2, <1>3, <1>4, <1>5, <1>6, <1>7, <1>8, <1>9, <1>10 DEF Next

\* After every change that carried at least one object, the store holds
\* exactly what the change says (spec sections 3 and 4.2): removeConfig,
\* incrementalUpdate and the configStore swap of configStoreUpdate leave
\* no key out and touch no other, for every number of namespaces, names,
\* objects and Apply calls.
THEOREM AppliedAsSent == Spec => []NonEmptyAppliedAsSent
<1>1. Spec => [](TypeInv /\ AppliedInv)
  BY TypeInit, TypeStep, AppliedInit, AppliedStep, PTL DEF Spec
<1>2. AppliedInv => NonEmptyAppliedAsSent
  BY DEF AppliedInv, NonEmptyAppliedAsSent
<1> QED
  BY <1>1, <1>2, PTL

-----------------------------------------------------------------------------
(***************************************************************************)
(* The synced counter.                                                     *)
(***************************************************************************)

\* x % m is the remainder of any division of x by m.
LEMMA ModUnique ==
    ASSUME NEW x \in Nat, NEW m \in Nat \ {0}, NEW k \in Nat, NEW r \in 0..(m - 1),
           x = k * m + r
    PROVE  x % m = r
BY SMTT(30)

\* Incrementing a residue and reducing it again is reducing the successor.
LEMMA ModIncrement ==
    ASSUME NEW a \in Nat, NEW m \in Nat \ {0}
    PROVE  ((a % m) + 1) % m = (a + 1) % m
<1> DEFINE q == a \div m
           r == a % m
<1>1. a = q * m + r /\ r \in 0..(m - 1) /\ q \in Nat
  OBVIOUS
<1>2. CASE r + 1 < m
  <2>1. (r + 1) % m = r + 1
    BY <1>1, <1>2, ModUnique
  <2>2. a + 1 = q * m + (r + 1)
    BY <1>1
  <2>3. (a + 1) % m = r + 1
    <3>1. r + 1 \in 0..(m - 1) /\ a + 1 \in Nat
      BY <1>1, <1>2
    <3> QED
      BY <2>2, <3>1, <1>1, ModUnique
  <2> QED
    BY <2>1, <2>3
<1>3. CASE r + 1 = m
  <2>1. r + 1 = 1 * m + 0
    BY <1>3
  <2>2. a + 1 = (q + 1) * m + 0
    BY <1>1, <1>3
  <2>3. (r + 1) % m = 0
    BY <1>1, <2>1, ModUnique
  <2>4. (a + 1) % m = 0
    <3>1. q + 1 \in Nat /\ a + 1 \in Nat /\ 0 \in 0..(m - 1)
      BY <1>1
    <3> QED
      BY <2>2, <3>1, ModUnique
  <2> QED
    BY <2>3, <2>4
<1> QED
  BY <1>1, <1>2, <1>3

\* While Apply runs, the call that started it has been counted.
SyncedInv ==
    /\ applier.pc # "idle" => applied > 0
    /\ SyncedCountsApplies

LEMMA SyncedInit == Init => SyncedInv
BY DEF Init, SyncedInv, SyncedCountsApplies, IdleApplier

LEMMA SyncedStep == TypeInv /\ SyncedInv /\ [Next]_vars => SyncedInv'
<1> SUFFICES ASSUME TypeInv, SyncedInv, [Next]_vars PROVE SyncedInv'
  OBVIOUS
<1>0. /\ applied \in 0..MaxApply
      /\ applier \in ApplierType
      /\ synced = (applied - (IF applier.pc = "idle" THEN 0 ELSE 1)) % SyncedModulus
      /\ applier.pc # "idle" => applied > 0
  BY DEF TypeInv, SyncedInv, SyncedCountsApplies
<1>1. CASE ApplyUnsupported(OtherCollection)
  BY <1>1 DEF ApplyUnsupported, vars, SyncedInv, SyncedCountsApplies
<1>2. ASSUME NEW incr \in Modes, NEW removed \in SUBSET Keys,
             ApplyNoObjects(incr, removed)
      PROVE  SyncedInv'
  <2>1. applier.pc = "idle" /\ applier'.pc = "idle" /\ applied' = applied + 1
    BY <1>2 DEF ApplyNoObjects, IdleApplier
  <2>2. synced = applied % SyncedModulus
    BY <1>0, <2>1
  <2>3. synced' = (applied + 1) % SyncedModulus
    <3>1. synced' = (synced + 1) % SyncedModulus
      BY <1>2 DEF ApplyNoObjects, SyncedIncrement
    <3>2. applied \in Nat
      BY <1>0
    <3>3. ((applied % SyncedModulus) + 1) % SyncedModulus = (applied + 1) % SyncedModulus
      BY <3>2, ModIncrement
    <3> QED
      BY <2>2, <3>1, <3>3
  <2> QED
    BY <2>1, <2>3 DEF SyncedInv, SyncedCountsApplies
<1>3. ASSUME NEW incr \in Modes, NEW n \in 1..MaxObjects, NEW removed \in SUBSET Keys,
             ApplyStart(incr, n, removed)
      PROVE  SyncedInv'
  <2>1. applier.pc = "idle" /\ applier'.pc # "idle" /\ applied' = applied + 1
        /\ synced' = synced
    BY <1>3 DEF ApplyStart, IdleApplier
  <2> QED
    BY <1>0, <2>1 DEF SyncedInv, SyncedCountsApplies
\* The steps inside Apply leave both counters and the running state alone.
<1>4. ASSUME applier.pc # "idle", applier'.pc # "idle",
             UNCHANGED <<synced, applied>>
      PROVE  SyncedInv'
  BY <1>0, <1>4 DEF SyncedInv, SyncedCountsApplies
<1>5. CASE RemoveConfig
  <2>1. applier.pc = "remove" /\ applier' = [applier EXCEPT !.pc = "incremental"]
    BY <1>5 DEF RemoveConfig
  <2>2. applier'.pc = "incremental"
    BY <1>0, <2>1 DEF ApplierType
  <2> QED
    BY <1>4, <1>5, <2>1, <2>2 DEF RemoveConfig
<1>6. ASSUME NEW obj \in Object, IncrementalObject(obj)
      PROVE  SyncedInv'
  <2>1. applier.pc = "incremental" /\ UNCHANGED <<synced, applied>>
    BY <1>6 DEF IncrementalObject
  <2>2. applier'.pc = "incremental"
    <3>1. CASE obj.ok
      <4>1. applier' = [applier EXCEPT
                          !.left = @ - 1,
                          !.svcChange = IF IsFullUpdateRequired(obj.key, ConfigOf(obj))
                                          THEN @ \cup {Ns(obj.key)} ELSE @,
                          !.expect[obj.key] = ConfigOf(obj)]
        BY <1>6, <3>1 DEF IncrementalObject
      <4> QED
        BY <1>0, <2>1, <4>1 DEF ApplierType
    <3>2. CASE ~obj.ok
      <4>1. applier' = [applier EXCEPT !.left = @ - 1]
        BY <1>6, <3>2 DEF IncrementalObject
      <4> QED
        BY <1>0, <2>1, <4>1 DEF ApplierType
    <3> QED
      BY <3>1, <3>2
  <2> QED
    BY <1>4, <2>1, <2>2
<1>7. ASSUME NEW obj \in Object, FullObject(obj)
      PROVE  SyncedInv'
  <2>1. applier.pc = "full" /\ UNCHANGED <<synced, applied>>
    BY <1>7 DEF FullObject
  <2>2. applier'.pc = "full"
    <3>1. CASE obj.ok
      <4>1. applier' = [applier EXCEPT
                          !.left = @ - 1,
                          !.configs[obj.key] = ConfigOf(obj),
                          !.configsNs = @ \cup {Ns(obj.key)},
                          !.svcChange = IF IsFullUpdateRequired(obj.key, ConfigOf(obj))
                                          THEN @ \cup {Ns(obj.key)} ELSE @,
                          !.expect[obj.key] = ConfigOf(obj)]
        BY <1>7, <3>1 DEF FullObject
      <4> QED
        BY <1>0, <2>1, <4>1 DEF ApplierType
    <3>2. CASE ~obj.ok
      <4>1. applier' = [applier EXCEPT !.left = @ - 1]
        BY <1>7, <3>2 DEF FullObject
      <4> QED
        BY <1>0, <2>1, <4>1 DEF ApplierType
    <3> QED
      BY <3>1, <3>2
  <2> QED
    BY <1>4, <2>1, <2>2
\* The two ends of Apply: the deferred increment counts the call.
<1>8. ASSUME applier.pc # "idle", applier'.pc = "idle", applied' = applied,
             synced' = SyncedIncrement
      PROVE  SyncedInv'
  <2>1. applied - 1 \in Nat /\ synced = (applied - 1) % SyncedModulus
    BY <1>0, <1>8
  <2>2. synced' = (applied - 1 + 1) % SyncedModulus
    BY <1>8, <2>1, ModIncrement DEF SyncedIncrement
  <2> QED
    BY <1>0, <1>8, <2>2 DEF SyncedInv, SyncedCountsApplies
<1>9. CASE IncrementalPush
  BY <1>8, <1>9 DEF IncrementalPush, IdleApplier
<1>10. CASE FullSwap
  BY <1>8, <1>10 DEF FullSwap, IdleApplier
<1>11. CASE RegisterEventHandler
  BY <1>11 DEF RegisterEventHandler, SyncedInv, SyncedCountsApplies
<1>12. CASE UNCHANGED vars
  BY <1>12 DEF vars, SyncedInv, SyncedCountsApplies
<1> QED
  BY <1>1, <1>2, <1>3, <1>5, <1>6, <1>7, <1>9, <1>10, <1>11, <1>12 DEF Next

\* For every counter width, synced is the number of accepted Apply calls
\* that have returned, modulo 2^SyncedBits: the deferred increment runs on
\* every return path after the collection check and only there, and
\* HasSynced is false again exactly when that number reaches a multiple
\* of 2^SyncedBits.
THEOREM SyncedCounts == Spec => []SyncedCountsApplies
<1>1. Spec => [](TypeInv /\ SyncedInv)
  BY TypeInit, TypeStep, SyncedInit, SyncedStep, PTL DEF Spec
<1>2. SyncedInv => SyncedCountsApplies
  BY DEF SyncedInv
<1> QED
  BY <1>1, <1>2, PTL

-----------------------------------------------------------------------------
(***************************************************************************)
(* An MCP source that sends only incremental changes.  The full path       *)
(* loses endpoint changes and Delete events (see the synthetic_full runs); *)
(* the incremental path keeps the XDS updater exact and the handler free  *)
(* of removed configs.  The strengthening says what holds while Apply is   *)
(* half-way: the handler is told of nothing before it registers and knows  *)
(* of no config after its removal, and a stored config is either           *)
(* already known downstream or its namespace is marked for the full push   *)
(* that ends incrementalUpdate.                                            *)
(***************************************************************************)
IncrementalInv ==
    /\ applier.pc # "full"
    /\ mirror \subseteq StoreKeys
    /\ ~registered => mirror = {}
    /\ applier.pc \in {"idle", "remove"} =>
          \A k \in StoreKeys : downstream[k] = ViewOf(store[k])
    /\ applier.pc = "incremental" =>
          \A k \in StoreKeys : Ns(k) \in applier.svcChange \/ downstream[k] = ViewOf(store[k])

LEMMA IncrementalInit == Init => IncrementalInv
BY DEF Init, IncrementalInv, IdleApplier, StoreKeys, EmptyStore

LEMMA IncrementalStep ==
    ASSUME Modes = {TRUE}, TypeInv, IncrementalInv, [Next]_vars
    PROVE  IncrementalInv'
<1>0. /\ store \in [Keys -> Slot]
      /\ downstream \in [Keys -> View]
      /\ applier \in ApplierType
      /\ mirror \subseteq Keys
  BY DEF TypeInv
<1>1. CASE ApplyUnsupported(OtherCollection)
  BY <1>1 DEF ApplyUnsupported, vars, IncrementalInv, StoreKeys
<1>2. ASSUME NEW incr \in Modes, NEW removed \in SUBSET Keys,
             ApplyNoObjects(incr, removed)
      PROVE  IncrementalInv'
  <2>1. applier.pc = "idle" /\ applier'.pc = "idle"
    BY <1>2 DEF ApplyNoObjects, IdleApplier
  <2> QED
    BY <1>2, <2>1 DEF ApplyNoObjects, IncrementalInv, StoreKeys
<1>3. ASSUME NEW incr \in Modes, NEW n \in 1..MaxObjects, NEW removed \in SUBSET Keys,
             ApplyStart(incr, n, removed)
      PROVE  IncrementalInv'
  <2>1. applier.pc = "idle" /\ applier'.pc = "remove"
    BY <1>3 DEF ApplyStart, IdleApplier
  <2> QED
    BY <1>3, <2>1 DEF ApplyStart, IncrementalInv, StoreKeys
<1>4. CASE RemoveConfig
  <2> DEFINE gone == {k \in applier.removed : store[k] # NoConfig}
  <2>1. /\ applier.pc = "remove"
        /\ store' = [k \in Keys |-> IF k \in gone THEN NoConfig ELSE store[k]]
        /\ mirror' = IF registered THEN mirror \ gone ELSE mirror
        /\ applier' = [applier EXCEPT !.pc = "incremental"]
        /\ UNCHANGED <<registered, downstream>>
    BY <1>4 DEF RemoveConfig
  <2>2. applier'.pc = "incremental"
    BY <1>0, <2>1 DEF ApplierType
  <2>3. StoreKeys' = StoreKeys \ gone
    BY <2>1 DEF StoreKeys
  <2>4. \A k \in StoreKeys' : store'[k] = store[k]
    BY <2>1, <2>3 DEF StoreKeys
  <2>5. mirror' \subseteq StoreKeys' /\ (~registered' => mirror' = {})
    BY <2>1, <2>3 DEF IncrementalInv
  <2>6. \A k \in StoreKeys' : downstream'[k] = ViewOf(store'[k])
    BY <2>1, <2>3, <2>4 DEF IncrementalInv
  <2> QED
    BY <2>2, <2>5, <2>6 DEF IncrementalInv
<1>5. ASSUME NEW obj \in Object, IncrementalObject(obj)
      PROVE  IncrementalInv'
  <2>0. applier.pc = "incremental"
    BY <1>5 DEF IncrementalObject
  <2>1. CASE ~obj.ok
    <3>1. applier' = [applier EXCEPT !.left = @ - 1]
          /\ UNCHANGED <<store, mirror, downstream, registered>>
      BY <1>5, <2>1 DEF IncrementalObject
    <3>2. applier'.pc = "incremental" /\ applier'.svcChange = applier.svcChange
      BY <1>0, <2>0, <3>1 DEF ApplierType
    <3> QED
      BY <2>0, <3>1, <3>2 DEF IncrementalInv, StoreKeys
  <2>2. CASE obj.ok
    <3> DEFINE k == obj.key
               conf == ConfigOf(obj)
               oldEp == IF store[k] # NoConfig THEN store[k].ep ELSE NoVersion
               svcChanged == IsFullUpdateRequired(k, conf)
    <3>0. k \in Keys /\ conf \in Config /\ conf # NoConfig
          /\ conf = [svc |-> conf.svc, ep |-> conf.ep]
      BY ConfigOfType DEF ConfigOf
    <3>1. /\ store' = [store EXCEPT ![k] = conf]
          /\ mirror' = IF registered THEN mirror \cup {k} ELSE mirror
          /\ applier' = [applier EXCEPT
                           !.left = @ - 1,
                           !.svcChange = IF svcChanged THEN @ \cup {Ns(k)} ELSE @,
                           !.expect[k] = conf]
          /\ downstream' = IF ~svcChanged /\ oldEp # conf.ep
                             THEN [downstream EXCEPT ![k].ep = conf.ep]
                             ELSE downstream
          /\ registered' = registered
      BY <1>5, <2>2 DEF IncrementalObject
    <3>2. /\ applier'.pc = "incremental"
          /\ applier'.svcChange = IF svcChanged THEN applier.svcChange \cup {Ns(k)}
                                  ELSE applier.svcChange
      BY <1>0, <2>0, <3>1 DEF ApplierType
    <3>3. StoreKeys' = StoreKeys \cup {k}
      BY <1>0, <3>0, <3>1 DEF StoreKeys
    <3>4. mirror' \subseteq StoreKeys' /\ (~registered' => mirror' = {})
      BY <3>1, <3>3 DEF IncrementalInv
    \* Keys other than the upserted one keep their config and their view.
    <3>5. ASSUME NEW j \in StoreKeys', j # k
          PROVE  Ns(j) \in applier'.svcChange \/ downstream'[j] = ViewOf(store'[j])
      <4>1. j \in StoreKeys /\ store'[j] = store[j] /\ downstream'[j] = downstream[j]
        BY <1>0, <3>0, <3>1, <3>3, <3>5
      <4> QED
        BY <2>0, <3>2, <4>1 DEF IncrementalInv
    \* The upserted key: a new or service-changed config marks its namespace;
    \* otherwise its old view had the same service version, and an EDS update
    \* carries a changed endpoint version.
    <3>6. Ns(k) \in applier'.svcChange \/ downstream'[k] = ViewOf(store'[k])
      <4>1. CASE svcChanged
        BY <3>2, <4>1
      <4>2. CASE ~svcChanged
        <5>1. store[k] # NoConfig /\ store[k].svc = conf.svc
          BY <4>2 DEF IsFullUpdateRequired
        <5>2. store[k] \in Config
          BY <1>0, <3>0, <5>1 DEF Slot
        <5>3. store[k] = [svc |-> store[k].svc, ep |-> store[k].ep]
          BY <5>2 DEF Config
        <5>4. ViewOf(store'[k]) = conf
          BY <1>0, <3>0, <3>1 DEF ViewOf
        <5>5. CASE Ns(k) \in applier.svcChange
          BY <3>2, <5>5
        <5>6. CASE downstream[k] = ViewOf(store[k])
          <6>1. downstream[k] = store[k]
            BY <5>1, <5>6 DEF ViewOf
          <6>2. CASE oldEp # conf.ep
            <7>1. downstream'[k] = [downstream[k] EXCEPT !.ep = conf.ep]
              BY <1>0, <3>0, <3>1, <4>2, <6>2
            <7> QED
              BY <3>0, <5>1, <5>3, <5>4, <6>1, <7>1
          <6>3. CASE oldEp = conf.ep
            <7>1. downstream'[k] = downstream[k] /\ store[k].ep = conf.ep
              BY <3>1, <4>2, <5>1, <6>3
            <7> QED
              BY <3>0, <5>1, <5>3, <5>4, <6>1, <7>1
          <6> QED
            BY <6>2, <6>3
        <5>7. k \in StoreKeys
          BY <3>0, <5>1 DEF StoreKeys
        <5> QED
          BY <2>0, <5>5, <5>6, <5>7 DEF IncrementalInv
      <4> QED
        BY <4>1, <4>2
    <3> QED
      BY <3>2, <3>4, <3>5, <3>6 DEF IncrementalInv
  <2> QED
    BY <2>1, <2>2
<1>6. CASE IncrementalPush
  <2>1. /\ applier.pc = "incremental"
        /\ downstream' = IF applier.svcChange # {}
                           THEN FullPush(store, applier.svcChange) ELSE downstream
        /\ applier'.pc = "idle"
        /\ UNCHANGED <<store, registered, mirror>>
    BY <1>6 DEF IncrementalPush, IdleApplier
  <2>2. ASSUME NEW k \in StoreKeys PROVE downstream'[k] = ViewOf(store[k])
    <3>1. k \in Keys
      BY DEF StoreKeys
    <3>2. Ns(k) \in applier.svcChange \/ downstream[k] = ViewOf(store[k])
      BY <2>1 DEF IncrementalInv
    <3> QED
      BY <2>1, <3>1, <3>2 DEF FullPush
  <2> QED
    BY <2>1, <2>2 DEF IncrementalInv, StoreKeys
<1>7. ASSUME NEW obj \in Object, FullObject(obj)
      PROVE  IncrementalInv'
  BY <1>7 DEF FullObject, IncrementalInv
<1>8. CASE FullSwap
  BY <1>8 DEF FullSwap, IncrementalInv
<1>9. CASE RegisterEventHandler
  BY <1>9 DEF RegisterEventHandler, IncrementalInv, StoreKeys
<1>10. CASE UNCHANGED vars
  BY <1>10 DEF vars, IncrementalInv, StoreKeys
<1> QED
  BY <1>1, <1>2, <1>3, <1>4, <1>5, <1>6, <1>7, <1>8, <1>9, <1>10 DEF Next

\* With an MCP source that sends only incremental changes, the XDS updater
\* knows the current service and endpoint versions of every stored config
\* between changes, for every instance: isFullUpdateRequired, the EDS
\* update of an endpoint-only change and the closing full push together
\* cover every upsert.
THEOREM IncrementalDownstreamFresh ==
    ASSUME Modes = {TRUE}
    PROVE  Spec => []DownstreamFresh
<1>1. Spec => [](TypeInv /\ IncrementalInv)
  BY TypeInit, TypeStep, IncrementalInit, IncrementalStep, PTL DEF Spec
<1>2. IncrementalInv => DownstreamFresh
  BY DEF IncrementalInv, DownstreamFresh
<1> QED
  BY <1>1, <1>2, PTL

\* With an MCP source that sends only incremental changes, a registered
\* event handler never believes in a config the store has dropped, for
\* every instance: removeConfig dispatches a Delete for every config it
\* removes, under the same lock as the removal, and a handler registered
\* late (RegisterEventHandler) starts from no config at all.
THEOREM IncrementalNoStaleHandler ==
    ASSUME Modes = {TRUE}
    PROVE  Spec => []HandlerNoStale
<1>1. Spec => [](TypeInv /\ IncrementalInv)
  BY TypeInit, TypeStep, IncrementalInit, IncrementalStep, PTL DEF Spec
<1>2. IncrementalInv => HandlerNoStale
  BY DEF IncrementalInv, HandlerNoStale
<1> QED
  BY <1>1, <1>2, PTL

=============================================================================
