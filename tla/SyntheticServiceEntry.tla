----------------------- MODULE SyntheticServiceEntry -----------------------
(***************************************************************************)
(* The incremental MCP controller for synthetic service entries            *)
(* (pilot/pkg/serviceregistry/synthetic/serviceentry/                      *)
(*  syntheticserviceentrycontroller.go).                                   *)
(*                                                                         *)
(* It keeps configStore[namespace][name] for one collection.  Apply of a   *)
(* change with objects either (incremental) removes change.Removed and     *)
(* then upserts every object one by one under configStoreMu, or (full)     *)
(* builds a new [namespace][name] map and swaps it in.  For every object   *)
(* it decides, by the serviceVersion annotation, whether the service       *)
(* changed (full push of its namespace) or, on the incremental path, by    *)
(* the endpointsVersion annotation whether only its endpoints changed (an  *)
(* EDS update).  Every accepted Apply adds one to the uint32 `synced`.     *)
(*                                                                         *)
(* A key is a <<namespace, name>> pair; a config is reduced to the two     *)
(* annotations the controller reads, svc (serviceVersion) and ep           *)
(* (endpointsVersion); an absent annotation is the empty string, as        *)
(* version() returns it.  `downstream` is what the XDS updater has been    *)
(* told: a full push re-reads the store for the namespaces it names (all   *)
(* of them when it names none), an EDS update carries one config's         *)
(* endpoints.  The event handler is modelled by the set of keys it has     *)
(* been told exist.                                                        *)
(***************************************************************************)
EXTENDS Naturals, FiniteSets

CONSTANTS
    Namespaces,     \* namespaces
    Names,          \* config names
    Keys,           \* <<namespace, name>> identities
    Fingerprints,   \* annotation values, "" (absent) included
    SyntheticSE,    \* the collection this controller accepts
    OtherCollection,\* any other collection
    Modes,          \* values of change.Incremental the source sends
    NoConfig,       \* "no config under this key"
    MaxApply,       \* bound on the number of Apply calls
    MaxObjects,     \* bound on the objects of one change
    SyncedBits      \* width of the synced counter (uint32)

\* version(anno, key): what an absent annotation reads as.
NoVersion == ""

ASSUME KeysAssumption ==
    /\ Keys \subseteq Namespaces \X Names
    /\ NoVersion \in Fingerprints
    /\ NoConfig \notin Fingerprints
ASSUME ModesAssumption == Modes \subseteq BOOLEAN /\ Modes # {}
ASSUME BoundsAssumption ==
    /\ MaxApply \in Nat /\ MaxObjects \in Nat /\ SyncedBits \in Nat \ {0}
ASSUME CollectionAssumption == SyntheticSE # OtherCollection

\* The modulus of the uint32 synced counter.
SyncedModulus == 2 ^ SyncedBits
\* It is a positive number (stated for the proofs, whose backends do not
\* evaluate ^).
ASSUME ModulusAssumption == SyncedModulus \in Nat \ {0}

VARIABLES
    store,        \* configStore[ns][name], flattened to [Keys -> Config \cup {NoConfig}]
    nsPresent,    \* the namespaces that have a (possibly empty) entry in configStore
    synced,       \* the uint32 counter read by HasSynced
    registered,   \* eventHandler != nil
    mirror,       \* the keys the event handler has been told exist
    downstream,   \* per key, the config last delivered to the XDS updater
    applier,      \* the goroutine running Apply
    applied       \* Apply calls so far (bound only)

vars == <<store, nsPresent, synced, registered, mirror, downstream, applier,
          applied>>

Ns(k) == k[1]
Config == [svc : Fingerprints, ep : Fingerprints]
Object == [key : Keys, svc : Fingerprints, ep : Fingerprints, ok : BOOLEAN]
Slot == Config \cup {NoConfig}
ASSUME NoConfigAssumption == NoConfig \notin Config
EmptyStore == [k \in Keys |-> NoConfig]
\* What the XDS updater knows of one key: service and endpoint versions.
View == [svc : Fingerprints \cup {NoConfig}, ep : Fingerprints \cup {NoConfig}]
NoView == [svc |-> NoConfig, ep |-> NoConfig]
ViewOf(slot) == IF slot = NoConfig THEN NoView ELSE slot
StoreKeys == {k \in Keys : store[k] # NoConfig}
ConfigOf(obj) == [svc |-> obj.svc, ep |-> obj.ep]

\* HasSynced: atomic.LoadUint32(&c.synced) != 0
HasSynced == synced # 0
\* defer atomic.AddUint32(&c.synced, 1)
SyncedIncrement == (synced + 1) % SyncedModulus

\* The local state of Apply: the path taken, the objects still to come,
\* svcChangeByNamespace, and for the full path the new `configs` map and
\* its namespaces.  `expect` is what the change says the store should hold
\* afterwards (history), `sent` the number of objects it carried.
IdleApplier(expect, sent) ==
    [pc |-> "idle", left |-> 0, removed |-> {}, svcChange |-> {},
     configs |-> EmptyStore, configsNs |-> {}, expect |-> expect, sent |-> sent]

\* Mutant: a config seen for the first time is not sent down the full path.
IsFullUpdateRequiredOnlyOnChange(k, conf) ==
    store[k] # NoConfig /\ store[k].svc # conf.svc

\* isFullUpdateRequired(newConf) against the store as it is now.
IsFullUpdateRequired(k, conf) ==
    store[k] = NoConfig \/ store[k].svc # conf.svc

\* XDSUpdater.ConfigUpdate(Full, NamespacesUpdated = ns): the updater
\* rebuilds the namespaces named, or every namespace when none is named,
\* from the store `st` it reads.
FullPush(st, ns) ==
    [k \in Keys |-> IF ns = {} \/ Ns(k) \in ns THEN ViewOf(st[k]) ELSE downstream[k]]

-----------------------------------------------------------------------------
Init ==
    /\ store = EmptyStore
    /\ nsPresent = {}
    /\ synced = 0
    /\ registered = FALSE
    /\ mirror = {}
    /\ downstream = [k \in Keys |-> NoView]
    /\ applier = IdleApplier(EmptyStore, 0)
    /\ applied = 0

\* Apply of another collection: an error, returned before the deferred
\* increment of synced.
ApplyUnsupported(c) ==
    /\ applier.pc = "idle"
    /\ c # SyntheticSE
    /\ UNCHANGED vars

\* Mutant: the early return for a change without objects skips the
\* deferred increment.
ApplyNoObjectsNoSync(incr, removed) ==
    /\ applier.pc = "idle"
    /\ applied < MaxApply
    /\ applied' = applied + 1
    /\ applier' = IdleApplier(IF incr THEN [k \in Keys |-> IF k \in removed
                                                         THEN NoConfig ELSE store[k]]
                                       ELSE EmptyStore, 0)
    /\ UNCHANGED <<store, nsPresent, synced, registered, mirror, downstream>>

\* Apply of a change without objects returns at once: change.Removed is
\* ignored, the store is left as it is, synced is incremented.
ApplyNoObjects(incr, removed) ==
    /\ applier.pc = "idle"
    /\ applied < MaxApply
    /\ applied' = applied + 1
    /\ synced' = SyncedIncrement
    /\ applier' = IdleApplier(IF incr THEN [k \in Keys |-> IF k \in removed
                                                         THEN NoConfig ELSE store[k]]
                                       ELSE EmptyStore, 0)
    /\ UNCHANGED <<store, nsPresent, registered, mirror, downstream>>

\* Apply of a change with n > 0 objects: removeConfig then incrementalUpdate,
\* or configStoreUpdate.
ApplyStart(incr, n, removed) ==
    /\ applier.pc = "idle"
    /\ applied < MaxApply
    /\ n > 0
    /\ applied' = applied + 1
    /\ applier' = [IdleApplier(IF incr THEN [k \in Keys |-> IF k \in removed
                                                         THEN NoConfig ELSE store[k]]
                                       ELSE EmptyStore, n)
                   EXCEPT !.pc = IF incr THEN "remove" ELSE "full",
                          !.left = n, !.removed = removed]
    /\ UNCHANGED <<store, nsPresent, synced, registered, mirror, downstream>>

\* Mutant: removals are applied without dispatching Delete.
RemoveConfigSilently ==
    /\ applier.pc = "remove"
    /\ store' = [k \in Keys |-> IF k \in applier.removed THEN NoConfig ELSE store[k]]
    /\ applier' = [applier EXCEPT !.pc = "incremental"]
    /\ UNCHANGED <<nsPresent, synced, registered, mirror, downstream, applied>>

\* removeConfig(change.Removed), entirely under configStoreMu: each present
\* config is deleted and a Delete event dispatched.  The emptied namespace
\* map is meant to be dropped, but the code deletes the namespace name from
\* the (empty) byNamespace map, so the namespace entry stays.
RemoveConfig ==
    /\ applier.pc = "remove"
    /\ LET gone == {k \in applier.removed : store[k] # NoConfig}
       IN /\ store' = [k \in Keys |-> IF k \in gone THEN NoConfig ELSE store[k]]
          /\ mirror' = IF registered THEN mirror \ gone ELSE mirror
    /\ applier' = [applier EXCEPT !.pc = "incremental"]
    /\ UNCHANGED <<nsPresent, synced, registered, downstream, applied>>

\* Mutant: convertToConfig errors do not skip the object (no `continue`).
IncrementalObjectNoDiscard(obj) ==
    /\ applier.pc = "incremental"
    /\ applier.left > 0
    /\ store' = [store EXCEPT ![obj.key] = ConfigOf(obj)]
    /\ nsPresent' = nsPresent \cup {Ns(obj.key)}
    /\ applier' = [applier EXCEPT !.left = @ - 1,
                     !.expect = IF obj.ok THEN [@ EXCEPT ![obj.key] = ConfigOf(obj)] ELSE @]
    /\ UNCHANGED <<synced, registered, mirror, downstream, applied>>

\* One iteration of incrementalUpdate: convertToConfig (a bad timestamp or
\* a failed validation discards the object), isFullUpdateRequired, then
\* under the lock the upsert with an Update event when the namespace map
\* exists and an Add event when it does not; a service change marks the
\* namespace, otherwise a changed endpointsVersion sends an EDS update.
IncrementalObject(obj) ==
    /\ applier.pc = "incremental"
    /\ applier.left > 0
    /\ IF obj.ok
         THEN LET k == obj.key
                  conf == ConfigOf(obj)
                  oldEp == IF store[k] # NoConfig THEN store[k].ep ELSE NoVersion
                  svcChanged == IsFullUpdateRequired(k, conf)
              IN /\ store' = [store EXCEPT ![k] = conf]
                 /\ nsPresent' = nsPresent \cup {Ns(k)}
                 /\ mirror' = IF registered THEN mirror \cup {k} ELSE mirror
                 /\ applier' = [applier EXCEPT
                                  !.left = @ - 1,
                                  !.svcChange = IF svcChanged THEN @ \cup {Ns(k)} ELSE @,
                                  !.expect[k] = conf]
                 /\ downstream' = IF ~svcChanged /\ oldEp # conf.ep
                                    THEN [downstream EXCEPT ![k].ep = conf.ep]
                                    ELSE downstream
         ELSE /\ applier' = [applier EXCEPT !.left = @ - 1]
              /\ UNCHANGED <<store, nsPresent, mirror, downstream>>
    /\ UNCHANGED <<synced, registered, applied>>

\* The end of incrementalUpdate: one full push naming the changed
\* namespaces, if any; then the deferred increment of synced.
IncrementalPush ==
    /\ applier.pc = "incremental"
    /\ applier.left = 0
    /\ downstream' = IF applier.svcChange # {}
                       THEN FullPush(store, applier.svcChange) ELSE downstream
    /\ synced' = SyncedIncrement
    /\ applier' = IdleApplier(applier.expect, applier.sent)
    /\ UNCHANGED <<store, nsPresent, registered, mirror, applied>>

\* One iteration of configStoreUpdate: the object goes into the new
\* `configs` map, with an Update event when `configs` already has its
\* namespace and an Add event otherwise; isFullUpdateRequired is asked of
\* the store that is about to be replaced.
FullObject(obj) ==
    /\ applier.pc = "full"
    /\ applier.left > 0
    /\ IF obj.ok
         THEN LET k == obj.key
                  conf == ConfigOf(obj)
              IN /\ mirror' = IF registered THEN mirror \cup {k} ELSE mirror
                 /\ applier' = [applier EXCEPT
                                  !.left = @ - 1,
                                  !.configs[k] = conf,
                                  !.configsNs = @ \cup {Ns(k)},
                                  !.svcChange = IF IsFullUpdateRequired(k, conf)
                                                  THEN @ \cup {Ns(k)} ELSE @,
                                  !.expect[k] = conf]
         ELSE /\ applier' = [applier EXCEPT !.left = @ - 1]
              /\ UNCHANGED mirror
    /\ UNCHANGED <<store, nsPresent, synced, registered, downstream, applied>>

\* The end of configStoreUpdate: configStore = configs under the lock, then
\* a full push naming the changed namespaces (possibly none); then the
\* deferred increment of synced.
FullSwap ==
    /\ applier.pc = "full"
    /\ applier.left = 0
    /\ store' = applier.configs
    /\ nsPresent' = applier.configsNs
    /\ downstream' = FullPush(applier.configs, applier.svcChange)
    /\ synced' = SyncedIncrement
    /\ applier' = IdleApplier(applier.expect, applier.sent)
    /\ UNCHANGED <<registered, mirror, applied>>

\* RegisterEventHandler: only the first handler is kept.  It is told
\* nothing of the configs already stored; it hears of the changes that
\* follow.
RegisterEventHandler ==
    /\ ~registered
    /\ registered' = TRUE
    /\ UNCHANGED <<store, nsPresent, synced, mirror, downstream, applier, applied>>

Next ==
    \/ ApplyUnsupported(OtherCollection)
    \/ \E incr \in Modes, removed \in SUBSET Keys : ApplyNoObjects(incr, removed)
    \/ \E incr \in Modes, n \in 1..MaxObjects, removed \in SUBSET Keys :
          ApplyStart(incr, n, removed)
    \/ RemoveConfig
    \/ \E obj \in Object : IncrementalObject(obj)
    \/ IncrementalPush
    \/ \E obj \in Object : FullObject(obj)
    \/ FullSwap
    \/ RegisterEventHandler

Spec == Init /\ [][Next]_vars

-----------------------------------------------------------------------------
(***************************************************************************)
(* Properties.                                                             *)
(***************************************************************************)

\* Every variable keeps its type.
TypeOK ==
    /\ store \in [Keys -> Slot]
    /\ nsPresent \subseteq Namespaces
    /\ synced \in 0..(SyncedModulus - 1)
    /\ registered \in BOOLEAN
    /\ mirror \subseteq Keys
    /\ downstream \in [Keys -> View]
    /\ applier.pc \in {"idle", "remove", "incremental", "full"}
    /\ applier.left \in 0..MaxObjects
    /\ applier.svcChange \subseteq Namespaces
    /\ applier.configs \in [Keys -> Slot]
    /\ applier.expect \in [Keys -> Slot]
    /\ applied \in 0..MaxApply

\* Between changes, the XDS updater knows the current service and endpoint
\* versions of every stored config: a service change is always covered by
\* a full push of its namespace, an endpoint-only change by an EDS update
\* or a full push (isFullUpdateRequired, incrementalUpdate, edsUpdate).
DownstreamFresh ==
    applier.pc = "idle" =>
        \A k \in StoreKeys : downstream[k] = ViewOf(store[k])

\* Between changes, the event handler believes in no config the store has
\* dropped: a config that leaves the store is always announced by a Delete.
HandlerNoStale ==
    registered /\ applier.pc = "idle" => mirror \subseteq StoreKeys

\* Spec sections 3 and 4.2: after a change with at least one object, the
\* store holds exactly what it says: a full change its accepted objects
\* only, an incremental change the old contents minus the removals plus
\* the accepted objects (an object both removed and upserted stays; a
\* discarded object changes nothing).
NonEmptyAppliedAsSent ==
    applier.pc = "idle" /\ applier.sent > 0 => store = applier.expect

\* HasSynced's counter counts the accepted Apply calls that have returned:
\* each one, with or without objects, adds one when it returns (the
\* deferred AddUint32 placed after the collection check), none adds one
\* before its changes are in the store, and a refused one adds nothing.
\* The count is modulo 2^SyncedBits, so HasSynced is false again after
\* every multiple of 2^32 changes (spec section 8 wants it to stay true).
SyncedCountsApplies ==
    synced = (applied - (IF applier.pc = "idle" THEN 0 ELSE 1)) % SyncedModulus

\* Spec section 4.4: a removal changes the set of services and needs a full
\* push, so between changes the XDS updater knows of no config the store
\* no longer holds.
NoStaleDownstream ==
    applier.pc = "idle" =>
        \A k \in Keys : store[k] = NoConfig => downstream[k] = NoView

=============================================================================
