-------------------------- MODULE NetworksWatcher --------------------------
(***************************************************************************)
(* The mesh networks watcher (pkg/config/mesh/networks_watcher.go).        *)
(*                                                                         *)
(* The watcher holds the resolved MeshNetworks behind an atomic pointer.   *)
(* On every event of the watched file its callback re-reads the file     *)
(* without the mutex (a read error is logged and the event dropped); then, *)
(* under the mutex, if what it read is not DeepEqual to the stored         *)
(* configuration, it resolves the gateway host names, stores the result    *)
(* and copies the handler slice; after the unlock it calls every copied    *)
(* handler.  The file may be rewritten between the read and the store.     *)
(* The file watcher (addFileWatcher, outside this file) runs callbacks one *)
(* at a time and delivers an event for every change of the file, also one *)
(* that happens while a callback runs.                                     *)
(*                                                                         *)
(* A file content is a model value; Resolve[c] is the configuration        *)
(* ResolveHostsInNetworksConfig makes of it (itself when it names no host).*)
(* A writer replaces the file in two steps, so that a read in between      *)
(* finds a partial file that does not parse.  A handler re-reads           *)
(* Networks() when called; `seen` is what each handler last read.          *)
(***************************************************************************)
EXTENDS Naturals, FiniteSets

CONSTANTS
    Contents,    \* well-formed contents of the networks file
    Resolve,     \* Resolve[c]: the configuration after host resolution
    Partial,     \* a half-written file
    Handlers,    \* handler registrations
    NoValue,     \* a handler that has read nothing yet
    MaxWrites    \* bound on file writes

Configs == {Resolve[c] : c \in Contents}

ASSUME ResolveAssumption ==
    /\ Resolve \in [Contents -> Configs]
    /\ Partial \notin Contents \cup Configs
    /\ NoValue \notin Contents \cup Configs
    \* A content that is already a resolved configuration names no host, so
    \* resolving it again leaves it as it is.
    /\ \A c \in Contents : c \in Configs => Resolve[c] = c
ASSUME WritesAssumption == MaxWrites \in Nat

VARIABLES
    file,        \* the content of the networks file
    event,       \* a file event is pending for the watcher
    networks,    \* w.networks
    registered,  \* the handlers in w.handlers
    read,        \* the callback's meshNetworks, read and not yet compared
                 \* (NoValue outside that window)
    pending,     \* the copied handlers the callback has still to call
    seen,        \* seen[h]: the configuration h last read
    writes       \* file writes so far (bound only)

vars == <<file, event, networks, registered, read, pending, seen, writes>>

-----------------------------------------------------------------------------
\* NewNetworksWatcher: the file is read and resolved once at construction.
Init ==
    /\ file \in Contents
    /\ event = FALSE
    /\ networks = Resolve[file]
    /\ registered = {}
    /\ read = NoValue
    /\ pending = {}
    /\ seen = [h \in Handlers |-> NoValue]
    /\ writes = 0

\* A writer starts replacing the file: the file is partial, an event fires.
WriteBegin ==
    /\ file # Partial
    /\ writes < MaxWrites
    /\ file' = Partial
    /\ event' = TRUE
    /\ writes' = writes + 1
    /\ UNCHANGED <<networks, registered, read, pending, seen>>

\* The writer finishes: the file holds c, an event fires.
WriteEnd(c) ==
    /\ file = Partial
    /\ file' = c
    /\ event' = TRUE
    /\ UNCHANGED <<networks, registered, read, pending, seen, writes>>

\* A callback starts (the file watcher runs one at a time, so none is
\* between its read and its store or calling handlers) and reads a partial
\* file: ReadMeshNetworks fails, it logs and returns.
ReloadReadError ==
    /\ event /\ read = NoValue /\ pending = {}
    /\ file = Partial
    /\ event' = FALSE
    /\ UNCHANGED <<file, networks, registered, read, pending, seen, writes>>

\* A callback starts and ReadMeshNetworks(filename) succeeds, outside the
\* mutex: the callback holds the content as it is now.
ReloadRead ==
    /\ event /\ read = NoValue /\ pending = {}
    /\ file # Partial
    /\ event' = FALSE
    /\ read' = file
    /\ UNCHANGED <<file, networks, registered, pending, seen, writes>>

\* Mutant: the new configuration is not stored (StorePointer dropped).
ReloadStoreDropped ==
    /\ read # NoValue
    /\ pending' = IF read # networks THEN registered ELSE pending
    /\ read' = NoValue
    /\ UNCHANGED <<file, event, networks, registered, seen, writes>>

\* Mutant: the handlers are not copied, so none is called.
ReloadStoreNoCopy ==
    /\ read # NoValue
    /\ networks' = IF read # networks THEN Resolve[read] ELSE networks
    /\ read' = NoValue
    /\ UNCHANGED <<file, event, registered, pending, seen, writes>>

\* Mutant: the configuration is stored without resolving its host names.
ReloadStoreUnresolved ==
    /\ read # NoValue
    /\ IF read # networks
         THEN /\ networks' = read
              /\ pending' = registered
         ELSE UNCHANGED <<networks, pending>>
    /\ read' = NoValue
    /\ UNCHANGED <<file, event, registered, seen, writes>>

\* Under the mutex: when what the callback read is not DeepEqual to
\* w.networks (the stored, resolved configuration), it resolves the read
\* configuration, stores it and copies the handlers.  The file may have
\* changed since the read; that change has left an event of its own.
ReloadStore ==
    /\ read # NoValue
    /\ IF read # networks
         THEN /\ networks' = Resolve[read]
              /\ pending' = registered
         ELSE UNCHANGED <<networks, pending>>
    /\ read' = NoValue
    /\ UNCHANGED <<file, event, registered, seen, writes>>

\* The callback calls one copied handler, which reads Networks().
Notify(h) ==
    /\ h \in pending
    /\ pending' = pending \ {h}
    /\ seen' = [seen EXCEPT ![h] = networks]
    /\ UNCHANGED <<file, event, networks, registered, read, writes>>

\* AddNetworksHandler(h) under the mutex; the caller then reads
\* Networks() for its initial configuration.
AddNetworksHandler(h) ==
    /\ h \notin registered
    /\ registered' = registered \cup {h}
    /\ UNCHANGED <<file, event, networks, read, pending, seen, writes>>

\* The caller's initial Networks() after registering.
InitialRead(h) ==
    /\ h \in registered
    /\ seen[h] = NoValue
    /\ seen' = [seen EXCEPT ![h] = networks]
    /\ UNCHANGED <<file, event, networks, registered, read, pending, writes>>

Next ==
    \/ WriteBegin
    \/ \E c \in Contents : WriteEnd(c)
    \/ ReloadReadError
    \/ ReloadRead
    \/ ReloadStore
    \/ \E h \in Handlers :
          \/ Notify(h)
          \/ AddNetworksHandler(h)
          \/ InitialRead(h)

\* The file watcher delivers every event and the callback runs to the end;
\* callers finish their registration.  Writers need not write.
Fairness ==
    /\ WF_vars(ReloadReadError) /\ WF_vars(ReloadRead) /\ WF_vars(ReloadStore)
    /\ \A h \in Handlers : WF_vars(Notify(h)) /\ WF_vars(InitialRead(h))

Spec == Init /\ [][Next]_vars /\ Fairness

-----------------------------------------------------------------------------
(***************************************************************************)
(* Properties.                                                             *)
(***************************************************************************)

\* Every variable keeps its type.
TypeOK ==
    /\ file \in Contents \cup {Partial}
    /\ event \in BOOLEAN
    /\ networks \in Configs
    /\ registered \subseteq Handlers
    /\ read \in Contents \cup {NoValue}
    /\ pending \subseteq registered
    /\ seen \in [Handlers -> Configs \cup {NoValue}]
    /\ writes \in 0..MaxWrites

\* Once no callback is running and every event is handled, the watcher
\* serves the configuration of the complete file: a write that lands
\* between the callback's unlocked ReadMeshNetworks and its locked
\* DeepEqual check and StorePointer, which then store the older content,
\* is not lost, and neither is a torn write that made a read fail.
WatcherCurrent ==
    ~event /\ read = NoValue /\ pending = {} /\ file # Partial =>
        networks = Resolve[file]

\* No handler is left on an old configuration: a registered handler that
\* the callback is not about to call (it was registered after the handler
\* copy, or has been called) holds the served configuration, unless it has
\* not made its initial Networks() read yet.
HandlersCurrent ==
    \A h \in registered \ pending : seen[h] \in {networks, NoValue}

\* Every registered handler eventually holds the configuration the watcher
\* serves, whichever way its registration and initial read interleave with
\* reloads (AddNetworksHandler, the handler copy and the calls after unlock).
HandlersConverge ==
    <>[](\A h \in registered : seen[h] = networks)

\* The callback calls the handlers only when the configuration really
\* changed ("if !reflect.DeepEqual(meshNetworks, w.networks)").
NotifyOnlyOnChange ==
    [][ReloadStore /\ pending' # {} => Resolve[read] # networks]_vars

=============================================================================
