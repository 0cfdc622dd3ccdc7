------------------------ MODULE NetworksWatcherProofs ------------------------
(***************************************************************************)
(* Machine-checked proofs about the mesh networks watcher                  *)
(* (NetworksWatcher, pkg/config/mesh/networks_watcher.go), for every set   *)
(* of file contents, resolutions, handlers and write bound that satisfies  *)
(* the module's assumptions.                                               *)
(*                                                                         *)
(* WatcherCurrent is not inductive.  While the callback calls the         *)
(* handlers it copied, it says nothing, and the last Notify step would     *)
(* have to re-establish it; and between the unlocked read and the locked   *)
(* store it says nothing of what the store will write.  The strengthening  *)
(* CurrentInv drops the condition on `pending` and adds that a callback    *)
(* that holds a read and has seen no event since holds the file as it is:  *)
(* a write after the read always leaves an event.                          *)
(***************************************************************************)
EXTENDS NetworksWatcher, TLAPS

USE ResolveAssumption, WritesAssumption

\* Once the last event of a complete file is handled, the stored
\* configuration is that file's, whether handlers remain to be called or
\* not; and a read that no event has followed is the file's content.
CurrentInv ==
    /\ ~event /\ read = NoValue /\ file # Partial => networks = Resolve[file]
    /\ ~event /\ read # NoValue => read = file

LEMMA TypeInit == Init => TypeOK
<1> SUFFICES ASSUME Init PROVE TypeOK
  OBVIOUS
<1>1. file \in Contents /\ networks = Resolve[file]
  BY DEF Init
<1>2. networks \in Configs
  BY <1>1
<1>3. seen \in [Handlers -> Configs \cup {NoValue}] /\ writes \in 0..MaxWrites
  BY DEF Init
<1> QED
  BY <1>1, <1>2, <1>3 DEF Init, TypeOK

LEMMA TypeStep == TypeOK /\ [Next]_vars => TypeOK'
<1> SUFFICES ASSUME TypeOK, [Next]_vars PROVE TypeOK'
  OBVIOUS
<1>1. CASE WriteBegin
  BY <1>1 DEF WriteBegin, TypeOK
<1>2. ASSUME NEW c \in Contents, WriteEnd(c)
      PROVE  TypeOK'
  BY <1>2 DEF WriteEnd, TypeOK
<1>3. CASE ReloadReadError
  BY <1>3 DEF ReloadReadError, TypeOK
<1>4. CASE ReloadRead
  BY <1>4 DEF ReloadRead, TypeOK
<1>9. CASE ReloadStore
  <2>1. read \in Contents
    BY <1>9 DEF ReloadStore, TypeOK
  <2>2. Resolve[read] \in Configs
    BY <2>1
  <2> QED
    BY <1>9, <2>2 DEF ReloadStore, TypeOK
<1>5. ASSUME NEW h \in Handlers, Notify(h)
      PROVE  TypeOK'
  BY <1>5 DEF Notify, TypeOK
<1>6. ASSUME NEW h \in Handlers, AddNetworksHandler(h)
      PROVE  TypeOK'
  BY <1>6 DEF AddNetworksHandler, TypeOK
<1>7. ASSUME NEW h \in Handlers, InitialRead(h)
      PROVE  TypeOK'
  BY <1>7 DEF InitialRead, TypeOK
<1>8. CASE UNCHANGED vars
  BY <1>8 DEF vars, TypeOK
<1> QED
  BY <1>1, <1>2, <1>3, <1>4, <1>5, <1>6, <1>7, <1>8, <1>9 DEF Next

\* Every variable of the watcher keeps its type; in particular the handlers
\* still to be called are always registered ones, and the watcher always
\* serves a resolved configuration.
THEOREM WatcherTypeCorrect == Spec => []TypeOK
BY TypeInit, TypeStep, PTL DEF Spec

LEMMA CurrentInit == Init => CurrentInv
BY DEF Init, CurrentInv

LEMMA CurrentStep == TypeOK /\ CurrentInv /\ [Next]_vars => CurrentInv'
<1> SUFFICES ASSUME TypeOK, CurrentInv, [Next]_vars PROVE CurrentInv'
  OBVIOUS
<1>1. CASE WriteBegin
  BY <1>1 DEF WriteBegin, CurrentInv
<1>2. ASSUME NEW c \in Contents, WriteEnd(c)
      PROVE  CurrentInv'
  BY <1>2 DEF WriteEnd, CurrentInv
<1>3. CASE ReloadReadError
  BY <1>3 DEF ReloadReadError, CurrentInv
<1>4. CASE ReloadRead
  \* The read takes the event and the file as it is now.
  <2>1. file \in Contents /\ read' = file /\ file' = file /\ ~event'
    BY <1>4 DEF ReloadRead, TypeOK
  <2>2. read' # NoValue
    BY <2>1
  <2> QED
    BY <2>1, <2>2 DEF CurrentInv
<1>9. CASE ReloadStore
  <2>1. read' = NoValue /\ file' = file /\ event' = event
    BY <1>9 DEF ReloadStore
  <2>2. CASE event
    BY <2>1, <2>2 DEF CurrentInv
  <2>3. CASE ~event
    \* No write since the read: what the callback stores is the file's.
    <3>1. read = file /\ read \in Contents
      BY <1>9, <2>3 DEF CurrentInv, ReloadStore, TypeOK
    <3>2. CASE read # networks
      BY <1>9, <2>1, <3>1, <3>2 DEF ReloadStore, CurrentInv
    <3>3. CASE read = networks
      \* The DeepEqual check passes the read configuration, which is a
      \* resolved one, so resolving it would change nothing.
      <4>1. read \in Configs /\ networks' = networks
        BY <1>9, <3>3 DEF ReloadStore, TypeOK
      <4>2. Resolve[read] = read
        BY <3>1, <4>1
      <4> QED
        BY <2>1, <3>1, <3>3, <4>1, <4>2 DEF CurrentInv
    <3> QED
      BY <3>2, <3>3
  <2> QED
    BY <2>2, <2>3
<1>5. ASSUME NEW h \in Handlers, Notify(h)
      PROVE  CurrentInv'
  BY <1>5 DEF Notify, CurrentInv
<1>6. ASSUME NEW h \in Handlers, AddNetworksHandler(h)
      PROVE  CurrentInv'
  BY <1>6 DEF AddNetworksHandler, CurrentInv
<1>7. ASSUME NEW h \in Handlers, InitialRead(h)
      PROVE  CurrentInv'
  BY <1>7 DEF InitialRead, CurrentInv
<1>8. CASE UNCHANGED vars
  BY <1>8 DEF vars, CurrentInv
<1> QED
  BY <1>1, <1>2, <1>3, <1>4, <1>5, <1>6, <1>7, <1>8, <1>9 DEF Next

\* No file write is lost: once no callback runs and every event of a
\* complete file is handled, the watcher serves that file's resolved
\* configuration, although the callback reads the file (ReadMeshNetworks)
\* outside the mutex and a write can land before its DeepEqual check and
\* StorePointer under the mutex store what it read.
THEOREM NoLostWrite == Spec => []WatcherCurrent
<1>1. Spec => [](TypeOK /\ CurrentInv)
  BY TypeInit, TypeStep, CurrentInit, CurrentStep, PTL DEF Spec
<1>2. CurrentInv => WatcherCurrent
  BY DEF CurrentInv, WatcherCurrent
<1> QED
  BY <1>1, <1>2, PTL

-----------------------------------------------------------------------------
(***************************************************************************)
(* Handlers.  HandlersCurrent needs one more fact to be inductive: a       *)
(* handler that is not registered has read nothing, so that                *)
(* AddNetworksHandler cannot bring a stale reading into the registered set. *)
(***************************************************************************)
HandlersInv ==
    /\ HandlersCurrent
    /\ \A h \in Handlers \ registered : seen[h] = NoValue

LEMMA HandlersInit == Init => HandlersInv
BY DEF Init, HandlersInv, HandlersCurrent

LEMMA HandlersStep == TypeOK /\ HandlersInv /\ [Next]_vars => HandlersInv'
<1> SUFFICES ASSUME TypeOK, HandlersInv, [Next]_vars PROVE HandlersInv'
  OBVIOUS
<1>1. CASE WriteBegin
  BY <1>1 DEF WriteBegin, HandlersInv, HandlersCurrent
<1>2. ASSUME NEW c \in Contents, WriteEnd(c)
      PROVE  HandlersInv'
  BY <1>2 DEF WriteEnd, HandlersInv, HandlersCurrent
<1>3. CASE ReloadReadError
  BY <1>3 DEF ReloadReadError, HandlersInv, HandlersCurrent
<1>4. CASE ReloadRead
  BY <1>4 DEF ReloadRead, HandlersInv, HandlersCurrent
<1>9. CASE ReloadStore
  \* A changed configuration is stored together with the copy of every
  \* registered handler, so none of them is outside `pending'.
  <2>1. CASE read # networks
    <3>1. pending' = registered /\ registered' = registered /\ seen' = seen
      BY <1>9, <2>1 DEF ReloadStore
    <3>2. QED
      BY <3>1 DEF HandlersInv, HandlersCurrent
  <2>2. CASE read = networks
    BY <1>9, <2>2 DEF ReloadStore, HandlersInv, HandlersCurrent
  <2>3. QED
    BY <2>1, <2>2
<1>5. ASSUME NEW h \in Handlers, Notify(h)
      PROVE  HandlersInv'
  \* The called handler reads the configuration just stored; the callback
  \* holds no new event while it calls, so nothing is stored meanwhile.
  <2>1. /\ h \in registered
        /\ seen' = [seen EXCEPT ![h] = networks]
        /\ pending' = pending \ {h}
        /\ UNCHANGED <<networks, registered>>
    BY <1>5 DEF Notify, TypeOK
  <2>2. QED
    BY <2>1 DEF HandlersInv, HandlersCurrent, TypeOK
<1>6. ASSUME NEW h \in Handlers, AddNetworksHandler(h)
      PROVE  HandlersInv'
  BY <1>6 DEF AddNetworksHandler, HandlersInv, HandlersCurrent
<1>7. ASSUME NEW h \in Handlers, InitialRead(h)
      PROVE  HandlersInv'
  <2>1. /\ h \in registered
        /\ seen' = [seen EXCEPT ![h] = networks]
        /\ UNCHANGED <<networks, registered, pending>>
    BY <1>7 DEF InitialRead
  <2>2. QED
    BY <2>1 DEF HandlersInv, HandlersCurrent, TypeOK
<1>8. CASE UNCHANGED vars
  BY <1>8 DEF vars, HandlersInv, HandlersCurrent
<1> QED
  BY <1>1, <1>2, <1>3, <1>4, <1>5, <1>6, <1>7, <1>8, <1>9 DEF Next

\* No handler is left on an old configuration: whichever way
\* AddNetworksHandler, the handler copy under the mutex and the calls after
\* the unlock interleave, a registered handler the callback will not call
\* again already holds what Networks() returns, once it has read at all.
THEOREM NoStaleHandler == Spec => []HandlersCurrent
<1>1. Spec => [](TypeOK /\ HandlersInv)
  BY TypeInit, TypeStep, HandlersInit, HandlersStep, PTL DEF Spec
<1>2. HandlersInv => HandlersCurrent
  BY DEF HandlersInv
<1> QED
  BY <1>1, <1>2, PTL

=============================================================================
