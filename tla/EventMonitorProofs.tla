-------------------------- MODULE EventMonitorProofs --------------------------
(* Proofs about EventMonitor for any number of callers, monitors and readers.  *)
EXTENDS EventMonitor, FiniteSetTheorems, SequenceTheorems, TLAPS

\* The sections that block under the lock exclude each other as an RWMutex's do.
LockExclusion ==
  /\ WriteLocked => ~ReadLocked
  /\ \A p, q \in Writers : p = q

\* A goroutine that holds the write lock has emptied the list of listeners.
WritersFoundNone == WriteLocked => listeners = {}

\* Channels are closed with the generation that disableEventMonitoring ends.
Generations == /\ enabled => gen \notin chClosed
               /\ \A g \in chClosed : g <= gen

\* Every generation was enabled by a call of AddEventListener of its own.
Enabling == {l \in Listeners : upc[l] = "enable"}
EnablesCounted == gen + Cardinality(Enabling) <= adds

\* The monitors of later generations have not been started.
MonitorsStarted == \A m \in Monitors : m > gen => mpc[m] = "off"

\* What a reader passes on is an event that the daemon has emitted.
EventsEmitted == \A r \in Readers : rpc[r] \in {"event", "sending"} => rnext[r] \in Events

\* Each listener channel is used by one caller, which knows whether it is registered.
Ownership ==
  /\ listeners \cap closed \subseteq readded
  /\ \A l \in Listeners \ readded :
       /\ upc[l] \in {"enable", "addListener"} => l \notin listeners \cup closed
       /\ l \in listeners => upc[l] \in {"added", "removeListener"}

\* The inductive invariant.
IInv == /\ Types /\ WgBalance /\ LockExclusion /\ WritersFoundNone /\ SendsToOpenC
        /\ Generations /\ EnablesCounted /\ MonitorsStarted /\ EventsEmitted
        /\ Ownership /\ PanicsOnlyOnErrC

-----------------------------------------------------------------------------
\* The sets that the invariant counts are finite.
LEMMA FiniteSubsets ==
  ASSUME Types
  PROVE  /\ IsFiniteSet(Enabling) /\ Cardinality(Enabling) \in Nat
         /\ IsFiniteSet(listeners) /\ Cardinality(listeners) \in Nat
         /\ IsFiniteSet(Sending) /\ Cardinality(Sending) \in Nat
<1>1. Enabling \subseteq Listeners /\ listeners \subseteq Listeners /\ Sending \subseteq Monitors
  BY DEF Enabling, Sending, Types, SharedTypes
<1>2. IsFiniteSet(Listeners) /\ IsFiniteSet(Monitors)
  BY Bounds, FS_Interval DEF Monitors
<1> QED
  BY <1>1, <1>2, FS_Subset, FS_CardinalityType

\* Every step keeps the types of the callers' variables.
LEMMA CallerTypesStep ==
  ASSUME IInv, Next
  PROVE  CallerTypes'
<1> USE Bounds DEF IInv, Types, state, captured, monitor, reader, bounds
<1>1. ASSUME NEW l \in Listeners, AddEventListener(l)  PROVE CallerTypes'
  BY <1>1 DEF CallerTypes, AddEventListener
<1>2. ASSUME NEW l \in Listeners, enableEventMonitoring(l)  PROVE CallerTypes'
  BY <1>2 DEF CallerTypes, enableEventMonitoring, Lock
<1>3. ASSUME NEW l \in Listeners, addListener(l)  PROVE CallerTypes'
  BY <1>3 DEF CallerTypes, addListener, Lock
<1>4. ASSUME NEW l \in Listeners, RemoveEventListener(l)  PROVE CallerTypes'
  BY <1>4 DEF CallerTypes, RemoveEventListener
<1>5. ASSUME NEW l \in Listeners, removeListener(l)  PROVE CallerTypes'
  BY <1>5 DEF CallerTypes, removeListener, Lock
<1>6. ASSUME NEW l \in Listeners, listenersCount(l)  PROVE CallerTypes'
  BY <1>6 DEF CallerTypes, listenersCount
<1>7. ASSUME NEW l \in Listeners, CallerDisables(l)  PROVE CallerTypes'
  BY <1>7 DEF CallerTypes, CallerDisables, CloseListeners, StopMonitoring, Lock
<1>8. ASSUME NEW l \in Listeners,
            CallerBlocks(l)
     PROVE  CallerTypes'
  BY <1>8 DEF CallerTypes, CallerBlocks
<1>9. ASSUME NEW m \in Monitors,
            MonitorStart(m) \/ MonitorDisables(m) \/ CaptureChannels(m) \/ LoadLastSeen(m)
            \/ DialFails(m) \/ DialSucceeds(m) \/ MonitorLoop(m) \/ ReadC(m)
            \/ ReadErrC(m) \/ ReceiveEvent(m) \/ ReceiveError(m) \/
            SelectTimesOut(m) \/ updateLastSeen(m) \/ SendBegins(m) \/
            SendEnds(m) \/ MonitorBlocks(m)
     PROVE  CallerTypes'
  BY <1>9 DEF CallerTypes, MonitorStart, MonitorDisables, CaptureChannels,
     LoadLastSeen, DialFails, DialSucceeds, MonitorLoop, ReadC, ReadErrC,
     ReceiveEvent, ReceiveError, SelectTimesOut, updateLastSeen, SendBegins,
     SendEnds, MonitorBlocks, MonitorGoto, CloseListeners, StopMonitoring, Lock
<1>10. ASSUME NEW r \in Readers,
            DecodeEvent(r) \/ DecodeEOF(r) \/ DecodeFails(r) \/ SendError(r) \/
            ReaderChecks(r) \/ ReaderSends(r)
     PROVE  CallerTypes'
  BY <1>10 DEF CallerTypes, DecodeEvent, DecodeEOF, DecodeFails, SendError,
     ReaderChecks, ReaderSends, ReaderGoto
<1>11. CASE DaemonEmits
  BY <1>11 DEF CallerTypes, DaemonEmits
<1> QED
  BY <1>1, <1>2, <1>3, <1>4, <1>5, <1>6, <1>7, <1>8, <1>9, <1>10, <1>11 DEF Next, CallerStep, MonitorStep, DialStep, ReaderStep

\* Every step keeps the types of the monitors' variables.
LEMMA MonitorTypesStep ==
  ASSUME IInv, Next
  PROVE  MonitorTypes'
<1> USE Bounds DEF IInv, Types, state, captured, monitor, reader, bounds
<1>1. ASSUME NEW l \in Listeners, enableEventMonitoring(l)  PROVE MonitorTypes'
  BY <1>1 DEF MonitorTypes, SharedTypes, Gens, Monitors, Events, EOFEvent,
     enableEventMonitoring, Lock
<1>2. ASSUME NEW l \in Listeners,
            AddEventListener(l) \/ addListener(l) \/ RemoveEventListener(l) \/
            removeListener(l) \/ listenersCount(l) \/ CallerDisables(l) \/
            CallerBlocks(l)
     PROVE  MonitorTypes'
  BY <1>2 DEF MonitorTypes, SharedTypes, Gens, Monitors, Events, EOFEvent,
     AddEventListener, addListener, RemoveEventListener, removeListener,
     listenersCount, CallerDisables, CallerBlocks, Lock, CloseListeners,
     StopMonitoring
<1>3. ASSUME NEW m \in Monitors, MonitorStart(m)  PROVE MonitorTypes'
  BY <1>3 DEF MonitorTypes, SharedTypes, Gens, Monitors, Events, EOFEvent,
     MonitorStart, MonitorGoto
<1>4. ASSUME NEW m \in Monitors, MonitorDisables(m)  PROVE MonitorTypes'
  BY <1>4 DEF MonitorTypes, SharedTypes, Gens, Monitors, Events, EOFEvent,
     MonitorDisables, CloseListeners, StopMonitoring, Lock, MonitorGoto
<1>5. ASSUME NEW m \in Monitors, CaptureChannels(m)  PROVE MonitorTypes'
  BY <1>5 DEF MonitorTypes, SharedTypes, Gens, Monitors, Events, EOFEvent,
     CaptureChannels, MonitorGoto
<1>6. ASSUME NEW m \in Monitors, LoadLastSeen(m)  PROVE MonitorTypes'
  BY <1>6 DEF MonitorTypes, SharedTypes, Gens, Monitors, Events, EOFEvent,
     LoadLastSeen, MonitorGoto
<1>7. ASSUME NEW m \in Monitors, DialFails(m)  PROVE MonitorTypes'
  <2>1. tries' \in [Monitors -> Nat]
    BY <1>7 DEF DialFails, MonitorTypes
  <2>2. mpc' = [mpc EXCEPT ![m] = "connect"] \/ mpc' = [mpc EXCEPT ![m] = "disable"]
    BY <1>7 DEF DialFails, MonitorGoto
  <2> QED
    BY <1>7, <2>1, <2>2 DEF DialFails, MonitorTypes, captured
<1>8. ASSUME NEW m \in Monitors, DialSucceeds(m)  PROVE MonitorTypes'
  BY <1>8 DEF MonitorTypes, SharedTypes, Gens, Monitors, Events, EOFEvent,
     DialSucceeds, MonitorGoto
<1>9. ASSUME NEW m \in Monitors, MonitorLoop(m)  PROVE MonitorTypes'
  BY <1>9 DEF MonitorTypes, SharedTypes, Gens, Monitors, Events, EOFEvent,
     MonitorLoop, MonitorGoto
<1>10. ASSUME NEW m \in Monitors, ReadC(m)  PROVE MonitorTypes'
  BY <1>10 DEF MonitorTypes, SharedTypes, Gens, Monitors, Events, EOFEvent, ReadC,
     MonitorGoto
<1>11. ASSUME NEW m \in Monitors, ReadErrC(m)  PROVE MonitorTypes'
  BY <1>11 DEF MonitorTypes, SharedTypes, Gens, Monitors, Events, EOFEvent,
     ReadErrC, MonitorGoto
<1>12. ASSUME NEW m \in Monitors, ReceiveEvent(m)  PROVE MonitorTypes'
  <2>1. CASE C[mgen[m]] # <<>>
    <3>1. Head(C[mgen[m]]) \in Events
      BY <2>1, HeadTailProperties DEF SharedTypes, MonitorTypes
    <3>2. hold' \in [Monitors -> Events]
      BY <1>12, <2>1, <3>1 DEF ReceiveEvent, MonitorTypes
    <3>3. mpc' = [mpc EXCEPT ![m] = "disable"] \/ mpc' = [mpc EXCEPT ![m] = "updateLastSeen"]
      BY <1>12, <2>1 DEF ReceiveEvent, MonitorGoto
    <3> QED
      BY <1>12, <3>2, <3>3 DEF ReceiveEvent, MonitorTypes, captured
  <2>2. CASE C[mgen[m]] = <<>>
    BY <1>12, <2>2 DEF ReceiveEvent, MonitorTypes, MonitorGoto, captured
  <2> QED
    BY <2>1, <2>2
<1>13. ASSUME NEW m \in Monitors, ReceiveError(m)  PROVE MonitorTypes'
  BY <1>13 DEF MonitorTypes, SharedTypes, Gens, Monitors, Events, EOFEvent,
     ReceiveError, MonitorGoto
<1>14. ASSUME NEW m \in Monitors, SelectTimesOut(m)  PROVE MonitorTypes'
  BY <1>14 DEF MonitorTypes, SharedTypes, Gens, Monitors, Events, EOFEvent,
     SelectTimesOut, MonitorGoto
<1>15. ASSUME NEW m \in Monitors, updateLastSeen(m)  PROVE MonitorTypes'
  BY <1>15 DEF MonitorTypes, SharedTypes, Gens, Monitors, Events, EOFEvent,
     updateLastSeen, Lock, MonitorGoto
<1>16. ASSUME NEW m \in Monitors, SendBegins(m)  PROVE MonitorTypes'
  BY <1>16 DEF MonitorTypes, SharedTypes, Gens, Monitors, Events, EOFEvent,
     SendBegins, MonitorGoto
<1>17. ASSUME NEW m \in Monitors, SendEnds(m)  PROVE MonitorTypes'
  BY <1>17 DEF MonitorTypes, SharedTypes, Gens, Monitors, Events, EOFEvent,
     SendEnds, MonitorGoto
<1>18. ASSUME NEW m \in Monitors,
            MonitorBlocks(m)
     PROVE  MonitorTypes'
  BY <1>18 DEF MonitorTypes, SharedTypes, Gens, Monitors, Events, EOFEvent,
     MonitorBlocks
<1>19. ASSUME NEW r \in Readers,
            DecodeEvent(r) \/ DecodeEOF(r) \/ DecodeFails(r) \/ SendError(r) \/
            ReaderChecks(r) \/ ReaderSends(r)
     PROVE  MonitorTypes'
  BY <1>19 DEF MonitorTypes, SharedTypes, Gens, Monitors, Events, EOFEvent,
     DecodeEvent, DecodeEOF, DecodeFails, SendError, ReaderChecks, ReaderSends,
     ReaderGoto
<1>20. CASE DaemonEmits
  BY <1>20 DEF MonitorTypes, SharedTypes, Gens, Monitors, Events, EOFEvent,
     DaemonEmits
<1> QED
  BY <1>1, <1>2, <1>3, <1>4, <1>5, <1>6, <1>7, <1>8, <1>9, <1>10, <1>11, <1>12, <1>13, <1>14, <1>15, <1>16, <1>17, <1>18, <1>19, <1>20 DEF Next, CallerStep, MonitorStep, DialStep, ReaderStep

\* Every step keeps the types of the readers' variables.
LEMMA ReaderTypesStep ==
  ASSUME IInv, Next
  PROVE  ReaderTypes'
<1> USE Bounds DEF IInv, Types, state, captured, monitor, reader, bounds
<1>1. ASSUME NEW l \in Listeners,
            AddEventListener(l) \/ enableEventMonitoring(l) \/ addListener(l) \/
            RemoveEventListener(l) \/ removeListener(l) \/ listenersCount(l)
            \/ CallerDisables(l) \/ CallerBlocks(l)
     PROVE  ReaderTypes'
  BY <1>1 DEF ReaderTypes, BoundTypes, MonitorTypes, Gens, Readers, Events,
     EOFEvent, AddEventListener, enableEventMonitoring, addListener,
     RemoveEventListener, removeListener, listenersCount, CallerDisables,
     CallerBlocks, Lock, CloseListeners, StopMonitoring
<1>2. ASSUME NEW m \in Monitors, DialSucceeds(m)  PROVE ReaderTypes'
  <2>1. dials + 1 \in Readers
    BY <1>2 DEF DialSucceeds, BoundTypes, Readers
  <2>2. mgen[m] \in Gens /\ since[m] \in Nat /\ clock + 1 \in Nat
    BY DEF MonitorTypes, BoundTypes, Events
  <2>3. rgen' \in [Readers -> Gens]
    BY <1>2, <2>1, <2>2 DEF DialSucceeds, ReaderTypes
  <2>4. rnext' \in [Readers -> Nat]
    BY <1>2, <2>1, <2>2 DEF DialSucceeds, ReaderTypes
  <2>5. rpc' = [rpc EXCEPT ![dials + 1] = "decode"]
    BY <1>2 DEF DialSucceeds
  <2> QED
    BY <2>1, <2>3, <2>4, <2>5 DEF ReaderTypes
<1>3. ASSUME NEW m \in Monitors,
            MonitorStart(m) \/ MonitorDisables(m) \/ CaptureChannels(m) \/ LoadLastSeen(m)
            \/ DialFails(m) \/ MonitorLoop(m) \/ ReadC(m) \/ ReadErrC(m) \/
            ReceiveEvent(m) \/ ReceiveError(m) \/ SelectTimesOut(m) \/
            updateLastSeen(m) \/ SendBegins(m) \/ SendEnds(m) \/
            MonitorBlocks(m)
     PROVE  ReaderTypes'
  BY <1>3 DEF ReaderTypes, BoundTypes, MonitorTypes, Gens, Readers, Events,
     EOFEvent, MonitorStart, MonitorDisables, CaptureChannels, LoadLastSeen,
     DialFails, MonitorLoop, ReadC, ReadErrC, ReceiveEvent, ReceiveError,
     SelectTimesOut, updateLastSeen, SendBegins, SendEnds, MonitorBlocks,
     MonitorGoto, CloseListeners, StopMonitoring, Lock
<1>4. ASSUME NEW r \in Readers, DecodeEvent(r)  PROVE ReaderTypes'
  BY <1>4 DEF ReaderTypes, BoundTypes, MonitorTypes, Gens, Readers, Events,
     EOFEvent, DecodeEvent, ReaderGoto
<1>5. ASSUME NEW r \in Readers, DecodeEOF(r)  PROVE ReaderTypes'
  BY <1>5 DEF ReaderTypes, BoundTypes, MonitorTypes, Gens, Readers, Events,
     EOFEvent, DecodeEOF, ReaderGoto
<1>6. ASSUME NEW r \in Readers, DecodeFails(r)  PROVE ReaderTypes'
  BY <1>6 DEF ReaderTypes, BoundTypes, MonitorTypes, Gens, Readers, Events,
     EOFEvent, DecodeFails, ReaderGoto
<1>7. ASSUME NEW r \in Readers, SendError(r)  PROVE ReaderTypes'
  BY <1>7 DEF ReaderTypes, BoundTypes, MonitorTypes, Gens, Readers, Events,
     EOFEvent, SendError, ReaderGoto
<1>8. ASSUME NEW r \in Readers, ReaderChecks(r)  PROVE ReaderTypes'
  <2>1. \E label \in {"sending", "off", "decode"} : rpc' = [rpc EXCEPT ![r] = label]
    BY <1>8 DEF ReaderChecks, ReaderGoto
  <2>2. \E n \in Nat : rnext' = [rnext EXCEPT ![r] = n]
    BY <1>8 DEF ReaderChecks, ReaderTypes, EOFEvent
  <2> QED
    BY <1>8, <2>1, <2>2 DEF ReaderChecks, ReaderTypes
<1>9. ASSUME NEW r \in Readers, ReaderSends(r)  PROVE ReaderTypes'
  BY <1>9 DEF ReaderTypes, BoundTypes, MonitorTypes, Gens, Readers, Events,
     EOFEvent, ReaderSends, ReaderGoto
<1>10. CASE DaemonEmits
  BY <1>10 DEF ReaderTypes, BoundTypes, MonitorTypes, Gens, Readers, Events,
     EOFEvent, DaemonEmits
<1> QED
  BY <1>1, <1>2, <1>3, <1>4, <1>5, <1>6, <1>7, <1>8, <1>9, <1>10 DEF Next, CallerStep, MonitorStep, DialStep, ReaderStep

\* Every step keeps the counters within their bounds.
LEMMA BoundTypesStep ==
  ASSUME IInv, Next
  PROVE  BoundTypes'
<1> USE Bounds DEF IInv, Types, state, captured, monitor, reader, bounds
<1>1. ASSUME NEW l \in Listeners, AddEventListener(l)  PROVE BoundTypes'
  BY <1>1 DEF BoundTypes, Events, AddEventListener
<1>2. ASSUME NEW l \in Listeners,
            enableEventMonitoring(l) \/ addListener(l) \/ RemoveEventListener(l) \/
            removeListener(l) \/ listenersCount(l) \/ CallerDisables(l) \/
            CallerBlocks(l)
     PROVE  BoundTypes'
  BY <1>2 DEF BoundTypes, Events, enableEventMonitoring, addListener,
     RemoveEventListener, removeListener, listenersCount, CallerDisables,
     CallerBlocks, Lock, CloseListeners, StopMonitoring
<1>3. ASSUME NEW m \in Monitors, DialSucceeds(m)  PROVE BoundTypes'
  BY <1>3 DEF BoundTypes, Events, DialSucceeds, MonitorGoto
<1>4. ASSUME NEW m \in Monitors,
            MonitorStart(m) \/ MonitorDisables(m) \/ CaptureChannels(m) \/ LoadLastSeen(m)
            \/ DialFails(m) \/ MonitorLoop(m) \/ ReadC(m) \/ ReadErrC(m) \/
            ReceiveEvent(m) \/ ReceiveError(m) \/ SelectTimesOut(m) \/
            updateLastSeen(m) \/ SendBegins(m) \/ SendEnds(m) \/
            MonitorBlocks(m)
     PROVE  BoundTypes'
  BY <1>4 DEF BoundTypes, Events, MonitorStart, MonitorDisables, CaptureChannels,
     LoadLastSeen, DialFails, MonitorLoop, ReadC, ReadErrC, ReceiveEvent,
     ReceiveError, SelectTimesOut, updateLastSeen, SendBegins, SendEnds,
     MonitorBlocks, MonitorGoto, CloseListeners, StopMonitoring, Lock
<1>5. ASSUME NEW r \in Readers, DecodeFails(r)  PROVE BoundTypes'
  BY <1>5 DEF BoundTypes, Events, DecodeFails, ReaderGoto
<1>6. ASSUME NEW r \in Readers,
            DecodeEvent(r) \/ DecodeEOF(r) \/ SendError(r) \/ ReaderChecks(r) \/
            ReaderSends(r)
     PROVE  BoundTypes'
  BY <1>6 DEF BoundTypes, Events, DecodeEvent, DecodeEOF, SendError, ReaderChecks,
     ReaderSends, ReaderGoto
<1>7. CASE DaemonEmits
  BY <1>7 DEF BoundTypes, Events, DaemonEmits
<1> QED
  BY <1>1, <1>2, <1>3, <1>4, <1>5, <1>6, <1>7 DEF Next, CallerStep, MonitorStep, DialStep, ReaderStep

\* Every step keeps the types of eventMonitoringState, the channels and the lock's queue.
LEMMA SharedTypesStep ==
  ASSUME IInv, Next
  PROVE  SharedTypes'
<1> USE Bounds DEF IInv, Types, state, captured, monitor, reader, bounds
<1>1. ASSUME NEW l \in Listeners, AddEventListener(l)  PROVE SharedTypes'
  BY <1>1 DEF SharedTypes, BoundTypes, MonitorTypes, ReaderTypes, Gens, Monitors,
     Readers, Events, EOFEvent, AddEventListener
<1>2. ASSUME NEW l \in Listeners, enableEventMonitoring(l)  PROVE SharedTypes'
  <2>1. gen + 1 <= MaxAdds
    <3>1. Cardinality(Enabling) \in Nat /\ Cardinality(Enabling) # 0
      <4>1. IsFiniteSet(Enabling) /\ l \in Enabling
        BY <1>2, FS_Subset DEF Enabling, enableEventMonitoring
      <4> QED
        BY <4>1, FS_CardinalityType, FS_EmptySet
    <3> QED
      BY <3>1 DEF EnablesCounted, SharedTypes, BoundTypes, Gens
  <2>2. gen' \in Gens
    BY <1>2, <2>1 DEF enableEventMonitoring, SharedTypes, Gens
  <2>3. enabled' \in BOOLEAN /\ lastSeen' \in Events
    <3>1. 0 \in Events
      BY DEF Events
    <3>2. CASE enabled
      BY <1>2, <3>2 DEF enableEventMonitoring, SharedTypes
    <3>3. CASE ~enabled
      BY <1>2, <3>1, <3>3 DEF enableEventMonitoring, SharedTypes
    <3> QED
      BY <3>2, <3>3
  <2> QED
    BY <1>2, <2>2, <2>3 DEF enableEventMonitoring, Lock, SharedTypes
<1>3. ASSUME NEW l \in Listeners, addListener(l)  PROVE SharedTypes'
  BY <1>3 DEF SharedTypes, BoundTypes, MonitorTypes, ReaderTypes, Gens, Monitors,
     Readers, Events, EOFEvent, addListener, Lock
<1>4. ASSUME NEW l \in Listeners, removeListener(l)  PROVE SharedTypes'
  BY <1>4 DEF SharedTypes, BoundTypes, MonitorTypes, ReaderTypes, Gens, Monitors,
     Readers, Events, EOFEvent, removeListener, Lock
<1>5. ASSUME NEW l \in Listeners, CallerDisables(l)  PROVE SharedTypes'
  <2>1. CASE CloseListeners(l)
    BY <1>5, <2>1 DEF CloseListeners, Lock, SharedTypes
  <2>2. CASE StopMonitoring
    <3>1. chClosed' \subseteq Gens /\ enabled' \in BOOLEAN
      BY <2>2 DEF StopMonitoring, SharedTypes
    <3>2. panic' \in {"none", "errC", "C", "listener"}
      BY <2>2 DEF StopMonitoring, SharedTypes
    <3> QED
      BY <2>2, <3>1, <3>2 DEF StopMonitoring, SharedTypes
  <2> QED
    BY <1>5, <2>1, <2>2 DEF CallerDisables
<1>6. ASSUME NEW l \in Listeners, CallerBlocks(l)  PROVE SharedTypes'
  BY <1>6 DEF SharedTypes, BoundTypes, MonitorTypes, ReaderTypes, Gens, Monitors,
     Readers, Events, EOFEvent, CallerBlocks
<1>7. ASSUME NEW l \in Listeners,
            RemoveEventListener(l) \/ listenersCount(l)
     PROVE  SharedTypes'
  BY <1>7 DEF SharedTypes, BoundTypes, MonitorTypes, ReaderTypes, Gens, Monitors,
     Readers, Events, EOFEvent, RemoveEventListener, listenersCount
<1>8. ASSUME NEW m \in Monitors, MonitorDisables(m)  PROVE SharedTypes'
  <2>1. CASE CloseListeners(m)
    BY <1>8, <2>1 DEF CloseListeners, Lock, SharedTypes
  <2>2. CASE StopMonitoring
    <3>1. chClosed' \subseteq Gens /\ enabled' \in BOOLEAN
      BY <2>2 DEF StopMonitoring, SharedTypes
    <3>2. panic' \in {"none", "errC", "C", "listener"}
      BY <2>2 DEF StopMonitoring, SharedTypes
    <3> QED
      BY <2>2, <3>1, <3>2 DEF StopMonitoring, SharedTypes
  <2> QED
    BY <1>8, <2>1, <2>2 DEF MonitorDisables
<1>9. ASSUME NEW m \in Monitors, ReceiveEvent(m)  PROVE SharedTypes'
  <2>1. C' \in [Gens -> Seq(Events)]
    <3>1. CASE C[mgen[m]] # <<>>
      <4>1. Tail(C[mgen[m]]) \in Seq(Events)
        BY <3>1, HeadTailProperties DEF SharedTypes, MonitorTypes
      <4> QED
        BY <1>9, <3>1, <4>1 DEF ReceiveEvent, SharedTypes
    <3>2. CASE C[mgen[m]] = <<>>
      BY <1>9, <3>2 DEF ReceiveEvent, SharedTypes
    <3> QED
      BY <3>1, <3>2
  <2> QED
    BY <1>9, <2>1 DEF ReceiveEvent, SharedTypes
<1>10. ASSUME NEW m \in Monitors, ReceiveError(m)  PROVE SharedTypes'
  <2>1. errC' \in [Gens -> Seq({"decode", "ErrNoListeners"})]
    <3>1. CASE errC[merr[m]] # <<>>
      <4>1. Tail(errC[merr[m]]) \in Seq({"decode", "ErrNoListeners"})
        BY <3>1, HeadTailProperties DEF SharedTypes, MonitorTypes
      <4> QED
        BY <1>10, <3>1, <4>1 DEF ReceiveError, SharedTypes
    <3>2. CASE errC[merr[m]] = <<>>
      BY <1>10, <3>2 DEF ReceiveError, SharedTypes
    <3> QED
      BY <3>1, <3>2
  <2> QED
    BY <1>10, <2>1 DEF ReceiveError, SharedTypes
<1>11. ASSUME NEW m \in Monitors, updateLastSeen(m)  PROVE SharedTypes'
  BY <1>11 DEF SharedTypes, BoundTypes, MonitorTypes, ReaderTypes, Gens, Monitors,
     Readers, Events, EOFEvent, updateLastSeen, Lock, MonitorGoto
<1>12. ASSUME NEW m \in Monitors, SendEnds(m)  PROVE SharedTypes'
  <2>1. errC' \in [Gens -> Seq({"decode", "ErrNoListeners"})]
    <3>1. gen \in Gens /\ Append(errC[gen], "ErrNoListeners") \in Seq({"decode", "ErrNoListeners"})
      BY <1>12, AppendProperties DEF SharedTypes, ReaderTypes
    <3> QED
      BY <1>12, <3>1 DEF SendEnds, SharedTypes
  <2>2. panic' \in {"none", "errC", "C", "listener"}
    BY <1>12 DEF SendEnds, SharedTypes
  <2> QED
    BY <1>12, <2>1, <2>2 DEF SendEnds, SharedTypes
<1>13. ASSUME NEW m \in Monitors, MonitorBlocks(m)  PROVE SharedTypes'
  BY <1>13 DEF SharedTypes, BoundTypes, MonitorTypes, ReaderTypes, Gens, Monitors,
     Readers, Events, EOFEvent, MonitorBlocks
<1>14. ASSUME NEW m \in Monitors,
            MonitorStart(m) \/ CaptureChannels(m) \/ LoadLastSeen(m) \/ DialFails(m) \/
            DialSucceeds(m) \/ MonitorLoop(m) \/ ReadC(m) \/ ReadErrC(m) \/
            SelectTimesOut(m) \/ SendBegins(m)
     PROVE  SharedTypes'
  BY <1>14 DEF SharedTypes, BoundTypes, MonitorTypes, ReaderTypes, Gens, Monitors,
     Readers, Events, EOFEvent, MonitorStart, CaptureChannels, LoadLastSeen,
     DialFails, DialSucceeds, MonitorLoop, ReadC, ReadErrC, SelectTimesOut,
     SendBegins, MonitorGoto
<1>15. ASSUME NEW r \in Readers, SendError(r)  PROVE SharedTypes'
  <2>1. errC' \in [Gens -> Seq({"decode", "ErrNoListeners"})]
    <3>1. rgen[r] \in Gens /\ Append(errC[rgen[r]], "decode") \in Seq({"decode", "ErrNoListeners"})
      BY <1>15, AppendProperties DEF SharedTypes, ReaderTypes
    <3> QED
      BY <1>15, <3>1 DEF SendError, SharedTypes
  <2>2. panic' \in {"none", "errC", "C", "listener"}
    BY <1>15 DEF SendError, SharedTypes
  <2> QED
    BY <1>15, <2>1, <2>2 DEF SendError, SharedTypes
<1>16. ASSUME NEW r \in Readers, ReaderSends(r)  PROVE SharedTypes'
  <2>1. C' \in [Gens -> Seq(Events)]
    <3>1. rgen[r] \in Gens /\ Append(C[rgen[r]], rnext[r]) \in Seq(Events)
      BY <1>16, AppendProperties DEF SharedTypes, ReaderTypes, EventsEmitted, ReaderSends
    <3> QED
      BY <1>16, <3>1 DEF ReaderSends, SharedTypes
  <2>2. panic' \in {"none", "errC", "C", "listener"}
    BY <1>16 DEF ReaderSends, SharedTypes
  <2> QED
    BY <1>16, <2>1, <2>2 DEF ReaderSends, SharedTypes
<1>17. ASSUME NEW r \in Readers,
            DecodeEvent(r) \/ DecodeEOF(r) \/ DecodeFails(r) \/ ReaderChecks(r)
     PROVE  SharedTypes'
  BY <1>17 DEF SharedTypes, BoundTypes, MonitorTypes, ReaderTypes, Gens, Monitors,
     Readers, Events, EOFEvent, DecodeEvent, DecodeEOF, DecodeFails, ReaderChecks,
     ReaderGoto
<1>18. CASE DaemonEmits
  BY <1>18 DEF SharedTypes, BoundTypes, MonitorTypes, ReaderTypes, Gens, Monitors,
     Readers, Events, EOFEvent, DaemonEmits
<1> QED
  BY <1>1, <1>2, <1>3, <1>4, <1>5, <1>6, <1>7, <1>8, <1>9, <1>10, <1>11, <1>12, <1>13, <1>14, <1>15, <1>16, <1>17, <1>18 DEF Next, CallerStep, MonitorStep, DialStep, ReaderStep

\* Every step preserves EventsEmitted: the decoder yields emitted events only.
LEMMA EventsEmittedStep ==
  ASSUME IInv, Next
  PROVE  EventsEmitted'
<1> USE Bounds DEF IInv, Types, state, captured, monitor, reader, bounds
<1>1. ASSUME NEW l \in Listeners,
            AddEventListener(l) \/ enableEventMonitoring(l) \/ addListener(l) \/
            RemoveEventListener(l) \/ removeListener(l) \/ listenersCount(l)
            \/ CallerDisables(l) \/ CallerBlocks(l)
     PROVE  EventsEmitted'
  BY <1>1 DEF EventsEmitted, ReaderTypes, BoundTypes, Events, EOFEvent,
     AddEventListener, enableEventMonitoring, addListener, RemoveEventListener,
     removeListener, listenersCount, CallerDisables, CallerBlocks, Lock,
     CloseListeners, StopMonitoring
<1>2. ASSUME NEW m \in Monitors, DialSucceeds(m)  PROVE EventsEmitted'
  BY <1>2 DEF EventsEmitted, ReaderTypes, BoundTypes, Events, EOFEvent,
     DialSucceeds, MonitorGoto
<1>3. ASSUME NEW m \in Monitors,
            MonitorStart(m) \/ MonitorDisables(m) \/ CaptureChannels(m) \/ LoadLastSeen(m)
            \/ DialFails(m) \/ MonitorLoop(m) \/ ReadC(m) \/ ReadErrC(m) \/
            ReceiveEvent(m) \/ ReceiveError(m) \/ SelectTimesOut(m) \/
            updateLastSeen(m) \/ SendBegins(m) \/ SendEnds(m) \/
            MonitorBlocks(m)
     PROVE  EventsEmitted'
  BY <1>3 DEF EventsEmitted, ReaderTypes, BoundTypes, Events, EOFEvent,
     MonitorStart, MonitorDisables, CaptureChannels, LoadLastSeen, DialFails,
     MonitorLoop, ReadC, ReadErrC, ReceiveEvent, ReceiveError, SelectTimesOut,
     updateLastSeen, SendBegins, SendEnds, MonitorBlocks, MonitorGoto,
     CloseListeners, StopMonitoring, Lock
<1>4. ASSUME NEW r \in Readers, DecodeEvent(r)  PROVE EventsEmitted'
  BY <1>4 DEF EventsEmitted, ReaderTypes, BoundTypes, Events, EOFEvent, DecodeEvent,
     ReaderGoto
<1>5. ASSUME NEW r \in Readers, DecodeEOF(r)  PROVE EventsEmitted'
  BY <1>5 DEF EventsEmitted, ReaderTypes, BoundTypes, Events, EOFEvent, DecodeEOF,
     ReaderGoto
<1>6. ASSUME NEW r \in Readers, DecodeFails(r)  PROVE EventsEmitted'
  BY <1>6 DEF EventsEmitted, ReaderTypes, BoundTypes, Events, EOFEvent, DecodeFails,
     ReaderGoto
<1>7. ASSUME NEW r \in Readers, SendError(r)  PROVE EventsEmitted'
  BY <1>7 DEF EventsEmitted, ReaderTypes, BoundTypes, Events, EOFEvent, SendError,
     ReaderGoto
<1>8. ASSUME NEW r \in Readers, ReaderChecks(r)  PROVE EventsEmitted'
  BY <1>8 DEF EventsEmitted, ReaderTypes, BoundTypes, Events, EOFEvent,
     ReaderChecks, ReaderGoto
<1>9. ASSUME NEW r \in Readers, ReaderSends(r)  PROVE EventsEmitted'
  BY <1>9 DEF EventsEmitted, ReaderTypes, BoundTypes, Events, EOFEvent, ReaderSends,
     ReaderGoto
<1>10. CASE DaemonEmits
  BY <1>10 DEF EventsEmitted, ReaderTypes, BoundTypes, Events, EOFEvent, DaemonEmits
<1> QED
  BY <1>1, <1>2, <1>3, <1>4, <1>5, <1>6, <1>7, <1>8, <1>9, <1>10 DEF Next, CallerStep, MonitorStep, DialStep, ReaderStep

\* Every step preserves Generations: only disableEventMonitoring closes C and errC.
LEMMA GenerationsStep ==
  ASSUME IInv, Next
  PROVE  Generations'
<1> USE Bounds DEF IInv, Types, state, captured, monitor, reader, bounds
<1>1. ASSUME NEW l \in Listeners, enableEventMonitoring(l)  PROVE Generations'
  BY <1>1 DEF Generations, SharedTypes, Gens, enableEventMonitoring, Lock
<1>2. ASSUME NEW l \in Listeners, CallerDisables(l)  PROVE Generations'
  <2>1. CASE CloseListeners(l)
    BY <2>1 DEF CloseListeners, Generations
  <2>2. CASE StopMonitoring
    <3>1. gen <= gen
      BY DEF SharedTypes, Gens
    <3>2. CASE enabled
      BY <2>2, <3>1, <3>2 DEF StopMonitoring, Generations
    <3>3. CASE ~enabled
      BY <2>2, <3>3 DEF StopMonitoring, Generations
    <3> QED
      BY <3>2, <3>3
  <2> QED
    BY <1>2, <2>1, <2>2 DEF CallerDisables
<1>3. ASSUME NEW l \in Listeners,
            AddEventListener(l) \/ addListener(l) \/ RemoveEventListener(l) \/
            removeListener(l) \/ listenersCount(l) \/ CallerBlocks(l)
     PROVE  Generations'
  BY <1>3 DEF Generations, AddEventListener, addListener, RemoveEventListener,
     removeListener, listenersCount, CallerBlocks, Lock
<1>4. ASSUME NEW m \in Monitors, MonitorDisables(m)  PROVE Generations'
  <2>1. CASE CloseListeners(m)
    BY <2>1 DEF CloseListeners, Generations
  <2>2. CASE StopMonitoring
    <3>1. gen <= gen
      BY DEF SharedTypes, Gens
    <3>2. CASE enabled
      BY <2>2, <3>1, <3>2 DEF StopMonitoring, Generations
    <3>3. CASE ~enabled
      BY <2>2, <3>3 DEF StopMonitoring, Generations
    <3> QED
      BY <3>2, <3>3
  <2> QED
    BY <1>4, <2>1, <2>2 DEF MonitorDisables
<1>5. ASSUME NEW m \in Monitors,
            MonitorStart(m) \/ CaptureChannels(m) \/ LoadLastSeen(m) \/ DialFails(m) \/
            DialSucceeds(m) \/ MonitorLoop(m) \/ ReadC(m) \/ ReadErrC(m) \/
            ReceiveEvent(m) \/ ReceiveError(m) \/ SelectTimesOut(m) \/
            updateLastSeen(m) \/ SendBegins(m) \/ SendEnds(m) \/
            MonitorBlocks(m)
     PROVE  Generations'
  BY <1>5 DEF Generations, MonitorStart, CaptureChannels, LoadLastSeen, DialFails,
     DialSucceeds, MonitorLoop, ReadC, ReadErrC, ReceiveEvent, ReceiveError,
     SelectTimesOut, updateLastSeen, SendBegins, SendEnds, MonitorBlocks,
     MonitorGoto, Lock
<1>6. ASSUME NEW r \in Readers,
            DecodeEvent(r) \/ DecodeEOF(r) \/ DecodeFails(r) \/ SendError(r) \/
            ReaderChecks(r) \/ ReaderSends(r)
     PROVE  Generations'
  BY <1>6 DEF Generations, DecodeEvent, DecodeEOF, DecodeFails, SendError,
     ReaderChecks, ReaderSends, ReaderGoto
<1>7. CASE DaemonEmits
  BY <1>7 DEF Generations, SharedTypes, Gens, DaemonEmits
<1> QED
  BY <1>1, <1>2, <1>3, <1>4, <1>5, <1>6, <1>7 DEF Next, CallerStep, MonitorStep, DialStep, ReaderStep

\* Every step preserves LockExclusion: sections begin under Lock() or RLock().
LEMMA LockExclusionStep ==
  ASSUME IInv, Next
  PROVE  LockExclusion'
<1> USE Bounds DEF IInv, Types, state, captured, monitor, reader, bounds
<1>1. ASSUME NEW l \in Listeners, AddEventListener(l)  PROVE LockExclusion'
  BY <1>1 DEF LockExclusion, Writers, CanRLock, WriteLocked, ReadLocked,
     CallerTypes, MonitorTypes, ReaderTypes, AddEventListener
<1>2. ASSUME NEW l \in Listeners, enableEventMonitoring(l)  PROVE LockExclusion'
  BY <1>2 DEF LockExclusion, Writers, CanRLock, WriteLocked, ReadLocked,
     CallerTypes, MonitorTypes, ReaderTypes, enableEventMonitoring, Lock
<1>3. ASSUME NEW l \in Listeners, addListener(l)  PROVE LockExclusion'
  BY <1>3 DEF LockExclusion, Writers, CanRLock, WriteLocked, ReadLocked,
     CallerTypes, MonitorTypes, ReaderTypes, addListener, Lock
<1>4. ASSUME NEW l \in Listeners, RemoveEventListener(l)  PROVE LockExclusion'
  BY <1>4 DEF LockExclusion, Writers, CanRLock, WriteLocked, ReadLocked,
     CallerTypes, MonitorTypes, ReaderTypes, RemoveEventListener
<1>5. ASSUME NEW l \in Listeners, removeListener(l)  PROVE LockExclusion'
  BY <1>5 DEF LockExclusion, Writers, CanRLock, WriteLocked, ReadLocked,
     CallerTypes, MonitorTypes, ReaderTypes, removeListener, Lock
<1>6. ASSUME NEW l \in Listeners, listenersCount(l)  PROVE LockExclusion'
  BY <1>6 DEF LockExclusion, Writers, CanRLock, WriteLocked, ReadLocked,
     CallerTypes, MonitorTypes, ReaderTypes, listenersCount
<1>7. ASSUME NEW l \in Listeners, CallerDisables(l)  PROVE LockExclusion'
  BY <1>7 DEF LockExclusion, Writers, CanRLock, WriteLocked, ReadLocked,
     CallerTypes, MonitorTypes, ReaderTypes, CallerDisables, CloseListeners,
     StopMonitoring, Lock
<1>8. ASSUME NEW l \in Listeners, CallerBlocks(l)  PROVE LockExclusion'
  BY <1>8 DEF LockExclusion, Writers, CanRLock, WriteLocked, ReadLocked,
     CallerTypes, MonitorTypes, ReaderTypes, CallerBlocks
<1>9. ASSUME NEW m \in Monitors, MonitorStart(m)  PROVE LockExclusion'
  BY <1>9 DEF LockExclusion, Writers, CanRLock, WriteLocked, ReadLocked,
     CallerTypes, MonitorTypes, ReaderTypes, MonitorStart, MonitorGoto
<1>10. ASSUME NEW m \in Monitors, MonitorDisables(m)  PROVE LockExclusion'
  BY <1>10 DEF LockExclusion, Writers, CanRLock, WriteLocked, ReadLocked,
     CallerTypes, MonitorTypes, ReaderTypes, MonitorDisables, CloseListeners,
     StopMonitoring, Lock, MonitorGoto
<1>11. ASSUME NEW m \in Monitors, CaptureChannels(m)  PROVE LockExclusion'
  BY <1>11 DEF LockExclusion, Writers, CanRLock, WriteLocked, ReadLocked,
     CallerTypes, MonitorTypes, ReaderTypes, CaptureChannels, MonitorGoto
<1>12. ASSUME NEW m \in Monitors, LoadLastSeen(m)  PROVE LockExclusion'
  BY <1>12 DEF LockExclusion, Writers, CanRLock, WriteLocked, ReadLocked,
     CallerTypes, MonitorTypes, ReaderTypes, LoadLastSeen, MonitorGoto
<1>13. ASSUME NEW m \in Monitors, DialFails(m)  PROVE LockExclusion'
  BY <1>13 DEF LockExclusion, Writers, CanRLock, WriteLocked, ReadLocked,
     CallerTypes, MonitorTypes, ReaderTypes, DialFails, MonitorGoto
<1>14. ASSUME NEW m \in Monitors, DialSucceeds(m)  PROVE LockExclusion'
  BY <1>14 DEF LockExclusion, Writers, CanRLock, WriteLocked, ReadLocked,
     CallerTypes, MonitorTypes, ReaderTypes, DialSucceeds, MonitorGoto
<1>15. ASSUME NEW m \in Monitors, MonitorLoop(m)  PROVE LockExclusion'
  BY <1>15 DEF LockExclusion, Writers, CanRLock, WriteLocked, ReadLocked,
     CallerTypes, MonitorTypes, ReaderTypes, MonitorLoop, MonitorGoto
<1>16. ASSUME NEW m \in Monitors, ReadC(m)  PROVE LockExclusion'
  BY <1>16 DEF LockExclusion, Writers, CanRLock, WriteLocked, ReadLocked,
     CallerTypes, MonitorTypes, ReaderTypes, ReadC, MonitorGoto
<1>17. ASSUME NEW m \in Monitors, ReadErrC(m)  PROVE LockExclusion'
  BY <1>17 DEF LockExclusion, Writers, CanRLock, WriteLocked, ReadLocked,
     CallerTypes, MonitorTypes, ReaderTypes, ReadErrC, MonitorGoto
<1>18. ASSUME NEW m \in Monitors, ReceiveEvent(m)  PROVE LockExclusion'
  BY <1>18 DEF LockExclusion, Writers, CanRLock, WriteLocked, ReadLocked,
     CallerTypes, MonitorTypes, ReaderTypes, ReceiveEvent, MonitorGoto
<1>19. ASSUME NEW m \in Monitors, ReceiveError(m)  PROVE LockExclusion'
  BY <1>19 DEF LockExclusion, Writers, CanRLock, WriteLocked, ReadLocked,
     CallerTypes, MonitorTypes, ReaderTypes, ReceiveError, MonitorGoto
<1>20. ASSUME NEW m \in Monitors, SelectTimesOut(m)  PROVE LockExclusion'
  BY <1>20 DEF LockExclusion, Writers, CanRLock, WriteLocked, ReadLocked,
     CallerTypes, MonitorTypes, ReaderTypes, SelectTimesOut, MonitorGoto
<1>21. ASSUME NEW m \in Monitors, updateLastSeen(m)  PROVE LockExclusion'
  BY <1>21 DEF LockExclusion, Writers, CanRLock, WriteLocked, ReadLocked,
     CallerTypes, MonitorTypes, ReaderTypes, updateLastSeen, Lock, MonitorGoto
<1>22. ASSUME NEW m \in Monitors, SendBegins(m)  PROVE LockExclusion'
  BY <1>22 DEF LockExclusion, Writers, CanRLock, WriteLocked, ReadLocked,
     CallerTypes, MonitorTypes, ReaderTypes, SendBegins, MonitorGoto
<1>23. ASSUME NEW m \in Monitors, SendEnds(m)  PROVE LockExclusion'
  BY <1>23 DEF LockExclusion, Writers, CanRLock, WriteLocked, ReadLocked,
     CallerTypes, MonitorTypes, ReaderTypes, SendEnds, MonitorGoto
<1>24. ASSUME NEW m \in Monitors, MonitorBlocks(m)  PROVE LockExclusion'
  BY <1>24 DEF LockExclusion, Writers, CanRLock, WriteLocked, ReadLocked,
     CallerTypes, MonitorTypes, ReaderTypes, MonitorBlocks
<1>25. ASSUME NEW r \in Readers, DecodeEvent(r)  PROVE LockExclusion'
  BY <1>25 DEF LockExclusion, Writers, CanRLock, WriteLocked, ReadLocked,
     CallerTypes, MonitorTypes, ReaderTypes, DecodeEvent, ReaderGoto
<1>26. ASSUME NEW r \in Readers, DecodeEOF(r)  PROVE LockExclusion'
  BY <1>26 DEF LockExclusion, Writers, CanRLock, WriteLocked, ReadLocked,
     CallerTypes, MonitorTypes, ReaderTypes, DecodeEOF, ReaderGoto
<1>27. ASSUME NEW r \in Readers, DecodeFails(r)  PROVE LockExclusion'
  BY <1>27 DEF LockExclusion, Writers, CanRLock, WriteLocked, ReadLocked,
     CallerTypes, MonitorTypes, ReaderTypes, DecodeFails, ReaderGoto
<1>28. ASSUME NEW r \in Readers, SendError(r)  PROVE LockExclusion'
  BY <1>28 DEF LockExclusion, Writers, CanRLock, WriteLocked, ReadLocked,
     CallerTypes, MonitorTypes, ReaderTypes, SendError, ReaderGoto
<1>29. ASSUME NEW r \in Readers, ReaderChecks(r)  PROVE LockExclusion'
  BY <1>29 DEF LockExclusion, Writers, CanRLock, WriteLocked, ReadLocked,
     CallerTypes, MonitorTypes, ReaderTypes, ReaderChecks, ReaderGoto
<1>30. ASSUME NEW r \in Readers, ReaderSends(r)  PROVE LockExclusion'
  BY <1>30 DEF LockExclusion, Writers, CanRLock, WriteLocked, ReadLocked,
     CallerTypes, MonitorTypes, ReaderTypes, ReaderSends, ReaderGoto
<1>31. CASE DaemonEmits
  BY <1>31 DEF LockExclusion, Writers, CanRLock, WriteLocked, ReadLocked,
     CallerTypes, MonitorTypes, ReaderTypes, DaemonEmits
<1> QED
  BY <1>1, <1>2, <1>3, <1>4, <1>5, <1>6, <1>7, <1>8, <1>9, <1>10, <1>11, <1>12, <1>13, <1>14, <1>15, <1>16, <1>17, <1>18, <1>19, <1>20, <1>21, <1>22, <1>23, <1>24, <1>25, <1>26, <1>27, <1>28, <1>29, <1>30, <1>31 DEF Next, CallerStep, MonitorStep, DialStep, ReaderStep

\* Every step preserves WritersFoundNone: no listener is added under another's lock.
LEMMA WritersFoundNoneStep ==
  ASSUME IInv, Next
  PROVE  WritersFoundNone'
<1> USE Bounds DEF IInv, Types, state, captured, monitor, reader, bounds
<1>1. ASSUME NEW l \in Listeners, AddEventListener(l)  PROVE WritersFoundNone'
  BY <1>1 DEF WritersFoundNone, CanRLock, WriteLocked, ReadLocked, CallerTypes,
     MonitorTypes, ReaderTypes, AddEventListener
<1>2. ASSUME NEW l \in Listeners, enableEventMonitoring(l)  PROVE WritersFoundNone'
  BY <1>2 DEF WritersFoundNone, CanRLock, WriteLocked, ReadLocked, CallerTypes,
     MonitorTypes, ReaderTypes, enableEventMonitoring, Lock
<1>3. ASSUME NEW l \in Listeners, addListener(l)  PROVE WritersFoundNone'
  BY <1>3 DEF WritersFoundNone, CanRLock, WriteLocked, ReadLocked, CallerTypes,
     MonitorTypes, ReaderTypes, addListener, Lock
<1>4. ASSUME NEW l \in Listeners, RemoveEventListener(l)  PROVE WritersFoundNone'
  BY <1>4 DEF WritersFoundNone, CanRLock, WriteLocked, ReadLocked, CallerTypes,
     MonitorTypes, ReaderTypes, RemoveEventListener
<1>5. ASSUME NEW l \in Listeners, removeListener(l)  PROVE WritersFoundNone'
  BY <1>5 DEF WritersFoundNone, CanRLock, WriteLocked, ReadLocked, CallerTypes,
     MonitorTypes, ReaderTypes, removeListener, Lock
<1>6. ASSUME NEW l \in Listeners, listenersCount(l)  PROVE WritersFoundNone'
  BY <1>6 DEF WritersFoundNone, CanRLock, WriteLocked, ReadLocked, CallerTypes,
     MonitorTypes, ReaderTypes, listenersCount
<1>7. ASSUME NEW l \in Listeners, CallerDisables(l)  PROVE WritersFoundNone'
  BY <1>7 DEF WritersFoundNone, CanRLock, WriteLocked, ReadLocked, CallerTypes,
     MonitorTypes, ReaderTypes, CallerDisables, CloseListeners, StopMonitoring, Lock
<1>8. ASSUME NEW l \in Listeners, CallerBlocks(l)  PROVE WritersFoundNone'
  BY <1>8 DEF WritersFoundNone, CanRLock, WriteLocked, ReadLocked, CallerTypes,
     MonitorTypes, ReaderTypes, CallerBlocks
<1>9. ASSUME NEW m \in Monitors, MonitorStart(m)  PROVE WritersFoundNone'
  BY <1>9 DEF WritersFoundNone, CanRLock, WriteLocked, ReadLocked, CallerTypes,
     MonitorTypes, ReaderTypes, MonitorStart, MonitorGoto
<1>10. ASSUME NEW m \in Monitors, MonitorDisables(m)  PROVE WritersFoundNone'
  BY <1>10 DEF WritersFoundNone, CanRLock, WriteLocked, ReadLocked, CallerTypes,
     MonitorTypes, ReaderTypes, MonitorDisables, CloseListeners, StopMonitoring,
     Lock, MonitorGoto
<1>11. ASSUME NEW m \in Monitors, CaptureChannels(m)  PROVE WritersFoundNone'
  BY <1>11 DEF WritersFoundNone, CanRLock, WriteLocked, ReadLocked, CallerTypes,
     MonitorTypes, ReaderTypes, CaptureChannels, MonitorGoto
<1>12. ASSUME NEW m \in Monitors, LoadLastSeen(m)  PROVE WritersFoundNone'
  BY <1>12 DEF WritersFoundNone, CanRLock, WriteLocked, ReadLocked, CallerTypes,
     MonitorTypes, ReaderTypes, LoadLastSeen, MonitorGoto
<1>13. ASSUME NEW m \in Monitors, DialFails(m)  PROVE WritersFoundNone'
  BY <1>13 DEF WritersFoundNone, CanRLock, WriteLocked, ReadLocked, CallerTypes,
     MonitorTypes, ReaderTypes, DialFails, MonitorGoto
<1>14. ASSUME NEW m \in Monitors, DialSucceeds(m)  PROVE WritersFoundNone'
  BY <1>14 DEF WritersFoundNone, CanRLock, WriteLocked, ReadLocked, CallerTypes,
     MonitorTypes, ReaderTypes, DialSucceeds, MonitorGoto
<1>15. ASSUME NEW m \in Monitors, MonitorLoop(m)  PROVE WritersFoundNone'
  BY <1>15 DEF WritersFoundNone, CanRLock, WriteLocked, ReadLocked, CallerTypes,
     MonitorTypes, ReaderTypes, MonitorLoop, MonitorGoto
<1>16. ASSUME NEW m \in Monitors, ReadC(m)  PROVE WritersFoundNone'
  BY <1>16 DEF WritersFoundNone, CanRLock, WriteLocked, ReadLocked, CallerTypes,
     MonitorTypes, ReaderTypes, ReadC, MonitorGoto
<1>17. ASSUME NEW m \in Monitors, ReadErrC(m)  PROVE WritersFoundNone'
  BY <1>17 DEF WritersFoundNone, CanRLock, WriteLocked, ReadLocked, CallerTypes,
     MonitorTypes, ReaderTypes, ReadErrC, MonitorGoto
<1>18. ASSUME NEW m \in Monitors, ReceiveEvent(m)  PROVE WritersFoundNone'
  BY <1>18 DEF WritersFoundNone, CanRLock, WriteLocked, ReadLocked, CallerTypes,
     MonitorTypes, ReaderTypes, ReceiveEvent, MonitorGoto
<1>19. ASSUME NEW m \in Monitors, ReceiveError(m)  PROVE WritersFoundNone'
  BY <1>19 DEF WritersFoundNone, CanRLock, WriteLocked, ReadLocked, CallerTypes,
     MonitorTypes, ReaderTypes, ReceiveError, MonitorGoto
<1>20. ASSUME NEW m \in Monitors, SelectTimesOut(m)  PROVE WritersFoundNone'
  BY <1>20 DEF WritersFoundNone, CanRLock, WriteLocked, ReadLocked, CallerTypes,
     MonitorTypes, ReaderTypes, SelectTimesOut, MonitorGoto
<1>21. ASSUME NEW m \in Monitors, updateLastSeen(m)  PROVE WritersFoundNone'
  BY <1>21 DEF WritersFoundNone, CanRLock, WriteLocked, ReadLocked, CallerTypes,
     MonitorTypes, ReaderTypes, updateLastSeen, Lock, MonitorGoto
<1>22. ASSUME NEW m \in Monitors, SendBegins(m)  PROVE WritersFoundNone'
  BY <1>22 DEF WritersFoundNone, CanRLock, WriteLocked, ReadLocked, CallerTypes,
     MonitorTypes, ReaderTypes, SendBegins, MonitorGoto
<1>23. ASSUME NEW m \in Monitors, SendEnds(m)  PROVE WritersFoundNone'
  BY <1>23 DEF WritersFoundNone, CanRLock, WriteLocked, ReadLocked, CallerTypes,
     MonitorTypes, ReaderTypes, SendEnds, MonitorGoto
<1>24. ASSUME NEW m \in Monitors, MonitorBlocks(m)  PROVE WritersFoundNone'
  BY <1>24 DEF WritersFoundNone, CanRLock, WriteLocked, ReadLocked, CallerTypes,
     MonitorTypes, ReaderTypes, MonitorBlocks
<1>25. ASSUME NEW r \in Readers,
            DecodeEvent(r) \/ DecodeEOF(r) \/ DecodeFails(r) \/ SendError(r) \/
            ReaderChecks(r) \/ ReaderSends(r)
     PROVE  WritersFoundNone'
  BY <1>25 DEF WritersFoundNone, CanRLock, WriteLocked, ReadLocked, CallerTypes,
     MonitorTypes, ReaderTypes, DecodeEvent, DecodeEOF, DecodeFails, SendError,
     ReaderChecks, ReaderSends, ReaderGoto
<1>26. CASE DaemonEmits
  BY <1>26 DEF WritersFoundNone, CanRLock, WriteLocked, ReadLocked, CallerTypes,
     MonitorTypes, ReaderTypes, DaemonEmits
<1> QED
  BY <1>1, <1>2, <1>3, <1>4, <1>5, <1>6, <1>7, <1>8, <1>9, <1>10, <1>11, <1>12, <1>13, <1>14, <1>15, <1>16, <1>17, <1>18, <1>19, <1>20, <1>21, <1>22, <1>23, <1>24, <1>25, <1>26 DEF Next, CallerStep, MonitorStep, DialStep, ReaderStep

\* Every step preserves SendsToOpenC: C is neither closed nor replaced under RLock().
LEMMA SendsToOpenCStep ==
  ASSUME IInv, Next
  PROVE  SendsToOpenC'
<1> USE Bounds DEF IInv, Types, state, captured, monitor, reader, bounds
<1>1. ASSUME NEW l \in Listeners, enableEventMonitoring(l)  PROVE SendsToOpenC'
  BY <1>1 DEF SendsToOpenC, Generations, LockExclusion, CanRLock, SharedTypes, Gens,
     WriteLocked, ReadLocked, CallerTypes, MonitorTypes, ReaderTypes,
     enableEventMonitoring, Lock
<1>2. ASSUME NEW l \in Listeners, CallerDisables(l)  PROVE SendsToOpenC'
  BY <1>2 DEF SendsToOpenC, Generations, LockExclusion, CanRLock, SharedTypes, Gens,
     WriteLocked, ReadLocked, CallerTypes, MonitorTypes, ReaderTypes,
     CallerDisables, CloseListeners, StopMonitoring, Lock
<1>3. ASSUME NEW l \in Listeners,
            AddEventListener(l) \/ addListener(l) \/ RemoveEventListener(l) \/
            removeListener(l) \/ listenersCount(l) \/ CallerBlocks(l)
     PROVE  SendsToOpenC'
  BY <1>3 DEF SendsToOpenC, AddEventListener, addListener, RemoveEventListener,
     removeListener, listenersCount, CallerBlocks, Lock
<1>4. ASSUME NEW m \in Monitors, MonitorDisables(m)  PROVE SendsToOpenC'
  BY <1>4 DEF SendsToOpenC, Generations, LockExclusion, CanRLock, SharedTypes, Gens,
     WriteLocked, ReadLocked, CallerTypes, MonitorTypes, ReaderTypes,
     MonitorDisables, CloseListeners, StopMonitoring, Lock, MonitorGoto
<1>5. ASSUME NEW m \in Monitors, DialSucceeds(m)  PROVE SendsToOpenC'
  BY <1>5 DEF SendsToOpenC, Generations, LockExclusion, CanRLock, SharedTypes, Gens,
     WriteLocked, ReadLocked, CallerTypes, MonitorTypes, ReaderTypes, DialSucceeds,
     MonitorGoto
<1>6. ASSUME NEW m \in Monitors,
            MonitorStart(m) \/ CaptureChannels(m) \/ LoadLastSeen(m) \/ DialFails(m) \/
            MonitorLoop(m) \/ ReadC(m) \/ ReadErrC(m) \/ ReceiveEvent(m) \/
            ReceiveError(m) \/ SelectTimesOut(m) \/ updateLastSeen(m) \/
            SendBegins(m) \/ SendEnds(m) \/ MonitorBlocks(m)
     PROVE  SendsToOpenC'
  BY <1>6 DEF SendsToOpenC, MonitorStart, CaptureChannels, LoadLastSeen, DialFails,
     MonitorLoop, ReadC, ReadErrC, ReceiveEvent, ReceiveError, SelectTimesOut,
     updateLastSeen, SendBegins, SendEnds, MonitorBlocks, MonitorGoto, Lock
<1>7. ASSUME NEW r \in Readers, DecodeEvent(r)  PROVE SendsToOpenC'
  BY <1>7 DEF SendsToOpenC, Generations, LockExclusion, CanRLock, SharedTypes, Gens,
     WriteLocked, ReadLocked, CallerTypes, MonitorTypes, ReaderTypes, DecodeEvent,
     ReaderGoto
<1>8. ASSUME NEW r \in Readers, DecodeEOF(r)  PROVE SendsToOpenC'
  BY <1>8 DEF SendsToOpenC, Generations, LockExclusion, CanRLock, SharedTypes, Gens,
     WriteLocked, ReadLocked, CallerTypes, MonitorTypes, ReaderTypes, DecodeEOF,
     ReaderGoto
<1>9. ASSUME NEW r \in Readers, DecodeFails(r)  PROVE SendsToOpenC'
  BY <1>9 DEF SendsToOpenC, Generations, LockExclusion, CanRLock, SharedTypes, Gens,
     WriteLocked, ReadLocked, CallerTypes, MonitorTypes, ReaderTypes, DecodeFails,
     ReaderGoto
<1>10. ASSUME NEW r \in Readers, SendError(r)  PROVE SendsToOpenC'
  <2>1. UNCHANGED <<enabled, gen, chClosed, rgen>> /\ SendsToOpenC
    BY <1>10 DEF SendError
  <2>2. \A q \in Readers : rpc'[q] = "sending" => rpc[q] = "sending"
    BY <1>10 DEF SendError, ReaderGoto, ReaderTypes
  <2> QED BY <2>1, <2>2 DEF SendsToOpenC
<1>11. ASSUME NEW r \in Readers, ReaderChecks(r)  PROVE SendsToOpenC'
  <2>1. UNCHANGED <<enabled, gen, chClosed, rgen>> /\ SendsToOpenC
    BY <1>11 DEF ReaderChecks
  <2>2. enabled => gen \notin chClosed
    BY DEF Generations
  <2>3. \A q \in Readers : rpc'[q] = "sending" => rpc[q] = "sending" \/ (q = r /\ enabled /\ rgen[r] = gen)
    BY <1>11 DEF ReaderChecks, ReaderGoto, ReaderTypes
  <2> HIDE DEF IInv, Types, state, captured, monitor, reader, bounds
  <2> QED BY <2>1, <2>2, <2>3 DEF SendsToOpenC
<1>12. ASSUME NEW r \in Readers, ReaderSends(r)  PROVE SendsToOpenC'
  BY <1>12 DEF SendsToOpenC, Generations, LockExclusion, CanRLock, SharedTypes,
     Gens, WriteLocked, ReadLocked, CallerTypes, MonitorTypes, ReaderTypes,
     ReaderSends, ReaderGoto
<1>13. CASE DaemonEmits
  BY <1>13 DEF SendsToOpenC, Generations, LockExclusion, CanRLock, SharedTypes,
     Gens, WriteLocked, ReadLocked, CallerTypes, MonitorTypes, ReaderTypes,
     DaemonEmits
<1> QED
  BY <1>1, <1>2, <1>3, <1>4, <1>5, <1>6, <1>7, <1>8, <1>9, <1>10, <1>11, <1>12, <1>13 DEF Next, CallerStep, MonitorStep, DialStep, ReaderStep

\* Every step preserves Ownership: a caller's pc tells whether its channel is registered.
LEMMA OwnershipStep ==
  ASSUME IInv, Next
  PROVE  Ownership'
<1> USE Bounds DEF IInv, Types, state, captured, monitor, reader, bounds
<1>1. ASSUME NEW l \in Listeners, AddEventListener(l)  PROVE Ownership'
  BY <1>1 DEF Ownership, SharedTypes, CallerTypes, AddEventListener
<1>2. ASSUME NEW l \in Listeners, enableEventMonitoring(l)  PROVE Ownership'
  BY <1>2 DEF Ownership, SharedTypes, CallerTypes, enableEventMonitoring, Lock
<1>3. ASSUME NEW l \in Listeners, addListener(l)  PROVE Ownership'
  BY <1>3 DEF Ownership, SharedTypes, CallerTypes, addListener, Lock
<1>4. ASSUME NEW l \in Listeners, RemoveEventListener(l)  PROVE Ownership'
  BY <1>4 DEF Ownership, SharedTypes, CallerTypes, RemoveEventListener
<1>5. ASSUME NEW l \in Listeners, removeListener(l)  PROVE Ownership'
  BY <1>5 DEF Ownership, SharedTypes, CallerTypes, removeListener, Lock
<1>6. ASSUME NEW l \in Listeners, listenersCount(l)  PROVE Ownership'
  BY <1>6 DEF Ownership, SharedTypes, CallerTypes, listenersCount
<1>7. ASSUME NEW l \in Listeners, CallerDisables(l)  PROVE Ownership'
  BY <1>7 DEF Ownership, SharedTypes, CallerTypes, CallerDisables, CloseListeners,
     StopMonitoring, Lock
<1>8. ASSUME NEW l \in Listeners, CallerBlocks(l)  PROVE Ownership'
  BY <1>8 DEF Ownership, SharedTypes, CallerTypes, CallerBlocks
<1>9. ASSUME NEW m \in Monitors, MonitorDisables(m)  PROVE Ownership'
  BY <1>9 DEF Ownership, SharedTypes, CallerTypes, MonitorDisables, CloseListeners,
     StopMonitoring, Lock, MonitorGoto
<1>10. ASSUME NEW m \in Monitors,
            MonitorStart(m) \/ CaptureChannels(m) \/ LoadLastSeen(m) \/ DialFails(m) \/
            DialSucceeds(m) \/ MonitorLoop(m) \/ ReadC(m) \/ ReadErrC(m) \/
            ReceiveEvent(m) \/ ReceiveError(m) \/ SelectTimesOut(m) \/
            updateLastSeen(m) \/ SendBegins(m) \/ SendEnds(m) \/
            MonitorBlocks(m)
     PROVE  Ownership'
  BY <1>10 DEF Ownership, SharedTypes, CallerTypes, MonitorStart, CaptureChannels,
     LoadLastSeen, DialFails, DialSucceeds, MonitorLoop, ReadC, ReadErrC,
     ReceiveEvent, ReceiveError, SelectTimesOut, updateLastSeen, SendBegins,
     SendEnds, MonitorBlocks, MonitorGoto, Lock
<1>11. ASSUME NEW r \in Readers,
            DecodeEvent(r) \/ DecodeEOF(r) \/ DecodeFails(r) \/ SendError(r) \/
            ReaderChecks(r) \/ ReaderSends(r)
     PROVE  Ownership'
  BY <1>11 DEF Ownership, SharedTypes, CallerTypes, DecodeEvent, DecodeEOF,
     DecodeFails, SendError, ReaderChecks, ReaderSends, ReaderGoto
<1>12. CASE DaemonEmits
  BY <1>12 DEF Ownership, SharedTypes, CallerTypes, DaemonEmits
<1> QED
  BY <1>1, <1>2, <1>3, <1>4, <1>5, <1>6, <1>7, <1>8, <1>9, <1>10, <1>11, <1>12 DEF Next, CallerStep, MonitorStep, DialStep, ReaderStep

\* Every step preserves PanicsOnlyOnErrC.
LEMMA PanicsStep ==
  ASSUME IInv, Next
  PROVE  PanicsOnlyOnErrC'
<1> USE Bounds DEF IInv, Types, state, captured, monitor, reader, bounds
<1>1. ASSUME NEW l \in Listeners, CallerDisables(l)  PROVE PanicsOnlyOnErrC'
  BY <1>1 DEF PanicsOnlyOnErrC, Ownership, Generations, SendsToOpenC,
     CallerDisables, CloseListeners, StopMonitoring, Lock
<1>2. ASSUME NEW l \in Listeners,
            AddEventListener(l) \/ enableEventMonitoring(l) \/ addListener(l) \/
            RemoveEventListener(l) \/ removeListener(l) \/ listenersCount(l)
            \/ CallerBlocks(l)
     PROVE  PanicsOnlyOnErrC'
  BY <1>2 DEF PanicsOnlyOnErrC, Ownership, Generations, SendsToOpenC,
     AddEventListener, enableEventMonitoring, addListener, RemoveEventListener,
     removeListener, listenersCount, CallerBlocks, Lock
<1>3. ASSUME NEW m \in Monitors, MonitorDisables(m)  PROVE PanicsOnlyOnErrC'
  BY <1>3 DEF PanicsOnlyOnErrC, Ownership, Generations, SendsToOpenC,
     MonitorDisables, CloseListeners, StopMonitoring, Lock, MonitorGoto
<1>4. ASSUME NEW m \in Monitors, SendEnds(m)  PROVE PanicsOnlyOnErrC'
  BY <1>4 DEF PanicsOnlyOnErrC, Ownership, Generations, SendsToOpenC, SendEnds,
     MonitorGoto
<1>5. ASSUME NEW m \in Monitors,
            MonitorStart(m) \/ CaptureChannels(m) \/ LoadLastSeen(m) \/ DialFails(m) \/
            DialSucceeds(m) \/ MonitorLoop(m) \/ ReadC(m) \/ ReadErrC(m) \/
            ReceiveEvent(m) \/ ReceiveError(m) \/ SelectTimesOut(m) \/
            updateLastSeen(m) \/ SendBegins(m) \/ MonitorBlocks(m)
     PROVE  PanicsOnlyOnErrC'
  BY <1>5 DEF PanicsOnlyOnErrC, Ownership, Generations, SendsToOpenC, MonitorStart,
     CaptureChannels, LoadLastSeen, DialFails, DialSucceeds, MonitorLoop, ReadC,
     ReadErrC, ReceiveEvent, ReceiveError, SelectTimesOut, updateLastSeen,
     SendBegins, MonitorBlocks, MonitorGoto, Lock
<1>6. ASSUME NEW r \in Readers, SendError(r)  PROVE PanicsOnlyOnErrC'
  BY <1>6 DEF PanicsOnlyOnErrC, Ownership, Generations, SendsToOpenC, SendError,
     ReaderGoto
<1>7. ASSUME NEW r \in Readers, ReaderSends(r)  PROVE PanicsOnlyOnErrC'
  BY <1>7 DEF PanicsOnlyOnErrC, Ownership, Generations, SendsToOpenC, ReaderSends,
     ReaderGoto
<1>8. ASSUME NEW r \in Readers,
            DecodeEvent(r) \/ DecodeEOF(r) \/ DecodeFails(r) \/ ReaderChecks(r)
     PROVE  PanicsOnlyOnErrC'
  BY <1>8 DEF PanicsOnlyOnErrC, Ownership, Generations, SendsToOpenC, DecodeEvent,
     DecodeEOF, DecodeFails, ReaderChecks, ReaderGoto
<1>9. CASE DaemonEmits
  BY <1>9 DEF PanicsOnlyOnErrC, Ownership, Generations, SendsToOpenC, DaemonEmits
<1> QED
  BY <1>1, <1>2, <1>3, <1>4, <1>5, <1>6, <1>7, <1>8, <1>9 DEF Next, CallerStep, MonitorStep, DialStep, ReaderStep

\* Every step preserves EnablesCounted.
LEMMA EnablesCountedStep ==
  ASSUME IInv, Next
  PROVE  EnablesCounted'
<1> USE Bounds DEF IInv, Types, state, captured, monitor, reader, bounds
<1>1. ASSUME NEW l \in Listeners, AddEventListener(l)  PROVE EnablesCounted'
  <2>1. l \notin Enabling /\ Cardinality(Enabling \cup {l}) = Cardinality(Enabling) + 1
    BY <1>1, FiniteSubsets, FS_AddElement DEF AddEventListener, Enabling
  <2>2. Enabling' = Enabling \cup {l} \/ Enabling' = Enabling
    BY <1>1 DEF AddEventListener, Enabling, CallerTypes
  <2>3. Cardinality(Enabling') <= Cardinality(Enabling) + 1
    BY <2>1, <2>2, FiniteSubsets
  <2>4. gen' = gen /\ adds' = adds + 1
    BY <1>1 DEF AddEventListener
  <2>5. Cardinality(Enabling) \in Nat /\ Cardinality(Enabling') \in Nat
    BY <2>1, <2>2, FiniteSubsets
  <2>6. gen \in Nat /\ adds \in Nat /\ EnablesCounted
    BY DEF SharedTypes, BoundTypes, Gens
  <2> HIDE DEF IInv, Types, state, captured, monitor, reader, bounds
  <2> QED
    BY <2>3, <2>4, <2>5, <2>6 DEF EnablesCounted
<1>2. ASSUME NEW l \in Listeners, enableEventMonitoring(l)  PROVE EnablesCounted'
  <2>1. Enabling' = Enabling \ {l} /\ l \in Enabling
    BY <1>2 DEF enableEventMonitoring, Enabling, CallerTypes
  <2>2. Cardinality(Enabling') = Cardinality(Enabling) - 1
    BY <2>1, FiniteSubsets, FS_RemoveElement
  <2>3. gen' \in {gen, gen + 1} /\ adds' = adds
    <3>1. CASE enabled
      BY <1>2, <3>1 DEF enableEventMonitoring, bounds
    <3>2. CASE ~enabled
      BY <1>2, <3>2 DEF enableEventMonitoring, bounds
    <3> QED
      BY <3>1, <3>2
  <2>4. Cardinality(Enabling) \in Nat /\ gen \in Nat /\ adds \in Nat
    BY FiniteSubsets DEF SharedTypes, BoundTypes, Gens
  <2> QED
    BY <2>2, <2>3, <2>4 DEF EnablesCounted
<1>3. ASSUME NEW l \in Listeners, addListener(l)  PROVE EnablesCounted'
  <2>1. Enabling' = Enabling
    BY <1>3 DEF addListener, Lock, Enabling, CallerTypes
  <2>2. gen' = gen /\ adds' = adds
    BY <1>3 DEF addListener, Lock, state, bounds
  <2> QED
    BY <2>1, <2>2 DEF EnablesCounted
<1>4. ASSUME NEW l \in Listeners, RemoveEventListener(l)  PROVE EnablesCounted'
  <2>1. Enabling' = Enabling
    BY <1>4 DEF RemoveEventListener, Enabling, CallerTypes
  <2>2. gen' = gen /\ adds' = adds
    BY <1>4 DEF RemoveEventListener, state, bounds
  <2> QED
    BY <2>1, <2>2 DEF EnablesCounted
<1>5. ASSUME NEW l \in Listeners, removeListener(l)  PROVE EnablesCounted'
  <2>1. Enabling' = Enabling
    BY <1>5 DEF removeListener, Lock, Enabling, CallerTypes
  <2>2. gen' = gen /\ adds' = adds
    BY <1>5 DEF removeListener, Lock, state, bounds
  <2> QED
    BY <2>1, <2>2 DEF EnablesCounted
<1>6. ASSUME NEW l \in Listeners, listenersCount(l)  PROVE EnablesCounted'
  <2>1. Enabling' = Enabling
    BY <1>6 DEF listenersCount, Enabling, CallerTypes
  <2>2. gen' = gen /\ adds' = adds
    BY <1>6 DEF listenersCount, state, bounds
  <2> QED
    BY <2>1, <2>2 DEF EnablesCounted
<1>7. ASSUME NEW l \in Listeners, CallerDisables(l)  PROVE EnablesCounted'
  <2>1. Enabling' = Enabling
    BY <1>7 DEF CallerDisables, CloseListeners, StopMonitoring, Lock, Enabling, CallerTypes
  <2>2. gen' = gen /\ adds' = adds
    BY <1>7 DEF CallerDisables, CloseListeners, StopMonitoring, Lock, state, bounds
  <2> QED
    BY <2>1, <2>2 DEF EnablesCounted
<1>8. ASSUME NEW l \in Listeners,
            CallerBlocks(l)
     PROVE  EnablesCounted'
  BY <1>8 DEF EnablesCounted, Enabling, CallerBlocks
<1>9. ASSUME NEW m \in Monitors,
            MonitorStart(m) \/ MonitorDisables(m) \/ CaptureChannels(m) \/ LoadLastSeen(m)
            \/ DialFails(m) \/ DialSucceeds(m) \/ MonitorLoop(m) \/ ReadC(m)
            \/ ReadErrC(m) \/ ReceiveEvent(m) \/ ReceiveError(m) \/
            SelectTimesOut(m) \/ updateLastSeen(m) \/ SendBegins(m) \/
            SendEnds(m) \/ MonitorBlocks(m)
     PROVE  EnablesCounted'
  BY <1>9 DEF EnablesCounted, Enabling, MonitorStart, MonitorDisables,
     CaptureChannels, LoadLastSeen, DialFails, DialSucceeds, MonitorLoop, ReadC,
     ReadErrC, ReceiveEvent, ReceiveError, SelectTimesOut, updateLastSeen,
     SendBegins, SendEnds, MonitorBlocks, MonitorGoto, CloseListeners,
     StopMonitoring, Lock
<1>10. ASSUME NEW r \in Readers,
            DecodeEvent(r) \/ DecodeEOF(r) \/ DecodeFails(r) \/ SendError(r) \/
            ReaderChecks(r) \/ ReaderSends(r)
     PROVE  EnablesCounted'
  BY <1>10 DEF EnablesCounted, Enabling, DecodeEvent, DecodeEOF, DecodeFails,
     SendError, ReaderChecks, ReaderSends, ReaderGoto
<1>11. CASE DaemonEmits
  BY <1>11 DEF EnablesCounted, Enabling, DaemonEmits
<1> QED
  BY <1>1, <1>2, <1>3, <1>4, <1>5, <1>6, <1>7, <1>8, <1>9, <1>10, <1>11 DEF Next, CallerStep, MonitorStep, DialStep, ReaderStep

\* Every step preserves MonitorsStarted.
LEMMA MonitorsStartedStep ==
  ASSUME IInv, Next
  PROVE  MonitorsStarted'
<1> USE Bounds DEF IInv, Types, state, captured, monitor, reader, bounds
<1>1. ASSUME NEW l \in Listeners, enableEventMonitoring(l)  PROVE MonitorsStarted'
  <2>1. \A k \in Monitors : k > gen + 1 => k > gen /\ k # gen + 1
    BY DEF Monitors, SharedTypes, Gens
  <2>2. CASE enabled
    BY <1>1, <2>2 DEF enableEventMonitoring, MonitorsStarted
  <2>3. CASE ~enabled
    BY <1>1, <2>1, <2>3 DEF enableEventMonitoring, MonitorsStarted, MonitorTypes
  <2> QED
    BY <2>2, <2>3
<1>2. ASSUME NEW l \in Listeners,
            AddEventListener(l) \/ addListener(l) \/ RemoveEventListener(l) \/
            removeListener(l) \/ listenersCount(l) \/ CallerDisables(l) \/
            CallerBlocks(l)
     PROVE  MonitorsStarted'
  BY <1>2 DEF MonitorsStarted, AddEventListener, addListener, RemoveEventListener,
     removeListener, listenersCount, CallerDisables, CallerBlocks, Lock,
     CloseListeners, StopMonitoring
<1>3. ASSUME NEW m \in Monitors, MonitorStart(m)  PROVE MonitorsStarted'
  BY <1>3 DEF MonitorsStarted, MonitorTypes, MonitorStart, MonitorGoto
<1>4. ASSUME NEW m \in Monitors, MonitorDisables(m)  PROVE MonitorsStarted'
  <2>1. gen' = gen /\ mpc[m] # "off"
    BY <1>4 DEF MonitorDisables, CloseListeners, StopMonitoring
  <2>2. \A k \in Monitors : k # m => mpc'[k] = mpc[k]
    BY <1>4 DEF MonitorDisables, MonitorGoto, MonitorTypes
  <2> QED
    BY <2>1, <2>2 DEF MonitorsStarted
<1>5. ASSUME NEW m \in Monitors, CaptureChannels(m)  PROVE MonitorsStarted'
  BY <1>5 DEF MonitorsStarted, MonitorTypes, CaptureChannels, MonitorGoto
<1>6. ASSUME NEW m \in Monitors, LoadLastSeen(m)  PROVE MonitorsStarted'
  BY <1>6 DEF MonitorsStarted, MonitorTypes, LoadLastSeen, MonitorGoto
<1>7. ASSUME NEW m \in Monitors, DialFails(m)  PROVE MonitorsStarted'
  BY <1>7 DEF MonitorsStarted, MonitorTypes, DialFails, MonitorGoto
<1>8. ASSUME NEW m \in Monitors, DialSucceeds(m)  PROVE MonitorsStarted'
  BY <1>8 DEF MonitorsStarted, MonitorTypes, DialSucceeds, MonitorGoto
<1>9. ASSUME NEW m \in Monitors, MonitorLoop(m)  PROVE MonitorsStarted'
  BY <1>9 DEF MonitorsStarted, MonitorTypes, MonitorLoop, MonitorGoto
<1>10. ASSUME NEW m \in Monitors, ReadC(m)  PROVE MonitorsStarted'
  BY <1>10 DEF MonitorsStarted, MonitorTypes, ReadC, MonitorGoto
<1>11. ASSUME NEW m \in Monitors, ReadErrC(m)  PROVE MonitorsStarted'
  BY <1>11 DEF MonitorsStarted, MonitorTypes, ReadErrC, MonitorGoto
<1>12. ASSUME NEW m \in Monitors, ReceiveEvent(m)  PROVE MonitorsStarted'
  BY <1>12 DEF MonitorsStarted, MonitorTypes, ReceiveEvent, MonitorGoto
<1>13. ASSUME NEW m \in Monitors, ReceiveError(m)  PROVE MonitorsStarted'
  BY <1>13 DEF MonitorsStarted, MonitorTypes, ReceiveError, MonitorGoto
<1>14. ASSUME NEW m \in Monitors, SelectTimesOut(m)  PROVE MonitorsStarted'
  BY <1>14 DEF MonitorsStarted, MonitorTypes, SelectTimesOut, MonitorGoto
<1>15. ASSUME NEW m \in Monitors, updateLastSeen(m)  PROVE MonitorsStarted'
  BY <1>15 DEF MonitorsStarted, MonitorTypes, updateLastSeen, Lock, MonitorGoto
<1>16. ASSUME NEW m \in Monitors, SendBegins(m)  PROVE MonitorsStarted'
  BY <1>16 DEF MonitorsStarted, MonitorTypes, SendBegins, MonitorGoto
<1>17. ASSUME NEW m \in Monitors, SendEnds(m)  PROVE MonitorsStarted'
  BY <1>17 DEF MonitorsStarted, MonitorTypes, SendEnds, MonitorGoto
<1>18. ASSUME NEW m \in Monitors,
            MonitorBlocks(m)
     PROVE  MonitorsStarted'
  BY <1>18 DEF MonitorsStarted, MonitorBlocks
<1>19. ASSUME NEW r \in Readers,
            DecodeEvent(r) \/ DecodeEOF(r) \/ DecodeFails(r) \/ SendError(r) \/
            ReaderChecks(r) \/ ReaderSends(r)
     PROVE  MonitorsStarted'
  BY <1>19 DEF MonitorsStarted, DecodeEvent, DecodeEOF, DecodeFails, SendError,
     ReaderChecks, ReaderSends, ReaderGoto
<1>20. CASE DaemonEmits
  BY <1>20 DEF MonitorsStarted, MonitorTypes, DaemonEmits
<1> QED
  BY <1>1, <1>2, <1>3, <1>4, <1>5, <1>6, <1>7, <1>8, <1>9, <1>10, <1>11, <1>12, <1>13, <1>14, <1>15, <1>16, <1>17, <1>18, <1>19, <1>20 DEF Next, CallerStep, MonitorStep, DialStep, ReaderStep

\* Every step preserves WgBalance: each Add(1) has its Add(-1) or Done().
LEMMA WgBalanceStep ==
  ASSUME IInv, Next
  PROVE  WgBalance'
<1> USE Bounds DEF IInv, Types, state, captured, monitor, reader, bounds
<1>1. ASSUME NEW l \in Listeners, enableEventMonitoring(l)  PROVE WgBalance'
  <2>1. \A m \in Monitors : m = gen + 1 => mpc[m] = "off"
    BY DEF MonitorsStarted, Monitors, SharedTypes, Gens
  <2>2. Sending' = Sending
    BY <1>1, <2>1 DEF enableEventMonitoring, Sending, MonitorTypes
  <2> QED
    BY <1>1, <2>2 DEF enableEventMonitoring, WgBalance
<1>2. ASSUME NEW l \in Listeners, addListener(l)  PROVE WgBalance'
  <2>1. Sending' = Sending
    BY <1>2 DEF addListener, Sending, monitor
  <2>2. CASE l \in listeners
    BY <1>2, <2>1, <2>2 DEF addListener, WgBalance
  <2>3. CASE l \notin listeners
    <3>1. Cardinality(listeners') = Cardinality(listeners) + 1
      BY <1>2, <2>3, FiniteSubsets, FS_AddElement DEF addListener
    <3>2. wg' = wg + 1
      BY <1>2, <2>3 DEF addListener
    <3> QED
      BY <2>1, <3>1, <3>2, FiniteSubsets DEF WgBalance
  <2> QED
    BY <2>2, <2>3
<1>3. ASSUME NEW l \in Listeners, removeListener(l)  PROVE WgBalance'
  <2>1. Sending' = Sending
    BY <1>3 DEF removeListener, Sending, monitor
  <2>2. CASE l \notin listeners
    BY <1>3, <2>1, <2>2 DEF removeListener, WgBalance
  <2>3. CASE l \in listeners
    <3>1. Cardinality(listeners') = Cardinality(listeners) - 1
      BY <1>3, <2>3, FiniteSubsets, FS_RemoveElement DEF removeListener
    <3>2. wg' = wg - 1
      BY <1>3, <2>3 DEF removeListener
    <3> QED
      BY <2>1, <3>1, <3>2, FiniteSubsets DEF WgBalance
  <2> QED
    BY <2>2, <2>3
<1>4. ASSUME NEW l \in Listeners, CallerDisables(l)  PROVE WgBalance'
  <2>1. Sending' = Sending
    BY <1>4 DEF CallerDisables, Sending, monitor, MonitorTypes
  <2>2. CASE CloseListeners(l)
    <3>1. Cardinality(listeners') = 0
      BY <2>2, FS_EmptySet DEF CloseListeners
    <3>2. wg' = wg - Cardinality(listeners)
      BY <2>2 DEF CloseListeners
    <3> QED
      BY <2>1, <3>1, <3>2, FiniteSubsets DEF WgBalance
  <2>3. CASE StopMonitoring
    BY <2>1, <2>3 DEF StopMonitoring, WgBalance
  <2> QED
    BY <1>4, <2>2, <2>3 DEF CallerDisables
<1>5. ASSUME NEW l \in Listeners,
            AddEventListener(l) \/ RemoveEventListener(l) \/ listenersCount(l) \/
            CallerBlocks(l)
     PROVE  WgBalance'
  BY <1>5 DEF WgBalance, Sending, AddEventListener, RemoveEventListener,
     listenersCount, CallerBlocks
<1>6. ASSUME NEW m \in Monitors, MonitorStart(m)  PROVE WgBalance'
  <2>1. Sending' = Sending
    BY <1>6 DEF MonitorStart, MonitorGoto, Sending, MonitorTypes
  <2>2. wg' = wg /\ listeners' = listeners
    BY <1>6 DEF MonitorStart, MonitorGoto, state
  <2> QED
    BY <2>1, <2>2 DEF WgBalance
<1>7. ASSUME NEW m \in Monitors, MonitorDisables(m)  PROVE WgBalance'
  <2>1. Sending' = Sending
    BY <1>7 DEF MonitorDisables, Sending, monitor, MonitorTypes, MonitorGoto
  <2>2. CASE CloseListeners(m)
    <3>1. Cardinality(listeners') = 0
      BY <2>2, FS_EmptySet DEF CloseListeners
    <3>2. wg' = wg - Cardinality(listeners)
      BY <2>2 DEF CloseListeners
    <3> QED
      BY <2>1, <3>1, <3>2, FiniteSubsets DEF WgBalance
  <2>3. CASE StopMonitoring
    BY <2>1, <2>3 DEF StopMonitoring, WgBalance
  <2> QED
    BY <1>7, <2>2, <2>3 DEF MonitorDisables
<1>8. ASSUME NEW m \in Monitors, CaptureChannels(m)  PROVE WgBalance'
  <2>1. Sending' = Sending
    BY <1>8 DEF CaptureChannels, MonitorGoto, Sending, MonitorTypes
  <2>2. wg' = wg /\ listeners' = listeners
    BY <1>8 DEF CaptureChannels, MonitorGoto, state
  <2> QED
    BY <2>1, <2>2 DEF WgBalance
<1>9. ASSUME NEW m \in Monitors, LoadLastSeen(m)  PROVE WgBalance'
  <2>1. Sending' = Sending
    BY <1>9 DEF LoadLastSeen, MonitorGoto, Sending, MonitorTypes
  <2>2. wg' = wg /\ listeners' = listeners
    BY <1>9 DEF LoadLastSeen, MonitorGoto, state
  <2> QED
    BY <2>1, <2>2 DEF WgBalance
<1>10. ASSUME NEW m \in Monitors, DialFails(m)  PROVE WgBalance'
  <2>1. Sending' = Sending
    BY <1>10 DEF DialFails, MonitorGoto, Sending, MonitorTypes
  <2>2. wg' = wg /\ listeners' = listeners
    BY <1>10 DEF DialFails, MonitorGoto, state
  <2> QED
    BY <2>1, <2>2 DEF WgBalance
<1>11. ASSUME NEW m \in Monitors, DialSucceeds(m)  PROVE WgBalance'
  <2>1. Sending' = Sending
    BY <1>11 DEF DialSucceeds, MonitorGoto, Sending, MonitorTypes
  <2>2. wg' = wg /\ listeners' = listeners
    BY <1>11 DEF DialSucceeds, MonitorGoto, state
  <2> QED
    BY <2>1, <2>2 DEF WgBalance
<1>12. ASSUME NEW m \in Monitors, MonitorLoop(m)  PROVE WgBalance'
  <2>1. Sending' = Sending
    BY <1>12 DEF MonitorLoop, MonitorGoto, Sending, MonitorTypes
  <2>2. wg' = wg /\ listeners' = listeners
    BY <1>12 DEF MonitorLoop, MonitorGoto, state
  <2> QED
    BY <2>1, <2>2 DEF WgBalance
<1>13. ASSUME NEW m \in Monitors, ReadC(m)  PROVE WgBalance'
  <2>1. Sending' = Sending
    BY <1>13 DEF ReadC, MonitorGoto, Sending, MonitorTypes
  <2>2. wg' = wg /\ listeners' = listeners
    BY <1>13 DEF ReadC, MonitorGoto, state
  <2> QED
    BY <2>1, <2>2 DEF WgBalance
<1>14. ASSUME NEW m \in Monitors, ReadErrC(m)  PROVE WgBalance'
  <2>1. Sending' = Sending
    BY <1>14 DEF ReadErrC, MonitorGoto, Sending, MonitorTypes
  <2>2. wg' = wg /\ listeners' = listeners
    BY <1>14 DEF ReadErrC, MonitorGoto, state
  <2> QED
    BY <2>1, <2>2 DEF WgBalance
<1>15. ASSUME NEW m \in Monitors, ReceiveEvent(m)  PROVE WgBalance'
  <2>1. Sending' = Sending
    BY <1>15 DEF ReceiveEvent, MonitorGoto, Sending, MonitorTypes
  <2>2. wg' = wg /\ listeners' = listeners
    BY <1>15 DEF ReceiveEvent, MonitorGoto, state
  <2> QED
    BY <2>1, <2>2 DEF WgBalance
<1>16. ASSUME NEW m \in Monitors, ReceiveError(m)  PROVE WgBalance'
  <2>1. Sending' = Sending
    BY <1>16 DEF ReceiveError, MonitorGoto, Sending, MonitorTypes
  <2>2. wg' = wg /\ listeners' = listeners
    BY <1>16 DEF ReceiveError, MonitorGoto, state
  <2> QED
    BY <2>1, <2>2 DEF WgBalance
<1>17. ASSUME NEW m \in Monitors, SelectTimesOut(m)  PROVE WgBalance'
  <2>1. Sending' = Sending
    BY <1>17 DEF SelectTimesOut, MonitorGoto, Sending, MonitorTypes
  <2>2. wg' = wg /\ listeners' = listeners
    BY <1>17 DEF SelectTimesOut, MonitorGoto, state
  <2> QED
    BY <2>1, <2>2 DEF WgBalance
<1>18. ASSUME NEW m \in Monitors, updateLastSeen(m)  PROVE WgBalance'
  <2>1. Sending' = Sending
    BY <1>18 DEF updateLastSeen, Lock, MonitorGoto, Sending, MonitorTypes
  <2>2. wg' = wg /\ listeners' = listeners
    BY <1>18 DEF updateLastSeen, Lock, MonitorGoto, state
  <2> QED
    BY <2>1, <2>2 DEF WgBalance
<1>19. ASSUME NEW m \in Monitors, SendBegins(m)  PROVE WgBalance'
  <2>1. Sending' = Sending \cup {m} /\ m \notin Sending
    BY <1>19 DEF SendBegins, MonitorGoto, Sending, MonitorTypes
  <2>2. Cardinality(Sending') = Cardinality(Sending) + 1
    BY <2>1, FiniteSubsets, FS_AddElement
  <2>3. wg' = wg + 1 /\ listeners' = listeners
    BY <1>19 DEF SendBegins
  <2> QED
    BY <2>2, <2>3, FiniteSubsets DEF WgBalance
<1>20. ASSUME NEW m \in Monitors, SendEnds(m)  PROVE WgBalance'
  <2>1. Sending' = Sending \ {m} /\ m \in Sending
    BY <1>20 DEF SendEnds, MonitorGoto, Sending, MonitorTypes
  <2>2. Cardinality(Sending') = Cardinality(Sending) - 1
    BY <2>1, FiniteSubsets, FS_RemoveElement
  <2>3. wg' = wg - 1 /\ listeners' = listeners
    BY <1>20 DEF SendEnds
  <2> QED
    BY <2>2, <2>3, FiniteSubsets DEF WgBalance
<1>21. ASSUME NEW m \in Monitors,
            MonitorBlocks(m)
     PROVE  WgBalance'
  BY <1>21 DEF WgBalance, Sending, MonitorBlocks
<1>22. ASSUME NEW r \in Readers,
            DecodeEvent(r) \/ DecodeEOF(r) \/ DecodeFails(r) \/ SendError(r) \/
            ReaderChecks(r) \/ ReaderSends(r)
     PROVE  WgBalance'
  BY <1>22 DEF WgBalance, Sending, DecodeEvent, DecodeEOF, DecodeFails, SendError,
     ReaderChecks, ReaderSends, ReaderGoto
<1>23. CASE DaemonEmits
  BY <1>23 DEF WgBalance, Sending, DaemonEmits
<1> QED
  BY <1>1, <1>2, <1>3, <1>4, <1>5, <1>6, <1>7, <1>8, <1>9, <1>10, <1>11, <1>12, <1>13, <1>14, <1>15, <1>16, <1>17, <1>18, <1>19, <1>20, <1>21, <1>22, <1>23 DEF Next, CallerStep, MonitorStep, DialStep, ReaderStep

-----------------------------------------------------------------------------
\* The initial state satisfies the invariant.
LEMMA InitIInv ==
  ASSUME Init
  PROVE  IInv
<1> USE Bounds DEF Init
<1>1. Types
  <2>1. <<>> \in Seq(Events) /\ <<>> \in Seq({"decode", "ErrNoListeners"})
    BY EmptySeq
  <2>2. 0 \in Gens /\ 0 \in Events /\ 0 \in 0 .. MaxAdds /\ 0 \in 0 .. MaxErrs
           /\ 0 \in 0 .. (MaxAdds + MaxErrs)
    BY DEF Gens, Events
  <2> QED
    BY <2>1, <2>2 DEF Types, SharedTypes, CallerTypes, MonitorTypes, ReaderTypes, BoundTypes,
                      EOFEvent
<1>2. Sending = {} /\ Enabling = {}
  BY DEF Sending, Enabling
<1>3. Cardinality({}) = 0
  BY FS_EmptySet
<1>4. WgBalance /\ EnablesCounted
  BY <1>2, <1>3 DEF WgBalance, EnablesCounted
<1>5. LockExclusion /\ WritersFoundNone
  BY DEF LockExclusion, WritersFoundNone, WriteLocked, ReadLocked, Writers
<1>6. Generations /\ MonitorsStarted /\ EventsEmitted /\ SendsToOpenC
  BY DEF Generations, MonitorsStarted, EventsEmitted, SendsToOpenC
<1>7. Ownership /\ PanicsOnlyOnErrC
  BY DEF Ownership, PanicsOnlyOnErrC
<1> QED
  BY <1>1, <1>4, <1>5, <1>6, <1>7 DEF IInv

\* Every step preserves the invariant.
LEMMA NextIInv ==
  ASSUME IInv, [Next]_vars
  PROVE  IInv'
<1>1. CASE Next
  <2>1. Types'
    BY <1>1, CallerTypesStep, MonitorTypesStep, ReaderTypesStep, BoundTypesStep,
       SharedTypesStep DEF Types
  <2>2. WgBalance' /\ EnablesCounted' /\ MonitorsStarted'
    BY <1>1, WgBalanceStep, EnablesCountedStep, MonitorsStartedStep
  <2>3. LockExclusion' /\ WritersFoundNone' /\ SendsToOpenC'
    BY <1>1, LockExclusionStep, WritersFoundNoneStep, SendsToOpenCStep
  <2>4. Generations' /\ EventsEmitted' /\ Ownership' /\ PanicsOnlyOnErrC'
    BY <1>1, GenerationsStep, EventsEmittedStep, OwnershipStep, PanicsStep
  <2> QED
    BY <2>1, <2>2, <2>3, <2>4 DEF IInv
<1>2. CASE UNCHANGED vars
  <2> USE <1>2 DEF vars, state, captured, monitor, reader, bounds
  <2>1. Types'
    BY DEF IInv, Types, SharedTypes, CallerTypes, MonitorTypes, ReaderTypes, BoundTypes
  <2>2. WgBalance' /\ EnablesCounted' /\ MonitorsStarted'
    BY DEF IInv, WgBalance, EnablesCounted, MonitorsStarted, Sending, Enabling
  <2>3. LockExclusion' /\ WritersFoundNone' /\ SendsToOpenC'
    BY DEF IInv, LockExclusion, WritersFoundNone, SendsToOpenC, WriteLocked, ReadLocked, Writers
  <2>4. Generations' /\ EventsEmitted' /\ Ownership' /\ PanicsOnlyOnErrC'
    BY DEF IInv, Generations, EventsEmitted, Ownership, PanicsOnlyOnErrC
  <2> QED
    BY <2>1, <2>2, <2>3, <2>4 DEF IInv
<1> QED
  BY <1>1, <1>2

\* The invariant is inductive, for any callers, capacity, retries and bounds.
THEOREM Inductive == Spec => []IInv
<1>1. Init => IInv
  BY InitIInv
<1>2. IInv /\ [Next]_vars => IInv'
  BY NextIInv
<1> QED
  BY <1>1, <1>2, PTL DEF Spec

\* Every variable of the event monitor keeps its type, and the WaitGroup of
\* eventMonitoringState never goes below zero, which would panic.
THEOREM TypeCorrect == Spec => []TypeOK
<1>1. IInv => TypeOK
  BY FiniteSubsets DEF IInv, TypeOK, WgBalance
<1> QED
  BY <1>1, Inductive, PTL

\* The WaitGroup counts the registered listeners and the events being fanned out.
THEOREM WgBalanced == Spec => []WgBalance
<1>1. IInv => WgBalance
  BY DEF IInv
<1> QED
  BY <1>1, Inductive, PTL

\* disableEventMonitoring never blocks in Wait() with the lock held.
THEOREM WaitNeverBlocks == Spec => []NeverWaits
<1>1. IInv => NeverWaits
  <2> SUFFICES ASSUME IInv, Writers # {}
               PROVE  wg = 0
    BY DEF NeverWaits
  <2>1. WriteLocked
    BY DEF Writers, WriteLocked
  <2>2. listeners = {} /\ Sending = {}
    BY <2>1 DEF IInv, WritersFoundNone, LockExclusion, ReadLocked, Sending
  <2> QED
    BY <2>2, FS_EmptySet DEF IInv, WgBalance
<1> QED
  BY <1>1, Inductive, PTL

\* The sections that block under the RWMutex exclude each other.
THEOREM LocksExclude == Spec => []LockExclusion
<1>1. IInv => LockExclusion
  BY DEF IInv
<1> QED
  BY <1>1, Inductive, PTL

\* A reader blocked in its send to C sends to the open channel of the current generation.
THEOREM ReadersSendToOpenC == Spec => []SendsToOpenC
<1>1. IInv => SendsToOpenC
  BY DEF IInv
<1> QED
  BY <1>1, Inductive, PTL

\* Callers that do not add a channel twice meet one panic only: a reader's send of
\* a decode error on the closed errC.
THEOREM OnlyErrCPanics == Spec => []PanicsOnlyOnErrC
<1>1. IInv => PanicsOnlyOnErrC
  BY DEF IInv
<1> QED
  BY <1>1, Inductive, PTL

\* Callers that do not add a channel twice never have a closed channel registered.
THEOREM ListenersStayOpen == Spec => []ListenersOpen
<1>1. IInv => ListenersOpen
  BY DEF IInv, Ownership, ListenersOpen
<1> QED
  BY <1>1, Inductive, PTL

-----------------------------------------------------------------------------
(* The monitor of the generation that is enabled.                              *)

\* A monitor selects from a channel of its own generation or of a later one.
SelectsOwn ==
  \A m \in Monitors : mpc[m] \in {"readErrC", "select"} => m <= mgen[m] /\ mgen[m] <= gen

Monitored == SelectsOwn /\ StaysMonitored /\ (enabled => gen \in Monitors)

LEMMA MonitoredInit == Init => Monitored
BY DEF Init, Monitored, SelectsOwn, StaysMonitored

\* A monitor that stops leaves monitoring disabled, or is of an earlier generation.
LEMMA MonitoredStep ==
  ASSUME IInv, Monitored, [Next]_vars
  PROVE  Monitored'
<1> USE Bounds DEF Monitors
<1>0. /\ gen \in Nat /\ enabled \in BOOLEAN /\ DOMAIN mpc = Monitors
      /\ mgen \in [Monitors -> Nat]
      /\ \A m \in Monitors : mpc[m] # "off" => m <= gen
  BY DEF IInv, Types, SharedTypes, MonitorTypes, Gens, MonitorsStarted
<1>1. CASE UNCHANGED <<gen, mpc, mgen>> /\ (enabled' => enabled)
  BY <1>1 DEF Monitored, SelectsOwn, StaysMonitored
<1>2. ASSUME NEW m \in Monitors, NEW label, label \notin {"off", "readErrC", "select"},
             mpc' = [mpc EXCEPT ![m] = label], UNCHANGED <<gen, enabled>>,
             \A n \in Monitors \ {m} : mgen'[n] = mgen[n]
      PROVE  Monitored'
  BY <1>0, <1>2 DEF Monitored, SelectsOwn, StaysMonitored
<1>3. ASSUME NEW m \in Monitors, mpc' = [mpc EXCEPT ![m] = "off"], UNCHANGED <<gen, mgen>>,
             ~enabled' \/ (enabled' = enabled /\ m # gen)
      PROVE  Monitored'
  BY <1>0, <1>3 DEF Monitored, SelectsOwn, StaysMonitored
<1>4. ASSUME NEW l \in Listeners, enableEventMonitoring(l) PROVE Monitored'
  <2>1. CASE enabled
    BY <1>1, <1>4, <2>1 DEF enableEventMonitoring, captured
  <2>2. CASE ~enabled
    <3>1. gen' = gen + 1 /\ mpc' = [mpc EXCEPT ![gen + 1] = "start"] /\ mgen' = mgen
      BY <1>4, <2>2 DEF enableEventMonitoring, captured
    <3>2. gen' \in Gens
      BY <1>4, NextIInv, <3>1 DEF IInv, Types, SharedTypes, Next, CallerStep
    <3>3. gen' \in Monitors
      BY <1>0, <3>1, <3>2 DEF Gens
    <3>4. mpc'[gen'] = "start" /\ \A m \in Monitors \ {gen'} : mpc'[m] = mpc[m]
      BY <1>0, <3>1, <3>3
    <3> QED
      BY <1>0, <3>1, <3>3, <3>4 DEF Monitored, SelectsOwn, StaysMonitored
  <2> QED BY <2>1, <2>2
<1>5. ASSUME NEW l \in Listeners,
             AddEventListener(l) \/ RemoveEventListener(l)
             \/ (CallerStep(l) /\ ~enableEventMonitoring(l))
      PROVE  Monitored'
  BY <1>1, <1>5 DEF AddEventListener, RemoveEventListener, CallerStep, addListener, removeListener,
     listenersCount, CallerDisables, CallerBlocks, CloseListeners, StopMonitoring,
     state, monitor, captured
<1>6. ASSUME NEW m \in Monitors,
             MonitorStart(m) \/ CaptureChannels(m) \/ LoadLastSeen(m) \/ DialFails(m)
             \/ DialSucceeds(m) \/ ReceiveError(m) \/ SelectTimesOut(m) \/ updateLastSeen(m)
             \/ SendBegins(m) \/ SendEnds(m)
      PROVE  Monitored'
  <2>1. /\ UNCHANGED <<gen, enabled>> /\ \A n \in Monitors \ {m} : mgen'[n] = mgen[n]
        /\ \E label \in {"start", "disable", "connect", "load", "dial", "loop", "send", "sending"} :
             mpc' = [mpc EXCEPT ![m] = label]
    BY <1>0, <1>6 DEF MonitorStart, CaptureChannels, LoadLastSeen, DialFails, DialSucceeds,
       ReceiveError, SelectTimesOut, updateLastSeen, SendBegins, SendEnds, MonitorGoto,
       state, captured
  <2> QED BY <1>2, <2>1
<1>7. ASSUME NEW m \in Monitors, MonitorDisables(m) PROVE Monitored'
  BY <1>2, <1>3, <1>7 DEF MonitorDisables, CloseListeners, StopMonitoring, MonitorGoto, captured
<1>8. ASSUME NEW m \in Monitors, MonitorLoop(m) PROVE Monitored'
  BY <1>2, <1>3, <1>8 DEF MonitorLoop, MonitorGoto, state, captured
<1>9. ASSUME NEW m \in Monitors, ReadC(m) \/ ReadErrC(m) PROVE Monitored'
  <2>1. /\ UNCHANGED <<gen, enabled>> /\ \A n \in Monitors \ {m} : mgen'[n] = mgen[n]
        /\ mpc[m] # "off"
        /\ \/ mgen'[m] = gen
           \/ mpc[m] = "readErrC" /\ mgen'[m] = mgen[m]
        /\ mpc' = [mpc EXCEPT ![m] = "readErrC"] \/ mpc' = [mpc EXCEPT ![m] = "select"]
    BY <1>0, <1>9 DEF ReadC, ReadErrC, MonitorGoto, state
  <2>2. m \in Nat /\ m <= gen /\ mgen[m] \in Nat
    BY <1>0, <2>1
  <2>3. m <= mgen'[m] /\ mgen'[m] <= gen
    BY <1>0, <2>1, <2>2 DEF Monitored, SelectsOwn
  <2>4. \A n \in Monitors \ {m} : mpc'[n] = mpc[n]
    BY <1>0, <2>1
  <2>5. SelectsOwn'
    BY <2>1, <2>3, <2>4 DEF Monitored, SelectsOwn
  <2>6. mpc'[m] # "off"
    BY <1>0, <2>1
  <2> QED BY <2>1, <2>4, <2>5, <2>6 DEF Monitored, StaysMonitored
<1>10. ASSUME NEW m \in Monitors, ReceiveEvent(m) PROVE Monitored'
  <2>1. CASE C[mgen[m]] # <<>>
    BY <1>2, <1>10, <2>1 DEF ReceiveEvent, MonitorGoto, captured
  <2>2. CASE C[mgen[m]] = <<>>
    <3>1. mpc[m] = "select" /\ mgen[m] \in chClosed /\ mpc' = [mpc EXCEPT ![m] = "off"]
          /\ UNCHANGED <<gen, enabled, mgen>>
      BY <1>10, <2>2 DEF ReceiveEvent, MonitorGoto, captured
    <3>2. enabled => m # gen
      BY <1>0, <3>1 DEF Monitored, SelectsOwn, IInv, Generations
    <3> QED BY <1>0, <1>3, <3>1, <3>2
  <2> QED BY <2>1, <2>2
<1>11. ASSUME NEW m \in Monitors, MonitorBlocks(m) PROVE Monitored'
  BY <1>1, <1>11 DEF MonitorBlocks, state, monitor, captured
<1>12. ASSUME NEW r \in Readers, ReaderStep(r) \/ DecodeEOF(r) \/ DecodeFails(r) PROVE Monitored'
  BY <1>1, <1>12 DEF ReaderStep, DecodeEvent, DecodeEOF, DecodeFails, SendError, ReaderChecks,
     ReaderSends, state, monitor, captured
<1>13. CASE DaemonEmits \/ UNCHANGED vars
  BY <1>1, <1>13 DEF DaemonEmits, vars, state, monitor, captured
<1> QED
  BY <1>4, <1>5, <1>6, <1>7, <1>8, <1>9, <1>10, <1>11, <1>12, <1>13
     DEF Next, MonitorStep, DialStep, CallerStep

\* While monitoring is enabled, the monitor of the current generation runs, whatever
\* monitors of earlier generations, disables and closed channels there are.
THEOREM NeverUnmonitored == Spec => []StaysMonitored
<1>1. Monitored => StaysMonitored
  BY DEF Monitored
<1>2. IInv /\ Monitored /\ [Next]_vars => Monitored'
  BY MonitoredStep
<1> QED
  BY <1>1, <1>2, MonitoredInit, Inductive, PTL DEF Spec

-----------------------------------------------------------------------------
(* The order of events in C.                                                   *)

\* r is the one reader that has been connected to the channel of generation g.
FeedsAlone(r, g) ==
  r <= dials /\ rgen[r] = g /\ \A q \in Readers : q <= dials /\ rgen[q] = g => q = r

Ordered(s) ==
  \A i, j \in 1 .. Len(s) : i < j => s[i] # EOFEvent /\ (s[i] < s[j] \/ s[j] = EOFEvent)

\* What such a reader has sent is in order, the EOF event is the last that it
\* sends, and the next event is later than those that it has sent.
SentInOrder(r, s) ==
  /\ Ordered(s)
  /\ rpc[r] # "off" => \A i \in 1 .. Len(s) : s[i] # EOFEvent
  /\ rpc[r] # "off" /\ (rpc[r] = "sending" => rnext[r] # EOFEvent) =>
       rnext[r] # EOFEvent /\ \A i \in 1 .. Len(s) : s[i] < rnext[r]

FedInOrder ==
  /\ \A r \in Readers : r > dials => rpc[r] = "off"
  /\ \A g \in Gens : (\A r \in Readers : r <= dials => rgen[r] # g) => C[g] = <<>>
  /\ \A g \in Gens : \A r \in Readers : FeedsAlone(r, g) => SentInOrder(r, C[g])

\* What feeds a channel: a step that changes none of this keeps the order.
feeding == <<C, rpc, rgen, rnext, dials>>

LEMMA EventsAreNat == \A s \in Seq(Events) : \A i \in 1 .. Len(s) : s[i] \in Nat
<1> TAKE s \in Seq(Events)
<1> TAKE i \in 1 .. Len(s)
<1>1. s[i] \in Events BY ElementOfSeq
<1> QED BY <1>1, Bounds DEF Events

\* Events taken from the front of a channel leave the others in order.
LEMMA SentTail ==
  ASSUME NEW r \in Readers, NEW s \in Seq(Events), s # <<>>, SentInOrder(r, s)
  PROVE  SentInOrder(r, Tail(s))
<1>1. /\ Len(s) \in Nat /\ Len(Tail(s)) = Len(s) - 1
      /\ \A i \in 1 .. Len(Tail(s)) : Tail(s)[i] = s[i + 1] /\ i + 1 \in 1 .. Len(s)
  BY HeadTailProperties
<1> QED BY <1>1 DEF SentInOrder, Ordered

\* The same reader goes on without sending.
LEMMA SentStays ==
  ASSUME NEW r \in Readers, NEW s \in Seq(Events), SentInOrder(r, s),
         \/ rpc'[r] = rpc[r] /\ rnext'[r] = rnext[r]
         \/ rpc'[r] = "off"
         \/ /\ rpc[r] \notin {"off", "sending"} /\ rpc'[r] \notin {"off", "sending"}
            /\ rnext'[r] = rnext[r]
  PROVE  SentInOrder(r, s)'
BY DEF SentInOrder, Ordered

\* Only steps of readers, dials and receives change what feeds a channel.
LEMMA FeedingSteps ==
  ASSUME Next
  PROVE  \/ UNCHANGED feeding
         \/ \E m \in Monitors : ReceiveEvent(m) \/ DialSucceeds(m)
         \/ \E r \in Readers : DecodeEvent(r) \/ DecodeEOF(r) \/ DecodeFails(r) \/ SendError(r)
                               \/ ReaderChecks(r) \/ ReaderSends(r)
<1> USE DEF feeding, state, captured, monitor, reader, bounds
<1>1. ASSUME NEW l \in Listeners, AddEventListener(l) \/ RemoveEventListener(l) \/ CallerStep(l)
      PROVE  UNCHANGED feeding
  BY <1>1 DEF AddEventListener, RemoveEventListener, CallerStep, enableEventMonitoring, addListener,
     removeListener, listenersCount, CallerDisables, CallerBlocks, CloseListeners, StopMonitoring
<1>2. ASSUME NEW m \in Monitors, MonitorStep(m) \/ DialStep(m), ~ReceiveEvent(m), ~DialSucceeds(m)
      PROVE  UNCHANGED feeding
  BY <1>2 DEF MonitorStep, DialStep, MonitorStart, MonitorDisables, CaptureChannels, LoadLastSeen, DialFails,
     MonitorLoop, ReadC, ReadErrC, ReceiveError, SelectTimesOut, updateLastSeen, SendBegins, SendEnds,
     MonitorBlocks, CloseListeners, StopMonitoring
<1>3. CASE DaemonEmits BY <1>3 DEF DaemonEmits
<1> QED BY <1>1, <1>2, <1>3 DEF Next, ReaderStep

LEMMA FedInOrderInit == Init => FedInOrder
BY DEF Init, FedInOrder, FeedsAlone, SentInOrder, Ordered, Readers

LEMMA FedInOrderStep ==
  ASSUME IInv, FedInOrder, [Next]_vars
  PROVE  FedInOrder'
<1>0. /\ C \in [Gens -> Seq(Events)] /\ rgen \in [Readers -> Gens] /\ rnext \in [Readers -> Nat]
      /\ DOMAIN rpc = Readers /\ dials \in Nat
      /\ mgen \in [Monitors -> Gens] /\ since \in [Monitors -> Events] /\ clock \in Events
  BY Bounds DEF IInv, Types, SharedTypes, MonitorTypes, ReaderTypes, BoundTypes
<1>1. CASE UNCHANGED feeding
  BY <1>1 DEF feeding, FedInOrder, FeedsAlone, SentInOrder, Ordered
<1>2. ASSUME NEW m \in Monitors, ReceiveEvent(m) PROVE FedInOrder'
  <2>1. UNCHANGED <<rpc, rgen, rnext, dials>> BY <1>2 DEF ReceiveEvent, reader, bounds
  <2>2. ASSUME NEW g \in Gens PROVE C'[g] = C[g] \/ (C[g] # <<>> /\ C'[g] = Tail(C[g]))
    BY <1>0, <1>2 DEF ReceiveEvent
  <2>3. ASSUME NEW g \in Gens, NEW r \in Readers, FeedsAlone(r, g) PROVE SentInOrder(r, C'[g])
    <3>1. SentInOrder(r, C[g]) /\ C[g] \in Seq(Events) BY <1>0, <2>3 DEF FedInOrder
    <3> QED BY <2>2, <3>1, SentTail
  <2>4. \A g \in Gens : C[g] = <<>> => C'[g] = <<>> BY <2>2
  <2>5. \A g \in Gens : \A r \in Readers : FeedsAlone(r, g)' <=> FeedsAlone(r, g)
    BY <2>1 DEF FeedsAlone
  <2>6. \A g \in Gens : \A r \in Readers : SentInOrder(r, C'[g]) => SentInOrder(r, C[g])'
    BY <2>1 DEF SentInOrder, Ordered
  <2> QED BY <2>1, <2>3, <2>4, <2>5, <2>6 DEF FedInOrder
<1>3. ASSUME NEW m \in Monitors, DialSucceeds(m) PROVE FedInOrder'
  <2> DEFINE q == dials + 1
  <2>1. /\ q \in Readers /\ dials' = q /\ C' = C
        /\ rpc' = [rpc EXCEPT ![q] = "decode"] /\ rgen' = [rgen EXCEPT ![q] = mgen[m]]
        /\ rnext' = [rnext EXCEPT ![q] = IF since[m] = 0 THEN clock + 1 ELSE since[m]]
    BY <1>0, <1>3, Bounds DEF DialSucceeds, state, Readers
  <2>2. /\ rpc'[q] = "decode" /\ rgen'[q] = mgen[m] /\ rnext'[q] # EOFEvent
        /\ \A r \in Readers : r # q => rpc'[r] = rpc[r] /\ rgen'[r] = rgen[r] /\ rnext'[r] = rnext[r]
    BY <1>0, <2>1 DEF Events, EOFEvent
  <2>3. \A r \in Readers : r <= q <=> r <= dials \/ r = q
    BY <1>0 DEF Readers
  <2>4. \A r \in Readers : r > q => r > dials /\ r # q
    BY <1>0 DEF Readers
  <2>5. \A r \in Readers : r > dials' => rpc'[r] = "off"
    BY <2>1, <2>2, <2>4 DEF FedInOrder
  <2>6. ~(q <= dials) BY <1>0
  <2>7. ASSUME NEW g \in Gens, \A r \in Readers : r <= dials' => rgen'[r] # g PROVE C'[g] = <<>>
    <3>1. \A r \in Readers : r <= dials => rgen[r] # g
      BY <2>1, <2>2, <2>3, <2>6, <2>7
    <3> QED BY <2>1, <3>1 DEF FedInOrder
  <2>8. ASSUME NEW g \in Gens, NEW r \in Readers, FeedsAlone(r, g)' PROVE SentInOrder(r, C[g])'
    <3>1. /\ r <= q /\ rgen'[r] = g
          /\ \A p \in Readers : p <= q /\ rgen'[p] = g => p = r
      BY <2>1, <2>8 DEF FeedsAlone
    <3>2. CASE r = q
      <4>1. \A p \in Readers : p <= dials => rgen[p] # g
        BY <2>2, <2>3, <2>6, <3>1, <3>2
      <4>2. C'[g] = <<>> BY <2>1, <4>1 DEF FedInOrder
      <4>3. rnext'[r] # EOFEvent BY <2>2, <3>2
      <4> QED BY <4>2, <4>3 DEF SentInOrder, Ordered
    <3>3. CASE r # q
      <4>1. FeedsAlone(r, g)
        BY <2>2, <2>3, <2>6, <3>1, <3>3 DEF FeedsAlone
      <4>2. SentInOrder(r, C[g]) /\ C[g] \in Seq(Events) BY <1>0, <4>1 DEF FedInOrder
      <4>3. SentInOrder(r, C[g])' <=> SentInOrder(r, C[g])
        BY <2>1, <2>2, <3>3 DEF SentInOrder, Ordered
      <4> QED BY <4>2, <4>3
    <3> QED BY <3>2, <3>3
  <2> QED BY <2>5, <2>7, <2>8 DEF FedInOrder
<1>4. ASSUME NEW q \in Readers, UNCHANGED <<C, rgen, dials>>, rpc[q] # "off",
             \A r \in Readers : r # q => rpc'[r] = rpc[r] /\ rnext'[r] = rnext[r],
             \/ rpc'[q] = "off"
             \/ /\ rpc[q] \notin {"off", "sending"} /\ rpc'[q] \notin {"off", "sending"}
                /\ rnext'[q] \in {rnext[q], rnext[q] + 1}
             \/ /\ rpc[q] \notin {"off", "sending"} /\ rpc'[q] = "sending"
                /\ rnext'[q] \in {rnext[q], EOFEvent}
             \/ /\ rpc[q] = "sending" /\ rnext[q] # EOFEvent /\ rpc'[q] = "decode"
                /\ rnext'[q] = rnext[q] + 1
      PROVE  FedInOrder'
  <2>1. \A r \in Readers : r > dials' => rpc'[r] = "off"
    BY <1>4 DEF FedInOrder
  <2>2. \A g \in Gens : (\A r \in Readers : r <= dials' => rgen'[r] # g) => C'[g] = <<>>
    BY <1>4 DEF FedInOrder
  <2>3. ASSUME NEW g \in Gens, NEW r \in Readers, FeedsAlone(r, g)' PROVE SentInOrder(r, C[g])'
    <3>1. FeedsAlone(r, g) BY <1>4, <2>3 DEF FeedsAlone
    <3>2. SentInOrder(r, C[g]) /\ C[g] \in Seq(Events) BY <1>0, <3>1 DEF FedInOrder
    <3>3. Ordered(C[g])' BY <1>4, <3>2 DEF SentInOrder, Ordered
    <3>4. CASE r # q BY <1>4, <3>2, <3>3, <3>4 DEF SentInOrder
    <3>5. CASE r = q
      <4> DEFINE s == C[g]
      <4>1. s' = s BY <1>4
      <4>2. \A i \in 1 .. Len(s) : s[i] \in Nat
        BY <3>2, EventsAreNat
      <4>3. \A i \in 1 .. Len(s) : s[i] # EOFEvent BY <1>4, <3>2, <3>5 DEF SentInOrder
      <4>4. ASSUME rpc'[q] # "off", rpc'[q] = "sending" => rnext'[q] # EOFEvent
            PROVE  rnext'[q] # EOFEvent /\ \A i \in 1 .. Len(s) : s[i] < rnext'[q]
        <5>1. rnext[q] # EOFEvent /\ \A i \in 1 .. Len(s) : s[i] < rnext[q]
          BY <1>4, <3>2, <3>5, <4>4 DEF SentInOrder
        <5>2. rnext[q] \in Nat /\ rnext'[q] \in {rnext[q], rnext[q] + 1}
          BY <1>0, <1>4, <4>4
        <5> QED BY <4>2, <5>1, <5>2 DEF EOFEvent
      <4> HIDE DEF s
      <4> QED BY <3>3, <3>5, <4>1, <4>3, <4>4 DEF SentInOrder, s
    <3> QED BY <3>4, <3>5
  <2> QED BY <2>1, <2>2, <2>3 DEF FedInOrder
<1>5. ASSUME NEW r \in Readers, DecodeEvent(r) \/ DecodeEOF(r) \/ DecodeFails(r) \/ SendError(r)
      PROVE  FedInOrder'
  <2>1. /\ UNCHANGED <<C, rgen, rnext, dials>> /\ rpc[r] \notin {"off", "sending"}
        /\ \E p \in {"event", "eof", "error", "decode"} : rpc' = [rpc EXCEPT ![r] = p]
    BY <1>5 DEF DecodeEvent, DecodeEOF, DecodeFails, SendError, ReaderGoto, state, bounds
  <2> QED BY <1>0, <1>4, <2>1
<1>6. ASSUME NEW r \in Readers, ReaderChecks(r) PROVE FedInOrder'
  <2>1. /\ UNCHANGED <<C, rgen, dials>> /\ rpc[r] \in {"event", "eof"}
        /\ \A q \in Readers : q # r => rpc'[q] = rpc[q] /\ rnext'[q] = rnext[q]
    BY <1>0, <1>6 DEF ReaderChecks, ReaderGoto, state, bounds
  <2>2. \/ rpc'[r] = "off"
        \/ rpc'[r] = "sending" /\ rnext'[r] \in {rnext[r], EOFEvent}
        \/ rpc'[r] = "decode" /\ rnext'[r] = rnext[r] + 1
    BY <1>0, <1>6 DEF ReaderChecks, ReaderGoto
  <2> QED BY <1>4, <2>1, <2>2
<1>7. ASSUME NEW q \in Readers, ReaderSends(q) PROVE FedInOrder'
  <2>1. /\ UNCHANGED <<rgen, dials>> /\ rpc[q] = "sending"
        /\ \A r \in Readers : r # q => rpc'[r] = rpc[r] /\ rnext'[r] = rnext[r]
        /\ IF rnext[q] = EOFEvent THEN rpc'[q] = "off"
           ELSE rpc'[q] = "decode" /\ rnext'[q] = rnext[q] + 1
    BY <1>0, <1>7 DEF ReaderSends, ReaderGoto, bounds
  <2>2. CASE C' = C
    BY <1>4, <2>1, <2>2
  <2>3. CASE C' = [C EXCEPT ![rgen[q]] = Append(@, rnext[q])]
    <3> DEFINE k == rgen[q]
    <3>1. rnext[q] \in Events
      BY <2>1 DEF IInv, EventsEmitted
    <3>2. q <= dials
      BY <1>0, <2>1 DEF FedInOrder, Readers
    <3>3. \A r \in Readers : r > dials' => rpc'[r] = "off"
      BY <1>0, <2>1, <3>2 DEF FedInOrder, Readers
    <3>4. \A g \in Gens : g # k => C'[g] = C[g]
      BY <1>0, <2>3
    <3>5. C'[k] = Append(C[k], rnext[q]) /\ C[k] \in Seq(Events) /\ k \in Gens
      BY <1>0, <2>3
    <3>6. \A g \in Gens : (\A r \in Readers : r <= dials' => rgen'[r] # g) => C'[g] = <<>>
      BY <2>1, <3>2, <3>4 DEF FedInOrder
    <3>7. ASSUME NEW g \in Gens, NEW r \in Readers, FeedsAlone(r, g)' PROVE SentInOrder(r, C[g])'
      <4>1. FeedsAlone(r, g) BY <2>1, <3>7 DEF FeedsAlone
      <4>2. SentInOrder(r, C[g]) /\ C[g] \in Seq(Events) BY <1>0, <4>1 DEF FedInOrder
      <4>3. g = k <=> r = q BY <2>1, <3>2, <4>1 DEF FeedsAlone
      <4>4. CASE r # q
        <5>1. C'[g] = C[g] BY <3>4, <4>3, <4>4
        <5> QED BY <2>1, <4>2, <4>4, <5>1 DEF SentInOrder, Ordered
      <4>5. CASE r = q
        <5> DEFINE s == C[k]
                   n == rnext[q]
        <5>1. /\ s \in Seq(Events) /\ n \in Events /\ Len(s) \in Nat
              /\ Len(Append(s, n)) = Len(s) + 1 /\ Append(s, n)[Len(s) + 1] = n
              /\ \A i \in 1 .. Len(s) : Append(s, n)[i] = s[i]
          BY <3>1, <3>5, AppendProperties
        <5>2. \A i \in 1 .. Len(s) : s[i] \in Nat /\ s[i] # EOFEvent
          BY <2>1, <4>2, <4>3, <4>5, <5>1, EventsAreNat DEF SentInOrder
        <5>3. n # EOFEvent => \A i \in 1 .. Len(s) : s[i] < n
          BY <2>1, <4>2, <4>3, <4>5 DEF SentInOrder
        <5>4. Ordered(s)
          BY <4>2, <4>3, <4>5 DEF SentInOrder
        <5>5. n \in Nat BY <5>1 DEF Events
        <5> DEFINE t == Append(s, n)
        <5>6. C'[g] = t BY <3>5, <4>3, <4>5
        <5> HIDE DEF s, n
        <5>7. \A i \in 1 .. Len(t) : i \in 1 .. Len(s) \/ (i = Len(s) + 1 /\ t[i] = n)
          BY <5>1
        <5>8. Ordered(t)
          <6> SUFFICES ASSUME NEW i \in 1 .. Len(t), NEW j \in 1 .. Len(t), i < j
                       PROVE  t[i] # EOFEvent /\ (t[i] < t[j] \/ t[j] = EOFEvent)
            BY DEF Ordered
          <6>1. i \in 1 .. Len(s) /\ t[i] = s[i]
            BY <5>1
          <6>2. CASE j \in 1 .. Len(s)
            BY <5>1, <5>2, <5>4, <6>1, <6>2 DEF Ordered
          <6>3. CASE j = Len(s) + 1
            BY <5>1, <5>2, <5>3, <6>1, <6>3
          <6> QED BY <5>7, <6>2, <6>3
        <5>9. n # EOFEvent => \A i \in 1 .. Len(t) : t[i] # EOFEvent /\ t[i] < n + 1
          <6> SUFFICES ASSUME n # EOFEvent, NEW i \in 1 .. Len(t) PROVE t[i] # EOFEvent /\ t[i] < n + 1
            OBVIOUS
          <6>1. CASE i \in 1 .. Len(s)
            BY <5>1, <5>2, <5>3, <5>5, <6>1
          <6>2. CASE i = Len(s) + 1 /\ t[i] = n
            BY <5>5, <6>2
          <6> QED BY <5>7, <6>1, <6>2
        <5>10. n # EOFEvent => n + 1 # EOFEvent BY <5>5 DEF EOFEvent
        <5> HIDE DEF t
        <5>11. Ordered(C[g])' BY <5>6, <5>8 DEF Ordered
        <5>12. IF n = EOFEvent THEN rpc'[r] = "off" ELSE rpc'[r] = "decode" /\ rnext'[r] = n + 1
          BY <2>1, <4>5 DEF n
        <5> QED BY <5>6, <5>9, <5>10, <5>11, <5>12 DEF SentInOrder
      <4> QED BY <4>4, <4>5
    <3> QED BY <3>3, <3>6, <3>7 DEF FedInOrder
  <2> QED BY <1>7, <2>2, <2>3 DEF ReaderSends
<1>8. CASE Next
  BY <1>1, <1>2, <1>3, <1>5, <1>6, <1>7, <1>8, FeedingSteps
<1>9. CASE UNCHANGED vars
  BY <1>1, <1>9 DEF vars, state, reader, bounds, feeding
<1> QED BY <1>8, <1>9

\* C holds a connection's events in the order in which the daemon emitted them,
\* each once, and the EOF event last.
THEOREM EventsInOrder == Spec => []InOrder
<1>1. IInv /\ FedInOrder => InOrder
  <2> SUFFICES ASSUME IInv, FedInOrder, NEW g \in Gens,
                      Cardinality({r \in Readers : r <= dials /\ rgen[r] = g}) = 1
               PROVE  Ordered(C[g])
    BY DEF InOrder, Ordered
  <2> DEFINE F == {r \in Readers : r <= dials /\ rgen[r] = g}
  <2>1. IsFiniteSet(F)
    <3>1. IsFiniteSet(Readers) BY Bounds, FS_Interval DEF Readers
    <3> QED BY <3>1, FS_Subset
  <2>2. PICK r : F = {r} BY <2>1, FS_Singleton
  <2>3. r \in Readers /\ FeedsAlone(r, g) BY <2>2 DEF FeedsAlone
  <2> QED BY <2>3 DEF FedInOrder, SentInOrder
<1>2. IInv /\ FedInOrder /\ [Next]_vars => FedInOrder'
  BY FedInOrderStep
<1> QED BY <1>1, <1>2, FedInOrderInit, Inductive, PTL DEF Spec

=============================================================================
