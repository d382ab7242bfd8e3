---------------------------- MODULE EventMonitor ----------------------------
(***************************************************************************)
(* The event monitor of the Docker client (docker/event.go): callers that  *)
(* add and remove listener channels, the monitorEvents goroutine that fans *)
(* events out, and the eventHijack goroutines that read the daemon's       *)
(* /events stream, all sharing one eventMonitoringState.                   *)
(*                                                                         *)
(* A critical section that cannot block is one action.  Three sections can *)
(* block with the lock held, and are split there: the reader's send to C,  *)
(* sendEvent, and the wg.Wait() of disableEventMonitoring.  Who holds the  *)
(* RWMutex is therefore read off the program counters; who waits for it in *)
(* Lock() is the variable "pending", because in Go a waiting writer keeps  *)
(* every new reader out.                                                   *)
(***************************************************************************)
EXTENDS Integers, Sequences, FiniteSets

CONSTANTS
  Listeners,   \* listener channels, each used by one caller goroutine
  CapC,        \* capacity of eventState.C (100 in the code)
  MaxRetries,  \* maxMonitorConnRetries (5 in the code)
  MaxAdds,     \* bound: calls of AddEventListener
  MaxTime,     \* bound: events the daemon emits
  MaxBoth,     \* bound: those calls and events together
  MaxErrs,     \* bound: decode errors the readers meet
  Readd        \* whether a caller may add a channel that is already a listener

ASSUME Bounds ==
  /\ IsFiniteSet(Listeners)
  /\ Listeners \cap Nat = {}
  /\ CapC \in Nat \ {0}
  /\ MaxRetries \in Nat
  /\ MaxAdds \in Nat
  /\ MaxTime \in Nat
  /\ MaxErrs \in Nat
  /\ MaxBoth \in Nat
  /\ Readd \in BOOLEAN

Gens     == 0 .. MaxAdds              \* generations of the channels C and errC
Monitors == 1 .. MaxAdds              \* the monitor that generation m started
Readers  == 1 .. (MaxAdds + MaxErrs)  \* eventHijack goroutines, in spawn order

EOFEvent == 0                         \* what a reader sends when the stream ends
Events   == 0 .. MaxTime              \* an event is its Time

VARIABLES
  enabled, gen, listeners, wg, lastSeen,  \* eventMonitoringState
  C, errC,      \* buffers of the channels of each generation
  chClosed,     \* generations whose C and errC have been closed
  closed,       \* listener channels that have been closed
  pending,      \* goroutines blocked in Lock()
  upc,          \* callers
  mpc,          \* monitors
  mgen, merr,   \* the C and the errC a monitor has read
  since, hold, tries,      \* its start time, event in hand and failed dials
  rpc, rgen, rnext,        \* readers: channels captured, Time of the next event
  clock, adds, errs, dials,
  readded,      \* listener channels that were added while they were registered
  panic

state   == <<enabled, gen, listeners, wg, lastSeen, C, errC, chClosed, closed>>
captured == <<mgen, merr, since>>
monitor == <<mpc, captured, hold, tries>>
reader  == <<rpc, rgen, rnext>>
bounds  == <<clock, adds, errs, dials, readded>>
vars    == <<state, pending, upc, monitor, reader, bounds, panic>>

Init ==
  /\ enabled = FALSE /\ gen = 0 /\ listeners = {} /\ wg = 0 /\ lastSeen = 0
  /\ C = [g \in Gens |-> <<>>] /\ errC = [g \in Gens |-> <<>>]
  /\ chClosed = {} /\ closed = {} /\ pending = {}
  /\ upc = [l \in Listeners |-> "idle"]
  /\ mpc = [m \in Monitors |-> "off"] /\ mgen = [m \in Monitors |-> 0]
  /\ merr = [m \in Monitors |-> 0] /\ since = [m \in Monitors |-> 0]
  /\ hold = [m \in Monitors |-> EOFEvent] /\ tries = [m \in Monitors |-> 0]
  /\ rpc = [r \in Readers |-> "off"] /\ rgen = [r \in Readers |-> 0]
  /\ rnext = [r \in Readers |-> 0]
  /\ clock = 0 /\ adds = 0 /\ errs = 0 /\ dials = 0 /\ readded = {} /\ panic = "none"

WithinBoth == clock + adds < MaxBoth

-----------------------------------------------------------------------------
(* The RWMutex embedded in eventMonitoringState.                           *)

ReadLocked ==
  \/ \E m \in Monitors : mpc[m] = "sending"
  \/ \E r \in Readers : rpc[r] = "sending"

WriteLocked ==
  \/ \E l \in Listeners : upc[l] = "waitwg"
  \/ \E m \in Monitors : mpc[m] = "waitwg"

CanRLock == ~WriteLocked /\ pending = {}

Lock(p) == /\ ~WriteLocked /\ ~ReadLocked
           /\ pending' = pending \ {p}

Busy == ReadLocked \/ WriteLocked

\* A goroutine that reaches Lock() while the lock is taken queues up, and from
\* then on RLock() blocks too.
CallerBlocks(l) ==
  /\ Busy
  /\ upc[l] \in {"enable", "addListener", "removeListener", "disable"}
  /\ l \notin pending
  /\ pending' = pending \cup {l}
  /\ UNCHANGED <<state, upc, monitor, reader, bounds, panic>>

MonitorBlocks(m) ==
  /\ Busy
  /\ mpc[m] \in {"updateLastSeen", "disable"}
  /\ m \notin pending
  /\ pending' = pending \cup {m}
  /\ UNCHANGED <<state, upc, monitor, reader, bounds, panic>>

-----------------------------------------------------------------------------
(* disableEventMonitoring, called by callers and by monitors.              *)

\* A bug closeListeners does not have: it leaves the counts as they are.
CloseListenersKeepsCount(p) ==
  /\ Lock(p)
  /\ closed' = closed \cup listeners
  /\ listeners' = {}
  /\ UNCHANGED <<enabled, gen, wg, lastSeen, C, errC, chClosed, panic>>

\* A bug closeListeners does not have: it keeps the list of listeners.
CloseListenersKeepsList(p) ==
  /\ Lock(p)
  /\ closed' = closed \cup listeners
  /\ wg' = wg - Cardinality(listeners)
  /\ UNCHANGED <<enabled, gen, listeners, lastSeen, C, errC, chClosed, panic>>

\* Lock(); closeListeners().  The lock stays held while Wait() blocks.
CloseListeners(p) ==
  /\ Lock(p)
  /\ panic' = IF listeners \cap closed # {} THEN "listener" ELSE panic
  /\ closed' = closed \cup listeners
  /\ wg' = wg - Cardinality(listeners)
  /\ listeners' = {}
  /\ UNCHANGED <<enabled, gen, lastSeen, C, errC, chClosed>>

\* A bug disableEventMonitoring does not have: it does not test enabled.
StopMonitoringAgain ==
  /\ wg = 0
  /\ enabled' = FALSE
  /\ panic' = IF gen \in chClosed THEN "C" ELSE panic
  /\ chClosed' = chClosed \cup {gen}
  /\ UNCHANGED <<gen, listeners, wg, lastSeen, C, errC, closed, pending>>

\* Wait() has returned: close both channels of the generation and unlock.
StopMonitoring ==
  /\ wg = 0
  /\ enabled' = FALSE
  /\ IF enabled
       THEN /\ panic' = IF gen \in chClosed THEN "C" ELSE panic
            /\ chClosed' = chClosed \cup {gen}
       ELSE UNCHANGED <<panic, chClosed>>
  /\ UNCHANGED <<gen, listeners, wg, lastSeen, C, errC, closed, pending>>

-----------------------------------------------------------------------------
(* Callers: AddEventListener and RemoveEventListener.                      *)

\* AddEventListener reads enabled, then acts on what it read.  A caller whose
\* channel was closed comes with a new one (so "closed" forgets the old one).
AddEventListener(l) ==
  /\ \/ upc[l] = "idle"
     \/ upc[l] = "added" /\ (l \in closed \/ Readd)
  /\ adds < MaxAdds /\ WithinBoth
  /\ CanRLock
  /\ adds' = adds + 1
  /\ readded' = IF upc[l] = "added" /\ l \notin closed THEN readded \cup {l} ELSE readded
  /\ closed' = closed \ {l}
  /\ upc' = [upc EXCEPT ![l] = IF enabled THEN "addListener" ELSE "enable"]
  /\ UNCHANGED <<enabled, gen, listeners, wg, lastSeen, C, errC, chClosed>>
  /\ UNCHANGED <<pending, monitor, reader, clock, errs, dials, panic>>

\* A bug enableEventMonitoring does not have: a monitor that still runs is taken
\* for the new generation's.
enableWithOldMonitor(l) ==
  /\ upc[l] = "enable"
  /\ Lock(l)
  /\ upc' = [upc EXCEPT ![l] = "addListener"]
  /\ IF enabled
       THEN UNCHANGED <<enabled, lastSeen, gen, mpc>>
       ELSE /\ enabled' = TRUE
            /\ lastSeen' = 0
            /\ gen' = gen + 1
            /\ mpc' = IF \A m \in Monitors : mpc[m] = "off"
                      THEN [mpc EXCEPT ![gen + 1] = "start"] ELSE mpc
  /\ UNCHANGED <<listeners, wg, C, errC, chClosed, closed>>
  /\ UNCHANGED <<captured, hold, tries, reader, bounds, panic>>

enableEventMonitoring(l) ==
  /\ upc[l] = "enable"
  /\ Lock(l)
  /\ upc' = [upc EXCEPT ![l] = "addListener"]
  /\ IF enabled
       THEN UNCHANGED <<enabled, lastSeen, gen, mpc>>
       ELSE /\ enabled' = TRUE
            /\ lastSeen' = 0
            /\ gen' = gen + 1
            /\ mpc' = [mpc EXCEPT ![gen + 1] = "start"]
  /\ UNCHANGED <<listeners, wg, C, errC, chClosed, closed>>
  /\ UNCHANGED <<captured, hold, tries, reader, bounds, panic>>

\* A bug addListener does not have: it does not test whether the listener exists.
addListenerTwice(l) ==
  /\ upc[l] = "addListener"
  /\ Lock(l)
  /\ upc' = [upc EXCEPT ![l] = "added"]
  /\ listeners' = listeners \cup {l}
  /\ wg' = wg + 1
  /\ UNCHANGED <<enabled, gen, lastSeen, C, errC, chClosed, closed>>
  /\ UNCHANGED <<monitor, reader, bounds, panic>>

addListener(l) ==
  /\ upc[l] = "addListener"
  /\ Lock(l)
  /\ upc' = [upc EXCEPT ![l] = "added"]
  /\ listeners' = listeners \cup {l}
  /\ wg' = IF l \in listeners THEN wg ELSE wg + 1
  /\ UNCHANGED <<enabled, gen, lastSeen, C, errC, chClosed, closed>>
  /\ UNCHANGED <<monitor, reader, bounds, panic>>

RemoveEventListener(l) ==
  /\ upc[l] = "added"
  /\ upc' = [upc EXCEPT ![l] = "removeListener"]
  /\ UNCHANGED <<state, pending, monitor, reader, bounds, panic>>

\* A bug removeListener does not have: it does not test whether the listener exists.
removeListenerTwice(l) ==
  /\ upc[l] = "removeListener"
  /\ Lock(l)
  /\ upc' = [upc EXCEPT ![l] = "count"]
  /\ listeners' = listeners \ {l}
  /\ wg' = wg - 1
  /\ UNCHANGED <<enabled, gen, lastSeen, C, errC, chClosed, closed>>
  /\ UNCHANGED <<monitor, reader, bounds, panic>>

removeListener(l) ==
  /\ upc[l] = "removeListener"
  /\ Lock(l)
  /\ upc' = [upc EXCEPT ![l] = "count"]
  /\ listeners' = listeners \ {l}
  /\ wg' = IF l \in listeners THEN wg - 1 ELSE wg
  /\ UNCHANGED <<enabled, gen, lastSeen, C, errC, chClosed, closed>>
  /\ UNCHANGED <<monitor, reader, bounds, panic>>

listenersCount(l) ==
  /\ upc[l] = "count"
  /\ CanRLock
  /\ upc' = [upc EXCEPT ![l] = IF listeners = {} THEN "disable" ELSE "idle"]
  /\ UNCHANGED <<state, pending, monitor, reader, bounds, panic>>

CallerDisables(l) ==
  \/ /\ upc[l] = "disable"
     /\ CloseListeners(l)
     /\ upc' = [upc EXCEPT ![l] = "waitwg"]
     /\ UNCHANGED <<monitor, reader, bounds>>
  \/ /\ upc[l] = "waitwg"
     /\ StopMonitoring
     /\ upc' = [upc EXCEPT ![l] = "idle"]
     /\ UNCHANGED <<monitor, reader, bounds>>

-----------------------------------------------------------------------------
(* monitorEvents                                                           *)

MonitorGoto(m, label) == mpc' = [mpc EXCEPT ![m] = label]

\* The wait for a first listener ends because there is one, or after five
\* seconds; listeners is read again before the monitor gives up.
MonitorStart(m) ==
  /\ mpc[m] = "start"
  /\ CanRLock
  /\ MonitorGoto(m, IF listeners = {} THEN "disable" ELSE "connect")
  /\ tries' = [tries EXCEPT ![m] = 0]
  /\ UNCHANGED <<state, pending, upc, captured, hold, reader, bounds, panic>>

MonitorDisables(m) ==
  \/ /\ mpc[m] = "disable"
     /\ CloseListeners(m)
     /\ MonitorGoto(m, "waitwg")
     /\ UNCHANGED <<upc, captured, hold, tries, reader, bounds>>
  \/ /\ mpc[m] = "waitwg"
     /\ StopMonitoring
     /\ MonitorGoto(m, "off")
     /\ UNCHANGED <<upc, captured, hold, tries, reader, bounds>>

\* connectWithRetry reads C and errC under the read lock; lastSeen, the start
\* time of the stream, and the dial come after it is released.
CaptureChannels(m) ==
  /\ mpc[m] = "connect"
  /\ CanRLock
  /\ mgen' = [mgen EXCEPT ![m] = gen]
  /\ MonitorGoto(m, "load")
  /\ UNCHANGED <<state, pending, upc, merr, since, hold, tries, reader, bounds, panic>>

LoadLastSeen(m) ==
  /\ mpc[m] = "load"
  /\ since' = [since EXCEPT ![m] = lastSeen]
  /\ MonitorGoto(m, "dial")
  /\ UNCHANGED <<state, pending, upc, mgen, merr, hold, tries, reader, bounds, panic>>

DialFails(m) ==
  /\ mpc[m] = "dial"
  /\ tries' = [tries EXCEPT ![m] = @ + 1]
  /\ MonitorGoto(m, IF tries[m] < MaxRetries THEN "connect" ELSE "disable")
  /\ UNCHANGED <<state, pending, upc, captured, hold, reader, bounds, panic>>

\* eventHijack: the stream starts now, or at the start time when there is one.
DialSucceeds(m) ==
  /\ mpc[m] = "dial"
  /\ dials < MaxAdds + MaxErrs
  /\ dials' = dials + 1
  /\ rpc' = [rpc EXCEPT ![dials + 1] = "decode"]
  /\ rgen' = [rgen EXCEPT ![dials + 1] = mgen[m]]
  /\ rnext' = [rnext EXCEPT ![dials + 1] = IF since[m] = 0 THEN clock + 1 ELSE since[m]]
  /\ MonitorGoto(m, "loop")
  /\ UNCHANGED <<state, pending, upc, captured, hold, tries, clock, adds, errs, readded, panic>>

\* A bug monitorEvents does not have: it loops without isEnabled().
MonitorLoopForever(m) ==
  /\ mpc[m] = "loop"
  /\ CanRLock
  /\ MonitorGoto(m, "readC")
  /\ UNCHANGED <<state, pending, upc, captured, hold, tries, reader, bounds, panic>>

MonitorLoop(m) ==
  /\ mpc[m] = "loop"
  /\ CanRLock
  /\ MonitorGoto(m, IF enabled THEN "readC" ELSE "off")
  /\ UNCHANGED <<state, pending, upc, captured, hold, tries, reader, bounds, panic>>

\* The select evaluates eventState.C, then eventState.errC, with no lock: between
\* isEnabled() and each of them the channels may be closed or replaced.
ReadC(m) ==
  /\ mpc[m] = "readC"
  /\ mgen' = [mgen EXCEPT ![m] = gen]
  /\ MonitorGoto(m, "readErrC")
  /\ UNCHANGED <<state, pending, upc, merr, since, hold, tries, reader, bounds, panic>>

ReadErrC(m) ==
  /\ mpc[m] = "readErrC"
  /\ merr' = [merr EXCEPT ![m] = gen]
  /\ MonitorGoto(m, "select")
  /\ UNCHANGED <<state, pending, upc, mgen, since, hold, tries, reader, bounds, panic>>

\* case ev, ok := <-eventState.C; a closed channel yields its buffer first.
ReceiveEvent(m) ==
  /\ mpc[m] = "select"
  /\ IF C[mgen[m]] # <<>>
       THEN LET ev == Head(C[mgen[m]]) IN
            /\ C' = [C EXCEPT ![mgen[m]] = Tail(@)]
            /\ hold' = [hold EXCEPT ![m] = ev]
            /\ MonitorGoto(m, IF ev = EOFEvent THEN "disable" ELSE "updateLastSeen")
       ELSE /\ mgen[m] \in chClosed
            /\ MonitorGoto(m, "off")
            /\ UNCHANGED <<C, hold>>
  /\ UNCHANGED <<enabled, gen, listeners, wg, lastSeen, errC, chClosed, closed>>
  /\ UNCHANGED <<pending, upc, captured, tries, reader, bounds, panic>>

\* case err = <-eventState.errC; a decode error restarts monitorEvents.
ReceiveError(m) ==
  /\ mpc[m] = "select"
  /\ IF errC[merr[m]] # <<>>
       THEN /\ errC' = [errC EXCEPT ![merr[m]] = Tail(@)]
            /\ MonitorGoto(m, IF Head(errC[merr[m]]) = "ErrNoListeners"
                              THEN "disable" ELSE "start")
       ELSE /\ merr[m] \in chClosed
            /\ MonitorGoto(m, "loop")
            /\ UNCHANGED errC
  /\ UNCHANGED <<enabled, gen, listeners, wg, lastSeen, C, chClosed, closed>>
  /\ UNCHANGED <<pending, upc, captured, hold, tries, reader, bounds, panic>>

SelectTimesOut(m) ==
  /\ mpc[m] = "select"
  /\ C[mgen[m]] = <<>> /\ mgen[m] \notin chClosed
  /\ errC[merr[m]] = <<>> /\ merr[m] \notin chClosed
  /\ MonitorGoto(m, "loop")
  /\ UNCHANGED <<state, pending, upc, captured, hold, tries, reader, bounds, panic>>

updateLastSeen(m) ==
  /\ mpc[m] = "updateLastSeen"
  /\ Lock(m)
  /\ lastSeen' = IF lastSeen < hold[m] THEN hold[m] ELSE lastSeen
  /\ MonitorGoto(m, "send")
  /\ UNCHANGED <<enabled, gen, listeners, wg, C, errC, chClosed, closed>>
  /\ UNCHANGED <<upc, captured, hold, tries, reader, bounds, panic>>

\* sendEvent: RLock() and Add(1), then the body, then Done() and RUnlock().
SendBegins(m) ==
  /\ mpc[m] = "send"
  /\ CanRLock
  /\ wg' = wg + 1
  /\ MonitorGoto(m, "sending")
  /\ UNCHANGED <<enabled, gen, listeners, lastSeen, C, errC, chClosed, closed>>
  /\ UNCHANGED <<pending, upc, captured, hold, tries, reader, bounds, panic>>

\* A bug sendEvent does not have: it never calls Done().
SendEndsWithoutDone(m) ==
  /\ mpc[m] = "sending"
  /\ MonitorGoto(m, "loop")
  /\ IF enabled /\ listeners = {}
       THEN /\ Len(errC[gen]) < 1
            /\ errC' = [errC EXCEPT ![gen] = Append(@, "ErrNoListeners")]
       ELSE UNCHANGED errC
  /\ UNCHANGED <<enabled, gen, listeners, wg, lastSeen, C, chClosed, closed>>
  /\ UNCHANGED <<pending, upc, captured, hold, tries, reader, bounds, panic>>

\* The sends to listeners never block; the send of ErrNoListeners blocks while
\* errC, of capacity one, is full.
SendEnds(m) ==
  /\ mpc[m] = "sending"
  /\ wg' = wg - 1
  /\ MonitorGoto(m, "loop")
  /\ IF enabled /\ listeners = {}
       THEN /\ Len(errC[gen]) < 1
            /\ errC' = [errC EXCEPT ![gen] = Append(@, "ErrNoListeners")]
            /\ panic' = IF gen \in chClosed THEN "C" ELSE panic
       ELSE /\ panic' = IF enabled /\ listeners \cap closed # {} THEN "listener" ELSE panic
            /\ UNCHANGED errC
  /\ UNCHANGED <<enabled, gen, listeners, lastSeen, C, chClosed, closed>>
  /\ UNCHANGED <<pending, upc, captured, hold, tries, reader, bounds>>

-----------------------------------------------------------------------------
(* The goroutine that eventHijack starts.                                  *)

ReaderGoto(r, label) == rpc' = [rpc EXCEPT ![r] = label]

DecodeEvent(r) ==
  /\ rpc[r] = "decode"
  /\ rnext[r] <= clock
  /\ ReaderGoto(r, "event")
  /\ UNCHANGED <<state, pending, upc, monitor, rgen, rnext, bounds, panic>>

DecodeEOF(r) ==
  /\ rpc[r] = "decode"
  /\ ReaderGoto(r, "eof")
  /\ UNCHANGED <<state, pending, upc, monitor, rgen, rnext, bounds, panic>>

DecodeFails(r) ==
  /\ rpc[r] = "decode"
  /\ errs < MaxErrs
  /\ errs' = errs + 1
  /\ ReaderGoto(r, "error")
  /\ UNCHANGED <<state, pending, upc, monitor, rgen, rnext, clock, adds, dials, readded, panic>>

\* errChan <- err, without the lock.  An event of which Time was decoded before
\* the error is then passed on; otherwise the reader decodes again.
SendError(r) ==
  /\ rpc[r] = "error"
  /\ IF rgen[r] \in chClosed
       THEN panic' = "errC" /\ UNCHANGED errC
       ELSE /\ Len(errC[rgen[r]]) < 1
            /\ errC' = [errC EXCEPT ![rgen[r]] = Append(@, "decode")]
            /\ UNCHANGED panic
  /\ \/ ReaderGoto(r, "decode")
     \/ rnext[r] <= clock /\ ReaderGoto(r, "event")
  /\ UNCHANGED <<enabled, gen, listeners, wg, lastSeen, C, chClosed, closed>>
  /\ UNCHANGED <<pending, upc, monitor, rgen, rnext, bounds>>

\* A bug eventHijack does not have: it does not compare the channels.
ReaderChecksEnabled(r) ==
  /\ rpc[r] \in {"event", "eof"}
  /\ CanRLock
  /\ ReaderGoto(r, IF enabled THEN "sending" ELSE "off")
  /\ rnext' = [rnext EXCEPT ![r] = IF rpc[r] = "eof" THEN EOFEvent ELSE @]
  /\ UNCHANGED <<state, pending, upc, monitor, rgen, bounds, panic>>

\* RLock(), then the test that this reader's channel is still the monitor's.
ReaderChecks(r) ==
  /\ rpc[r] \in {"event", "eof"}
  /\ CanRLock
  /\ IF enabled /\ gen = rgen[r]
       THEN /\ ReaderGoto(r, "sending")
            /\ rnext' = [rnext EXCEPT ![r] = IF rpc[r] = "eof" THEN EOFEvent ELSE @]
       ELSE /\ ReaderGoto(r, IF rpc[r] = "eof" THEN "off" ELSE "decode")
            /\ rnext' = [rnext EXCEPT ![r] = IF rpc[r] = "eof" THEN @ ELSE @ + 1]
  /\ UNCHANGED <<state, pending, upc, monitor, rgen, bounds, panic>>

\* A bug eventHijack does not have: the reader goes on after the EOF event.
ReaderSendsOn(r) ==
  /\ rpc[r] = "sending"
  /\ Len(C[rgen[r]]) < CapC
  /\ C' = [C EXCEPT ![rgen[r]] = Append(@, rnext[r])]
  /\ ReaderGoto(r, "decode")
  /\ rnext' = [rnext EXCEPT ![r] = @ + 1]
  /\ UNCHANGED <<enabled, gen, listeners, wg, lastSeen, errC, chClosed, closed>>
  /\ UNCHANGED <<pending, upc, monitor, rgen, bounds, panic>>

\* eventChan <- event, with the read lock held; blocks while C is full.
ReaderSends(r) ==
  /\ rpc[r] = "sending"
  /\ IF rgen[r] \in chClosed
       THEN panic' = "C" /\ UNCHANGED C
       ELSE /\ Len(C[rgen[r]]) < CapC
            /\ C' = [C EXCEPT ![rgen[r]] = Append(@, rnext[r])]
            /\ UNCHANGED panic
  /\ ReaderGoto(r, IF rnext[r] = EOFEvent THEN "off" ELSE "decode")
  /\ rnext' = [rnext EXCEPT ![r] = IF @ = EOFEvent THEN @ ELSE @ + 1]
  /\ UNCHANGED <<enabled, gen, listeners, wg, lastSeen, errC, chClosed, closed>>
  /\ UNCHANGED <<pending, upc, monitor, rgen, bounds>>

\* The daemon emits the next event.
DaemonEmits ==
  /\ clock < MaxTime /\ WithinBoth
  /\ clock' = clock + 1
  /\ UNCHANGED <<state, pending, upc, monitor, reader, adds, errs, dials, readded, panic>>

-----------------------------------------------------------------------------
CallerStep(l) ==
  \/ enableEventMonitoring(l) \/ addListener(l) \/ removeListener(l)
  \/ listenersCount(l) \/ CallerDisables(l) \/ CallerBlocks(l)

MonitorStep(m) ==
  \/ MonitorStart(m) \/ MonitorDisables(m) \/ CaptureChannels(m) \/ LoadLastSeen(m)
  \/ MonitorLoop(m) \/ ReadC(m) \/ ReadErrC(m)
  \/ ReceiveEvent(m) \/ ReceiveError(m) \/ SelectTimesOut(m)
  \/ updateLastSeen(m) \/ SendBegins(m) \/ SendEnds(m) \/ MonitorBlocks(m)

\* A dial waits for the daemon's answer, with no timeout.
DialStep(m) == DialFails(m) \/ DialSucceeds(m)

ReaderStep(r) ==
  DecodeEvent(r) \/ SendError(r) \/ ReaderChecks(r) \/ ReaderSends(r)

\* A panic in any goroutine ends the program.
Alive == panic = "none"

Next ==
  /\ Alive
  /\ \/ \E l \in Listeners : AddEventListener(l) \/ RemoveEventListener(l) \/ CallerStep(l)
     \/ \E m \in Monitors : MonitorStep(m) \/ DialStep(m)
     \/ \E r \in Readers : ReaderStep(r) \/ DecodeEOF(r) \/ DecodeFails(r)
     \/ DaemonEmits

Spec == Init /\ [][Next]_vars

\* Goroutines that can run do run; nobody has to call, and the daemon need not
\* answer a dial, emit an event or end a stream.
FairSpec ==
  /\ Spec
  /\ \A l \in Listeners : WF_vars(Alive /\ CallerStep(l))
  /\ \A m \in Monitors : WF_vars(Alive /\ MonitorStep(m))
  /\ \A r \in Readers : WF_vars(Alive /\ ReaderStep(r))

-----------------------------------------------------------------------------
(* Properties.                                                             *)

Sending == {m \in Monitors : mpc[m] = "sending"}
Writers == {l \in Listeners : upc[l] = "waitwg"} \cup {m \in Monitors : mpc[m] = "waitwg"}

SharedTypes ==
  /\ enabled \in BOOLEAN /\ gen \in Gens /\ listeners \subseteq Listeners
  /\ lastSeen \in Events
  /\ C \in [Gens -> Seq(Events)] /\ errC \in [Gens -> Seq({"decode", "ErrNoListeners"})]
  /\ chClosed \subseteq Gens /\ closed \subseteq Listeners
  /\ pending \subseteq Listeners \cup Monitors
  /\ panic \in {"none", "errC", "C", "listener"}

CallerTypes ==
  upc \in [Listeners -> {"idle", "added", "enable", "addListener", "removeListener",
                         "count", "disable", "waitwg"}]

MonitorTypes ==
  /\ mpc \in [Monitors -> {"off", "start", "disable", "waitwg", "connect", "load", "dial",
                            "loop", "readC", "readErrC", "select", "updateLastSeen",
                            "send", "sending"}]
  /\ mgen \in [Monitors -> Gens] /\ merr \in [Monitors -> Gens]
  /\ since \in [Monitors -> Events]
  /\ hold \in [Monitors -> Events] /\ tries \in [Monitors -> Nat]

ReaderTypes ==
  /\ rpc \in [Readers -> {"off", "decode", "event", "eof", "error", "sending"}]
  /\ rgen \in [Readers -> Gens] /\ rnext \in [Readers -> Nat]

BoundTypes ==
  /\ clock \in Events /\ adds \in 0 .. MaxAdds /\ errs \in 0 .. MaxErrs
  /\ dials \in 0 .. (MaxAdds + MaxErrs) /\ readded \subseteq Listeners

Types == SharedTypes /\ CallerTypes /\ MonitorTypes /\ ReaderTypes /\ BoundTypes

\* Every variable has its type; a WaitGroup that went below zero would panic.
TypeOK == Types /\ wg \in Nat

\* The WaitGroup counts one for every registered listener and one for every
\* event being fanned out: addListener, removeListener, closeListeners and
\* sendEvent keep the balance however they interleave.
WgBalance == wg = Cardinality(listeners) + Cardinality(Sending)

\* disableEventMonitoring holds the lock when it reaches Wait(), and what it
\* would wait for is then over: it never blocks there with the lock held.
NeverWaits == Writers # {} => wg = 0

\* A reader that may be blocked in its send to C holds the read lock, so that
\* the channel it sends to is still open and still the monitor's.
SendsToOpenC ==
  \A r \in Readers : rpc[r] = "sending" => enabled /\ rgen[r] = gen /\ gen \notin chClosed

\* Unless a caller adds one channel twice, the one panic that interleavings of
\* callers, monitors and readers can lead to is the send of a decode error on an
\* errC that disableEventMonitoring has closed: no channel is closed twice, and
\* nothing is sent on a closed C or listener.
PanicsOnlyOnErrC == readded = {} => panic \in {"none", "errC"}

\* Unless its caller added it twice, a channel that was closed is not
\* registered, so that sendEvent and closeListeners may use every listener.
ListenersOpen == listeners \cap closed \subseteq readded

\* While one connection feeds a generation of C, C holds events in the order in
\* which the daemon emitted them, each once, and the EOF event last.
InOrder ==
  \A g \in Gens : Cardinality({r \in Readers : r <= dials /\ rgen[r] = g}) = 1 =>
    \A i, j \in 1 .. Len(C[g]) :
      i < j => C[g][i] # EOFEvent /\ (C[g][i] < C[g][j] \/ C[g][j] = EOFEvent)

\* While monitoring is enabled, the monitor that the current generation started
\* runs: whatever an old monitor, a disable that is under way or the closing of
\* an old generation's channels does, no new generation is left without one.
StaysMonitored == enabled => mpc[gen] # "off"

\* A goroutine waits with the read lock held for room in a channel: a reader for
\* C to be drained, or a monitor for its own errC.
Clogged ==
  \/ \E r \in Readers : rpc[r] = "sending" /\ Len(C[rgen[r]]) >= CapC
  \/ \E m \in Monitors : mpc[m] = "sending" /\ Len(errC[gen]) >= 1

\* A call of RemoveEventListener returns, whatever the callers, monitors and
\* readers do, unless one of them stays clogged (or the program panics).
RemoveReturnsUnlessClogged ==
  \A l \in Listeners :
    [](upc[l] = "removeListener" => <>(upc[l] = "idle" \/ ~Alive \/ []Clogged))


\* Once monitoring is disabled every monitor goroutine ends, those of earlier
\* generations beside it too, unless it is enabled again, the daemon never
\* answers the monitor's dial, or the program panics.
MonitorsEnd ==
  \A m \in Monitors :
    [](mpc[m] # "off" /\ ~enabled =>
         <>(mpc[m] = "off" \/ enabled \/ ~Alive \/ [](mpc[m] = "dial")))

\* RemoveEventListener "removes a listener from the monitor": the call made for
\* one listener never closes another one.
RemovesOnlyItsListener ==
  [][\A l \in Listeners : upc[l] = "disable" /\ upc'[l] = "waitwg" => closed' = closed]_vars
=============================================================================
