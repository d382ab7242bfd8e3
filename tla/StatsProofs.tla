----------------------------- MODULE StatsProofs -----------------------------
(***************************************************************************)
(* Proofs about Stats: its types, and the two invariants CauseNamed and    *)
(* NothingLost, for every set of options and every length of the answer.   *)
(***************************************************************************)
EXTENDS Stats, TLAPS

-----------------------------------------------------------------------------
(* The inductive invariant                                                 *)

InLoop == mpc \in {"reqSent", "decode", "deliver"}

\* A document on its way from stream to the caller: written, or decoded.
OnItsWay == (IF pc = "copy" THEN 1 ELSE 0) + (IF mpc = "deliver" THEN 1 ELSE 0)

\* TypeOK with got not yet related to delivered.
Types ==
  /\ opt \in Options
  /\ parent \in BOOLEAN /\ sub \in BOOLEAN /\ reqSent \in BOOLEAN
  /\ called \in BOOLEAN /\ canceled \in BOOLEAN
  /\ done \in BOOLEAN /\ rclosed \in BOOLEAN /\ wclosed \in BOOLEAN
  /\ pc \in {"checkAPIVersion", "dial", "do", "write", "readResponse", "status", "newError",
             "read", "reading", "copy", "failed", "choose", "close", "closeBody", "returned"}
  /\ err \in StreamErrors
  /\ got \in Nat /\ sent \in 0 .. Size /\ delivered \in Nat
  /\ conn \in {"none", "open", "closed"} /\ deadline \in {"none", "set", "passed"}
  /\ timer \in {"none", "waits", "cancels", "ended"}
  /\ answer \in {"none", "ok", "error"} /\ end \in {"open", "eof", "reset"}
  /\ mpc \in {"reqSent", "decode", "deliver", "deferred", "returned"}
  /\ retErr \in StreamErrors \cup {"malformed", "truncated"}
  /\ gpc \in {"stream", "report", "ended"} /\ errC \in StreamErrors \cup {"none"}
  /\ wpc \in {"waits", "ended"}

\* Who has the context done: the caller, the timer, or stream as it returns.  The
\* connection is closed only then, so that chooseError sees it.
Cancelling ==
  /\ conn = "closed" => SubDone
  /\ timer = "cancels" => canceled
  /\ sub => canceled \/ pc = "returned"

\* The error that stream is going to return has a cause, and there is one in the
\* places where the copy has failed and only there.
Causes ==
  /\ err = "closed" => SubDone /\ pc \in {"failed", "choose"}
  /\ err = "context" => parent \/ canceled
  /\ err = "inactivity" => canceled
  /\ pc \in {"failed", "choose"} => err # "nil"
  /\ pc \in {"checkAPIVersion", "dial", "do", "write", "readResponse", "status", "newError",
             "read", "reading", "copy"} => err = "nil"
  /\ err = "nil" /\ pc \in {"close", "closeBody", "returned"} => got = sent /\ end = "eof"

\* Every unit that was read is accounted for while the pipe is open to read from.
Accounting ==
  /\ got <= sent
  /\ delivered + OnItsWay <= got
  /\ wclosed => pc = "returned"
  /\ gpc # "stream" => pc = "returned"
  /\ InLoop => retErr = "nil"
  /\ InLoop /\ ~rclosed => got = delivered + OnItsWay
  /\ ~InLoop /\ retErr = "nil" => got = delivered /\ pc = "returned"

IInv == Types /\ Cancelling /\ Causes /\ Accounting

-----------------------------------------------------------------------------
(* Each action preserves it                                                *)

USE DEF request, socket, silence, daemon, stream, pipe, stats, SubDone, InLoop, OnItsWay,
        StreamErrors

LEMMA CheckAPIVersionKeeps ==
  ASSUME IInv, checkAPIVersion, UNCHANGED stats PROVE IInv'
<1>1. Types'
  <2>1. CASE Return("unsent")
    BY <2>1 DEF IInv, Types, checkAPIVersion, Return
  <2>2. CASE UNCHANGED <<sub, err>> /\ pc' = "dial"
    BY <2>2 DEF IInv, Types, checkAPIVersion
  <2>3. CASE UNCHANGED <<sub, err>> /\ pc' = "do"
    BY <2>3 DEF IInv, Types, checkAPIVersion
  <2>4. QED
    BY <2>1, <2>2, <2>3 DEF checkAPIVersion
<1>2. Cancelling'
  BY DEF IInv, Types, Cancelling, checkAPIVersion, Return
<1>3. Causes'
  BY DEF IInv, Types, Cancelling, Causes, checkAPIVersion, Return
<1>4. Accounting'
  BY DEF IInv, Types, Causes, Accounting, checkAPIVersion, Return
<1>5. QED
  BY <1>1, <1>2, <1>3, <1>4 DEF IInv

LEMMA DialKeeps ==
  ASSUME IInv, Dial, UNCHANGED stats PROVE IInv'
<1>1. Types'
  <2>1. CASE Return("unsent") /\ UNCHANGED conn
    BY <2>1 DEF IInv, Types, Dial, Return
  <2>2. CASE UNCHANGED <<sub, err>> /\ conn' = "open" /\ pc' = "write"
    BY <2>2 DEF IInv, Types, Dial
  <2>3. QED
    BY <2>1, <2>2 DEF Dial
<1>2. Cancelling'
  BY DEF IInv, Types, Cancelling, Dial, Return
<1>3. Causes'
  BY DEF IInv, Types, Cancelling, Causes, Dial, Return
<1>4. Accounting'
  BY DEF IInv, Types, Causes, Accounting, Dial, Return
<1>5. QED
  BY <1>1, <1>2, <1>3, <1>4 DEF IInv

LEMMA WriteRequestKeeps ==
  ASSUME IInv, WriteRequest, UNCHANGED stats PROVE IInv'
<1>1. Types'
  <2>1. CASE UNCHANGED <<sub, err>> /\ reqSent' = TRUE /\ deadline' \in {"none", "set"} /\ pc' = "readResponse"
    BY <2>1 DEF IInv, Types, WriteRequest
  <2>2. CASE /\ \E e \in Failures : Return(chooseError(e))
             /\ UNCHANGED reqSent /\ deadline' \in {deadline, "none"}
    BY <2>2 DEF IInv, Types, WriteRequest, Failures, chooseError, Return
  <2>3. QED
    BY <2>1, <2>2 DEF WriteRequest
<1>2. Cancelling'
  BY DEF IInv, Types, Cancelling, WriteRequest, Failures, chooseError, Return
<1>3. Causes'
  BY DEF IInv, Types, Cancelling, Causes, WriteRequest, Failures, chooseError, Return
<1>4. Accounting'
  BY DEF IInv, Types, Causes, Accounting, WriteRequest, Failures, chooseError, Return
<1>5. QED
  BY <1>1, <1>2, <1>3, <1>4 DEF IInv

LEMMA ReadResponseKeeps ==
  ASSUME IInv, ReadResponse, UNCHANGED stats PROVE IInv'
<1>1. Types'
  <2>1. CASE UNCHANGED <<sub, err>> /\ UNCHANGED <<reqSent, deadline>> /\ pc' = "status"
    BY <2>1 DEF IInv, Types, ReadResponse
  <2>2. CASE /\ \E e \in Failures : Return(chooseError(e))
             /\ UNCHANGED reqSent /\ deadline' \in {deadline, "none"}
    BY <2>2 DEF IInv, Types, ReadResponse, Failures, chooseError, Return
  <2>3. QED
    BY <2>1, <2>2 DEF ReadResponse
<1>2. Cancelling'
  BY DEF IInv, Types, Cancelling, ReadResponse, Failures, chooseError, Return
<1>3. Causes'
  BY DEF IInv, Types, Cancelling, Causes, ReadResponse, Failures, chooseError, Return
<1>4. Accounting'
  BY DEF IInv, Types, Causes, Accounting, ReadResponse, Failures, chooseError, Return
<1>5. QED
  BY <1>1, <1>2, <1>3, <1>4 DEF IInv

LEMMA DoKeeps ==
  ASSUME IInv, Do, UNCHANGED stats PROVE IInv'
<1>1. Types'
  <2>1. CASE UNCHANGED <<sub, err>> /\ reqSent' = TRUE /\ UNCHANGED deadline /\ pc' = "status"
    BY <2>1 DEF IInv, Types, Do
  <2>2. CASE /\ \E e \in Failures : Return(chooseError(e))
             /\ UNCHANGED reqSent /\ deadline' \in {deadline, "none"}
    BY <2>2 DEF IInv, Types, Do, Failures, chooseError, Return
  <2>3. QED
    BY <2>1, <2>2 DEF Do
<1>2. Cancelling'
  BY DEF IInv, Types, Cancelling, Do, Failures, chooseError, Return
<1>3. Causes'
  BY DEF IInv, Types, Cancelling, Causes, Do, Failures, chooseError, Return
<1>4. Accounting'
  BY DEF IInv, Types, Causes, Accounting, Do, Failures, chooseError, Return
<1>5. QED
  BY <1>1, <1>2, <1>3, <1>4 DEF IInv

LEMMA RefusedKeeps ==
  ASSUME IInv, Refused, UNCHANGED stats PROVE IInv'
<1>1. Types'
  BY DEF IInv, Types, Accounting, Refused, Return
<1>2. Cancelling'
  BY DEF IInv, Types, Cancelling, Refused, Return
<1>3. Causes'
  BY DEF IInv, Types, Cancelling, Causes, Refused, Return
<1>4. Accounting'
  BY DEF IInv, Types, Causes, Accounting, Refused, Return
<1>5. QED
  BY <1>1, <1>2, <1>3, <1>4 DEF IInv

LEMMA StatusKeeps ==
  ASSUME IInv, Status, UNCHANGED stats PROVE IInv'
<1>1. Types'
  BY DEF IInv, Types, Accounting, Status
<1>2. Cancelling'
  BY DEF IInv, Types, Cancelling, Status
<1>3. Causes'
  BY DEF IInv, Types, Cancelling, Causes, Status
<1>4. Accounting'
  BY DEF IInv, Types, Causes, Accounting, Status
<1>5. QED
  BY <1>1, <1>2, <1>3, <1>4 DEF IInv

LEMMA NewErrorKeeps ==
  ASSUME IInv, newError, UNCHANGED stats PROVE IInv'
<1>1. Types'
  BY DEF IInv, Types, Accounting, newError, Return
<1>2. Cancelling'
  BY DEF IInv, Types, Cancelling, newError, Return
<1>3. Causes'
  BY DEF IInv, Types, Cancelling, Causes, newError, Return
<1>4. Accounting'
  BY DEF IInv, Types, Causes, Accounting, newError, Return
<1>5. QED
  BY <1>1, <1>2, <1>3, <1>4 DEF IInv

LEMMA ReadKeeps ==
  ASSUME IInv, Read, UNCHANGED stats PROVE IInv'
<1>1. Types'
  BY DEF IInv, Types, Accounting, Read
<1>2. Cancelling'
  BY DEF IInv, Types, Cancelling, Read
<1>3. Causes'
  BY DEF IInv, Types, Cancelling, Causes, Read
<1>4. Accounting'
  BY DEF IInv, Types, Causes, Accounting, Read
<1>5. QED
  BY <1>1, <1>2, <1>3, <1>4 DEF IInv

LEMMA ReadReturnsKeeps ==
  ASSUME IInv, ReadReturns, UNCHANGED stats PROVE IInv'
<1>1. Types'
  BY DEF IInv, Types, Accounting, ReadReturns, Failures
<1>2. Cancelling'
  BY DEF IInv, Types, Cancelling, ReadReturns, Failures
<1>3. Causes'
  BY DEF IInv, Types, Cancelling, Causes, ReadReturns, Failures
<1>4. Accounting'
  BY DEF IInv, Types, Causes, Accounting, ReadReturns, Failures
<1>5. QED
  BY <1>1, <1>2, <1>3, <1>4 DEF IInv

LEMMA LoadCanceledKeeps ==
  ASSUME IInv, LoadCanceled, UNCHANGED stats PROVE IInv'
<1>1. Types'
  BY DEF IInv, Types, Accounting, LoadCanceled
<1>2. Cancelling'
  BY DEF IInv, Types, Cancelling, LoadCanceled
<1>3. Causes'
  BY DEF IInv, Types, Cancelling, Causes, LoadCanceled
<1>4. Accounting'
  BY DEF IInv, Types, Causes, Accounting, LoadCanceled
<1>5. QED
  BY <1>1, <1>2, <1>3, <1>4 DEF IInv

LEMMA ChooseErrorKeeps ==
  ASSUME IInv, ChooseError, UNCHANGED stats PROVE IInv'
<1>1. Types'
  BY DEF IInv, Types, Accounting, ChooseError, chooseError
<1>2. Cancelling'
  BY DEF IInv, Types, Cancelling, ChooseError, chooseError
<1>3. Causes'
  BY DEF IInv, Types, Cancelling, Causes, ChooseError, chooseError
<1>4. Accounting'
  BY DEF IInv, Types, Causes, Accounting, ChooseError, chooseError
<1>5. QED
  BY <1>1, <1>2, <1>3, <1>4 DEF IInv

LEMMA StopTimerKeeps ==
  ASSUME IInv, StopTimer, UNCHANGED stats PROVE IInv'
<1>1. Types'
  BY DEF IInv, Types, Accounting, StopTimer
<1>2. Cancelling'
  BY DEF IInv, Types, Cancelling, StopTimer
<1>3. Causes'
  BY DEF IInv, Types, Cancelling, Causes, StopTimer
<1>4. Accounting'
  BY DEF IInv, Types, Causes, Accounting, StopTimer
<1>5. QED
  BY <1>1, <1>2, <1>3, <1>4 DEF IInv

LEMMA CloseBodyKeeps ==
  ASSUME IInv, CloseBody, UNCHANGED stats PROVE IInv'
<1>1. Types'
  BY DEF IInv, Types, Accounting, CloseBody, Return
<1>2. Cancelling'
  BY DEF IInv, Types, Cancelling, CloseBody, Return
<1>3. Causes'
  BY DEF IInv, Types, Cancelling, Causes, CloseBody, Return
<1>4. Accounting'
  BY DEF IInv, Types, Causes, Accounting, CloseBody, Return
<1>5. QED
  BY <1>1, <1>2, <1>3, <1>4 DEF IInv

LEMMA CloserClosesKeeps ==
  ASSUME IInv, CloserCloses, UNCHANGED stats PROVE IInv'
<1>1. Types'
  BY DEF IInv, Types, Accounting, CloserCloses
<1>2. Cancelling'
  BY DEF IInv, Types, Cancelling, CloserCloses
<1>3. Causes'
  BY DEF IInv, Types, Cancelling, Causes, CloserCloses
<1>4. Accounting'
  BY DEF IInv, Types, Causes, Accounting, CloserCloses
<1>5. QED
  BY <1>1, <1>2, <1>3, <1>4 DEF IInv

LEMMA TimerExpiresKeeps ==
  ASSUME IInv, TimerExpires, UNCHANGED stats PROVE IInv'
<1>1. Types'
  <2>1. called' \in BOOLEAN /\ canceled' \in BOOLEAN
    BY Zenon DEF IInv, Types, TimerExpires
  <2>2. timer' \in {"none", "waits", "cancels", "ended"}
    BY DEF IInv, Types, TimerExpires
  <2>3. UNCHANGED <<request, socket, daemon>>
    BY DEF TimerExpires
  <2>4. QED
    BY <2>1, <2>2, <2>3 DEF IInv, Types
<1>2. Cancelling'
  BY DEF IInv, Types, Cancelling, TimerExpires
<1>3. Causes'
  BY DEF IInv, Types, Cancelling, Causes, TimerExpires
<1>4. Accounting'
  BY DEF IInv, Types, Causes, Accounting, TimerExpires
<1>5. QED
  BY <1>1, <1>2, <1>3, <1>4 DEF IInv

LEMMA TimerCancelsKeeps ==
  ASSUME IInv, TimerCancels, UNCHANGED stats PROVE IInv'
<1>1. Types'
  BY DEF IInv, Types, Accounting, TimerCancels
<1>2. Cancelling'
  BY DEF IInv, Types, Cancelling, TimerCancels
<1>3. Causes'
  BY DEF IInv, Types, Cancelling, Causes, TimerCancels
<1>4. Accounting'
  BY DEF IInv, Types, Causes, Accounting, TimerCancels
<1>5. QED
  BY <1>1, <1>2, <1>3, <1>4 DEF IInv

LEMMA TimerStopsKeeps ==
  ASSUME IInv, TimerStops, UNCHANGED stats PROVE IInv'
<1>1. Types'
  BY DEF IInv, Types, Accounting, TimerStops
<1>2. Cancelling'
  BY DEF IInv, Types, Cancelling, TimerStops
<1>3. Causes'
  BY DEF IInv, Types, Cancelling, Causes, TimerStops
<1>4. Accounting'
  BY DEF IInv, Types, Causes, Accounting, TimerStops
<1>5. QED
  BY <1>1, <1>2, <1>3, <1>4 DEF IInv

LEMMA DeadlinePassesKeeps ==
  ASSUME IInv, DeadlinePasses, UNCHANGED stats PROVE IInv'
<1>1. Types'
  BY DEF IInv, Types, Accounting, DeadlinePasses
<1>2. Cancelling'
  BY DEF IInv, Types, Cancelling, DeadlinePasses
<1>3. Causes'
  BY DEF IInv, Types, Cancelling, Causes, DeadlinePasses
<1>4. Accounting'
  BY DEF IInv, Types, Causes, Accounting, DeadlinePasses
<1>5. QED
  BY <1>1, <1>2, <1>3, <1>4 DEF IInv

LEMMA ParentCancelsKeeps ==
  ASSUME IInv, ParentCancels, UNCHANGED stats PROVE IInv'
<1>1. Types'
  BY DEF IInv, Types, Accounting, ParentCancels
<1>2. Cancelling'
  BY DEF IInv, Types, Cancelling, ParentCancels
<1>3. Causes'
  BY DEF IInv, Types, Cancelling, Causes, ParentCancels
<1>4. Accounting'
  BY DEF IInv, Types, Causes, Accounting, ParentCancels
<1>5. QED
  BY <1>1, <1>2, <1>3, <1>4 DEF IInv

LEMMA DaemonAnswersKeeps ==
  ASSUME IInv, DaemonAnswers, UNCHANGED stats PROVE IInv'
<1>1. Types'
  BY DEF IInv, Types, Accounting, DaemonAnswers, Connected
<1>2. Cancelling'
  BY DEF IInv, Types, Cancelling, DaemonAnswers, Connected
<1>3. Causes'
  BY DEF IInv, Types, Cancelling, Causes, DaemonAnswers, Connected
<1>4. Accounting'
  BY DEF IInv, Types, Causes, Accounting, DaemonAnswers, Connected
<1>5. QED
  BY <1>1, <1>2, <1>3, <1>4 DEF IInv

LEMMA DaemonSendsKeeps ==
  ASSUME IInv, DaemonSends, UNCHANGED stats PROVE IInv'
<1>1. Types'
  BY StreamBounds DEF IInv, Types, Accounting, DaemonSends, Connected
<1>2. Cancelling'
  BY DEF IInv, Types, Cancelling, DaemonSends, Connected
<1>3. Causes'
  BY DEF IInv, Types, Cancelling, Causes, DaemonSends, Connected
<1>4. Accounting'
  BY DEF IInv, Types, Causes, Accounting, DaemonSends, Connected
<1>5. QED
  BY <1>1, <1>2, <1>3, <1>4 DEF IInv

LEMMA DaemonEndsKeeps ==
  ASSUME IInv, DaemonEnds, UNCHANGED stats PROVE IInv'
<1>1. Types'
  BY DEF IInv, Types, Accounting, DaemonEnds, Connected
<1>2. Cancelling'
  BY DEF IInv, Types, Cancelling, DaemonEnds, Connected
<1>3. Causes'
  BY DEF IInv, Types, Cancelling, Causes, DaemonEnds, Connected
<1>4. Accounting'
  BY DEF IInv, Types, Causes, Accounting, DaemonEnds, Connected
<1>5. QED
  BY <1>1, <1>2, <1>3, <1>4 DEF IInv

LEMMA WriteFailsKeeps ==
  ASSUME IInv, WriteFails PROVE IInv'
<1>1. Types'
  BY DEF IInv, Types, Accounting, WriteFails, WriteReturns
<1>2. Cancelling'
  BY DEF IInv, Types, Cancelling, WriteFails, WriteReturns
<1>3. Causes'
  BY DEF IInv, Types, Cancelling, Causes, WriteFails, WriteReturns
<1>4. Accounting'
  BY DEF IInv, Types, Causes, Accounting, WriteFails, WriteReturns
<1>5. QED
  BY <1>1, <1>2, <1>3, <1>4 DEF IInv

LEMMA CloseWriterKeeps ==
  ASSUME IInv, CloseWriter PROVE IInv'
<1>1. Types'
  BY DEF IInv, Types, Accounting, CloseWriter
<1>2. Cancelling'
  BY DEF IInv, Types, Cancelling, CloseWriter
<1>3. Causes'
  BY DEF IInv, Types, Cancelling, Causes, CloseWriter
<1>4. Accounting'
  BY DEF IInv, Types, Causes, Accounting, CloseWriter
<1>5. QED
  BY <1>1, <1>2, <1>3, <1>4 DEF IInv

LEMMA ReportKeeps ==
  ASSUME IInv, Report PROVE IInv'
<1>1. Types'
  BY DEF IInv, Types, Accounting, Report
<1>2. Cancelling'
  BY DEF IInv, Types, Cancelling, Report
<1>3. Causes'
  BY DEF IInv, Types, Cancelling, Causes, Report
<1>4. Accounting'
  BY DEF IInv, Types, Causes, Accounting, Report
<1>5. QED
  BY <1>1, <1>2, <1>3, <1>4 DEF IInv

LEMMA WatcherStopsKeeps ==
  ASSUME IInv, WatcherStops PROVE IInv'
<1>1. Types'
  BY DEF IInv, Types, Accounting, WatcherStops
<1>2. Cancelling'
  BY DEF IInv, Types, Cancelling, WatcherStops
<1>3. Causes'
  BY DEF IInv, Types, Cancelling, Causes, WatcherStops
<1>4. Accounting'
  BY DEF IInv, Types, Causes, Accounting, WatcherStops
<1>5. QED
  BY <1>1, <1>2, <1>3, <1>4 DEF IInv

LEMMA WatcherQuitsKeeps ==
  ASSUME IInv, WatcherQuits PROVE IInv'
<1>1. Types'
  BY DEF IInv, Types, Accounting, WatcherQuits
<1>2. Cancelling'
  BY DEF IInv, Types, Cancelling, WatcherQuits
<1>3. Causes'
  BY DEF IInv, Types, Cancelling, Causes, WatcherQuits
<1>4. Accounting'
  BY DEF IInv, Types, Causes, Accounting, WatcherQuits
<1>5. QED
  BY <1>1, <1>2, <1>3, <1>4 DEF IInv

LEMMA AwaitReqSentKeeps ==
  ASSUME IInv, AwaitReqSent PROVE IInv'
<1>1. Types'
  BY DEF IInv, Types, Accounting, AwaitReqSent
<1>2. Cancelling'
  BY DEF IInv, Types, Cancelling, AwaitReqSent
<1>3. Causes'
  BY DEF IInv, Types, Cancelling, Causes, AwaitReqSent
<1>4. Accounting'
  BY DEF IInv, Types, Causes, Accounting, AwaitReqSent
<1>5. QED
  BY <1>1, <1>2, <1>3, <1>4 DEF IInv

LEMMA DecodeKeeps ==
  ASSUME IInv, Decode PROVE IInv'
<1>1. Types'
  BY DEF IInv, Types, Accounting, Decode, WriteReturns
<1>2. Cancelling'
  BY DEF IInv, Types, Cancelling, Decode, WriteReturns
<1>3. Causes'
  BY DEF IInv, Types, Cancelling, Causes, Decode, WriteReturns
<1>4. Accounting'
  BY DEF IInv, Types, Causes, Accounting, Decode, WriteReturns
<1>5. QED
  BY <1>1, <1>2, <1>3, <1>4 DEF IInv

LEMMA DecodeEndsKeeps ==
  ASSUME IInv, DecodeEnds PROVE IInv'
<1>1. Types'
  BY DEF IInv, Types, Accounting, DecodeEnds
<1>2. Cancelling'
  BY DEF IInv, Types, Cancelling, DecodeEnds
<1>3. Causes'
  BY DEF IInv, Types, Cancelling, Causes, DecodeEnds
<1>4. Accounting'
  BY DEF IInv, Types, Causes, Accounting, DecodeEnds
<1>5. QED
  BY <1>1, <1>2, <1>3, <1>4 DEF IInv

LEMMA DeliverKeeps ==
  ASSUME IInv, Deliver PROVE IInv'
<1>1. Types'
  BY DEF IInv, Types, Accounting, Deliver
<1>2. Cancelling'
  BY DEF IInv, Types, Cancelling, Deliver
<1>3. Causes'
  BY DEF IInv, Types, Cancelling, Causes, Deliver
<1>4. Accounting'
  BY DEF IInv, Types, Causes, Accounting, Deliver
<1>5. QED
  BY <1>1, <1>2, <1>3, <1>4 DEF IInv

LEMMA FinishKeeps ==
  ASSUME IInv, Finish PROVE IInv'
<1>1. Types'
  BY DEF IInv, Types, Accounting, Finish
<1>2. Cancelling'
  BY DEF IInv, Types, Cancelling, Finish
<1>3. Causes'
  BY DEF IInv, Types, Cancelling, Causes, Finish
<1>4. Accounting'
  BY DEF IInv, Types, Causes, Accounting, Finish
<1>5. QED
  BY <1>1, <1>2, <1>3, <1>4 DEF IInv

LEMMA SignalDoneKeeps ==
  ASSUME IInv, SignalDone PROVE IInv'
<1>1. Types'
  BY DEF IInv, Types, Accounting, SignalDone
<1>2. Cancelling'
  BY DEF IInv, Types, Cancelling, SignalDone
<1>3. Causes'
  BY DEF IInv, Types, Cancelling, Causes, SignalDone
<1>4. Accounting'
  BY DEF IInv, Types, Causes, Accounting, SignalDone
<1>5. QED
  BY <1>1, <1>2, <1>3, <1>4 DEF IInv

LEMMA InitHolds == Init => IInv
<1> SUFFICES ASSUME Init PROVE IInv
  OBVIOUS
<1>1. Types
  <2>1. /\ parent \in BOOLEAN /\ sub \in BOOLEAN /\ reqSent \in BOOLEAN
        /\ called \in BOOLEAN /\ canceled \in BOOLEAN
        /\ done \in BOOLEAN /\ rclosed \in BOOLEAN /\ wclosed \in BOOLEAN
    BY Zenon DEF Init, StreamInit
  <2>2. /\ opt \in Options
        /\ got \in Nat /\ sent \in 0 .. Size /\ delivered \in Nat
    BY StreamBounds DEF Init, StreamInit
  <2>3. QED
    BY <2>1, <2>2 DEF Init, StreamInit, Types
<1>2. Cancelling
  BY DEF Init, StreamInit, Cancelling
<1>3. Causes
  BY DEF Init, StreamInit, Causes
<1>4. Accounting
  BY DEF Init, StreamInit, Accounting
<1>5. QED
  BY <1>1, <1>2, <1>3, <1>4 DEF IInv

LEMMA StutterKeeps ==
  ASSUME IInv, UNCHANGED vars PROVE IInv'
BY DEF vars, IInv, Types, Cancelling, Causes, Accounting

LEMMA NextKeeps == IInv /\ [Next]_vars => IInv'
<1> SUFFICES ASSUME IInv, [Next]_vars PROVE IInv'
  OBVIOUS
<1>1. CASE StatsStep
  BY <1>1, AwaitReqSentKeeps, DecodeEndsKeeps, DeliverKeeps, FinishKeeps DEF StatsStep
<1>2. CASE Decode
  BY <1>2, DecodeKeeps
<1>3. CASE StreamStep /\ UNCHANGED stats
  BY <1>3, WriteRequestKeeps, ReadResponseKeeps, DoKeeps, StatusKeeps, NewErrorKeeps,
     ReadKeeps, ReadReturnsKeeps, LoadCanceledKeeps, ChooseErrorKeeps, StopTimerKeeps,
     CloseBodyKeeps
  DEF StreamStep
<1>4. CASE WriteFails \/ CloseWriter \/ Report
  BY <1>4, WriteFailsKeeps, CloseWriterKeeps, ReportKeeps
<1>5. CASE WatcherStep
  BY <1>5, WatcherStopsKeeps, WatcherQuitsKeeps DEF WatcherStep
<1>6. CASE SignalDone
  BY <1>6, SignalDoneKeeps
<1>7. CASE (CloserCloses \/ TimerStep \/ DeadlinePasses) /\ UNCHANGED stats
  BY <1>7, CloserClosesKeeps, TimerExpiresKeeps, TimerCancelsKeeps, TimerStopsKeeps,
     DeadlinePassesKeeps
  DEF TimerStep
<1>8. CASE Environment /\ UNCHANGED stats
  BY <1>8, CheckAPIVersionKeeps, DialKeeps, RefusedKeeps, ParentCancelsKeeps,
     DaemonAnswersKeeps, DaemonSendsKeeps, DaemonEndsKeeps
  DEF Environment
<1>9. CASE UNCHANGED vars
  BY <1>9, StutterKeeps
<1>10. QED
  BY <1>1, <1>2, <1>3, <1>4, <1>5, <1>6, <1>7, <1>8, <1>9 DEF Next, WriterStep

-----------------------------------------------------------------------------
(* Theorems                                                                *)

\* The invariant holds always: of the types, of who has cancelled the context, of
\* where an error comes from and of where each document is.
THEOREM Inductive == Spec => []IInv
BY InitHolds, NextKeeps, PTL DEF Spec

\* Every variable keeps its type, and no more is delivered than was read, nor read
\* than was sent.
THEOREM TypeCorrect == Spec => []TypeOK
<1>1. IInv => TypeOK
  BY DEF IInv, Types, Accounting, TypeOK
<1>2. QED
  BY <1>1, Inductive, PTL

\* Whoever cuts a stream, and wherever it is, the error names who did: by the flag
\* that is set before the context is cancelled, or by the context.
THEOREM CausesNamed == Spec => []CauseNamed
<1>1. IInv => CauseNamed
  BY DEF IInv, Causes, CauseNamed
<1>2. QED
  BY <1>1, Inductive, PTL

\* Stats returns nil only when it has delivered all that stream has read, and when
\* stream returns nil too, all that the daemon has sent.
THEOREM NothingIsLost == Spec => []NothingLost
<1>1. IInv => NothingLost
  BY DEF IInv, Causes, Accounting, NothingLost
<1>2. QED
  BY <1>1, Inductive, PTL
=============================================================================
