-------------------------------- MODULE Stats --------------------------------
(***************************************************************************)
(* Client.Stats (docker/container.go): the statistics of a container, read *)
(* by a goroutine that runs stream and writes to a pipe, decoded from the  *)
(* pipe by the caller's goroutine, which sends them on a channel; a third  *)
(* goroutine waits for the caller's signal to stop.                        *)
(*                                                                         *)
(* A unit of the stream is one document of statistics.  The pipe has no    *)
(* buffer: Write and Read meet (Decode).  The caller receives from its     *)
(* channel until that is closed, at its own pace.                          *)
(***************************************************************************)
EXTENDS Stream

VARIABLES
  mpc, retErr,   \* the goroutine in Stats, and what it returns
  gpc, errC,     \* the goroutine that runs stream, and the channel it reports on
  wpc,           \* the goroutine that waits for Done: waits, ended
  done,          \* the caller has signalled on Done
  rclosed, wclosed,   \* the ends of the pipe that were closed
  delivered      \* documents that the caller has received

pipe  == <<rclosed, wclosed>>
stats == <<mpc, retErr, gpc, errC, wpc, done, pipe, delivered>>
vars  == <<stream, stats>>

Init ==
  /\ StreamInit
  /\ mpc = "reqSent" /\ retErr = "nil"
  /\ gpc = "stream" /\ errC = "none"
  /\ wpc = "waits" /\ done = FALSE
  /\ rclosed = FALSE /\ wclosed = FALSE
  /\ delivered = 0

-----------------------------------------------------------------------------
(* The goroutine that runs stream                                          *)

\* Write to a pipe of which the reading end was closed.
WriteFails ==
  /\ rclosed
  /\ WriteReturns("pipe")
  /\ UNCHANGED stats

\* A bug CloseWriter does not have: the pipe is closed only after success.
CloseWriterOnSuccess ==
  /\ gpc = "stream" /\ pc = "returned"
  /\ wclosed' = (err = "nil")
  /\ gpc' = "report"
  /\ UNCHANGED <<stream, mpc, retErr, errC, wpc, done, rclosed, delivered>>

\* writeCloser.Close() comes first, the error is sent afterwards.
CloseWriter ==
  /\ gpc = "stream" /\ pc = "returned"
  /\ wclosed' = TRUE
  /\ gpc' = "report"
  /\ UNCHANGED <<stream, mpc, retErr, errC, wpc, done, rclosed, delivered>>

Report ==
  /\ gpc = "report"
  /\ errC' = err
  /\ gpc' = "ended"
  /\ UNCHANGED <<stream, mpc, retErr, wpc, done, pipe, delivered>>

-----------------------------------------------------------------------------
(* The goroutine that waits for the signal                                 *)

\* close(quit) is the first thing that Stats does when it leaves its loop.
QuitClosed == mpc \in {"deferred", "returned"}

\* A bug WatcherStops does not have: it closes the writing end of the pipe.
WatcherClosesWriter ==
  /\ wpc = "waits" /\ done
  /\ wclosed' = TRUE
  /\ wpc' = "ended"
  /\ UNCHANGED <<stream, mpc, retErr, gpc, errC, done, rclosed, delivered>>

WatcherStops ==
  /\ wpc = "waits" /\ done
  /\ rclosed' = TRUE
  /\ wpc' = "ended"
  /\ UNCHANGED <<stream, mpc, retErr, gpc, errC, done, wclosed, delivered>>

WatcherQuits ==
  /\ wpc = "waits" /\ QuitClosed
  /\ wpc' = "ended"
  /\ UNCHANGED <<stream, mpc, retErr, gpc, errC, done, pipe, delivered>>

-----------------------------------------------------------------------------
(* The goroutine in Stats                                                  *)

AwaitReqSent ==
  /\ mpc = "reqSent" /\ reqSent
  /\ mpc' = "decode"
  /\ UNCHANGED <<stream, retErr, gpc, errC, wpc, done, pipe, delivered>>

\* The document that stream is writing is read and decoded, unless it is malformed.
Decode ==
  /\ mpc = "decode" /\ ~rclosed /\ ~wclosed
  /\ WriteReturns("nil")
  /\ \/ mpc' = "deliver" /\ UNCHANGED retErr
     \/ mpc' = "deferred" /\ retErr' = "malformed"
  /\ UNCHANGED <<gpc, errC, wpc, done, pipe, delivered>>

\* Decode fails because the pipe was closed at either end.  When stream failed it
\* may have been in the middle of a document.
DecodeEnds ==
  /\ mpc = "decode"
  /\ \/ rclosed /\ retErr' = "pipe"
     \/ ~rclosed /\ wclosed /\ retErr' = "nil"
     \/ ~rclosed /\ wclosed /\ answer = "ok" /\ err # "nil" /\ retErr' = "truncated"
  /\ mpc' = "deferred"
  /\ UNCHANGED <<stream, gpc, errC, wpc, done, pipe, delivered>>

\* A bug Deliver does not have: the loop does not decode the next document.
DeliverAgain ==
  /\ mpc = "deliver"
  /\ delivered' = delivered + 1
  /\ UNCHANGED <<stream, mpc, retErr, gpc, errC, wpc, done, pipe>>

Deliver ==
  /\ mpc = "deliver"
  /\ delivered' = delivered + 1
  /\ mpc' = "decode"
  /\ UNCHANGED <<stream, retErr, gpc, errC, wpc, done, pipe>>

\* A bug Finish does not have: the reading end stays open.
FinishKeepsReader ==
  /\ mpc = "deferred"
  /\ retErr' = IF retErr = "nil" /\ errC # "none" THEN errC ELSE retErr
  /\ mpc' = "returned"
  /\ UNCHANGED <<stream, gpc, errC, wpc, done, pipe, delivered>>

\* The deferred function: the error of stream is taken if it has been sent by now,
\* and the reading end is closed.
Finish ==
  /\ mpc = "deferred"
  /\ retErr' = IF retErr = "nil" /\ errC # "none" THEN errC ELSE retErr
  /\ rclosed' = TRUE
  /\ mpc' = "returned"
  /\ UNCHANGED <<stream, gpc, errC, wpc, done, wclosed, delivered>>

\* The signal matters while the goroutine is there that waits for it.
SignalDone ==
  /\ ~done /\ wpc = "waits"
  /\ done' = TRUE
  /\ UNCHANGED <<stream, mpc, retErr, gpc, errC, wpc, pipe, delivered>>

StatsStep   == AwaitReqSent \/ DecodeEnds \/ Deliver \/ Finish
WriterStep  == (StreamStep /\ UNCHANGED stats) \/ WriteFails \/ CloseWriter \/ Report
WatcherStep == WatcherStops \/ WatcherQuits

Next ==
  \/ StatsStep \/ Decode \/ WriterStep \/ WatcherStep \/ SignalDone
  \/ (CloserCloses \/ TimerStep \/ DeadlinePasses \/ Environment) /\ UNCHANGED stats

Spec == Init /\ [][Next]_vars

\* Every goroutine runs when it can, and timers expire.  Nothing is asked of the
\* daemon, of the caller's context, of Done, nor of what stream does before it
\* has a connection; the caller does receive (Deliver).
Fairness ==
  /\ WF_vars(StatsStep) /\ WF_vars(Decode) /\ WF_vars(WriterStep) /\ WF_vars(WatcherStep)
  /\ WF_vars(CloserCloses /\ UNCHANGED stats)
  /\ WF_vars(TimerStep /\ UNCHANGED stats)
  /\ WF_vars(DeadlinePasses /\ UNCHANGED stats)

FairSpec == Spec /\ Fairness

-----------------------------------------------------------------------------
(* Properties                                                              *)

StreamErrors == {"nil", "unsent", "refused", "closed", "timeout", "context", "reset",
                 "status", "inactivity", "pipe"}

\* Every variable has its type.  (docker/client.go 533-636, docker/container.go 1101-1171)
TypeOK ==
  /\ opt \in Options
  /\ {parent, sub, reqSent, called, canceled, done, rclosed, wclosed} \subseteq BOOLEAN
  /\ pc \in {"checkAPIVersion", "dial", "do", "write", "readResponse", "status", "newError",
             "read", "reading", "copy", "failed", "choose", "close", "closeBody", "returned"}
  /\ err \in StreamErrors
  /\ got \in 0 .. sent /\ sent \in 0 .. Size /\ delivered \in 0 .. got
  /\ conn \in {"none", "open", "closed"} /\ deadline \in {"none", "set", "passed"}
  /\ timer \in {"none", "waits", "cancels", "ended"}
  /\ answer \in {"none", "ok", "error"} /\ end \in {"open", "eof", "reset"}
  /\ mpc \in {"reqSent", "decode", "deliver", "deferred", "returned"}
  /\ retErr \in StreamErrors \cup {"malformed", "truncated"}
  /\ gpc \in {"stream", "report", "ended"} /\ errC \in StreamErrors \cup {"none"}
  /\ wpc \in {"waits", "ended"}

\* A stream that was cut from within is reported by its cause: the error of a
\* connection that the client itself closed is never returned, and a context or
\* timeout error has the context, or the timer, behind it.  (chooseError and the
\* order of AddUint32 and cancelRequest, client.go 524-531, 630-633, 693-694)
CauseNamed ==
  pc = "returned" =>
    /\ err # "closed"
    /\ err = "context" => parent \/ canceled
    /\ err = "inactivity" => canceled

\* When Stats returns nil, every document that stream took from the daemon has
\* been delivered; when stream also did, that is all the daemon had to say.
\* (the decoding loop and the three ways to close the pipe, container.go 1117, 1141, 1154, 1163-1169)
NothingLost ==
  mpc = "returned" /\ retErr = "nil" =>
    /\ delivered = got
    /\ err = "nil" => delivered = sent /\ end = "eof"

\* Once the request is on its way, Stats returns when it is told to and when
\* stream has returned, whatever the daemon does.  (container.go 1141, 1150-1170)
StatsReturns == (reqSent /\ (done \/ pc = "returned")) ~> mpc = "returned"

\* A call with a connection returns when its context is done or its inactivity
\* timeout has expired, wherever it is: writing, waiting, copying, reading the
\* rest of the body.  (client.go 569-584, 618, 683-696)
CancelEnds ==
  ((parent \/ canceled) /\ pc \notin {"checkAPIVersion", "dial", "do", "returned"})
    ~> pc = "returned"

\* With an inactivity timeout, a daemon that falls silent does not keep stream in
\* its copy loop.  (handleInactivityTimeout, client.go 680-701)
SilenceEnds ==
  (opt.inactivity /\ pc \in {"read", "reading", "copy"})
    ~> pc \notin {"read", "reading", "copy"}

\* After Stats has returned, neither the goroutine that waits for Done nor the
\* writer of the pipe waits for it any more.  (container.go 1117, 1149-1158)
ReleasesHelpers == mpc = "returned" ~> [](wpc = "ended" /\ pc # "copy")

\* Stats returns once it was told to stop and stream has returned.
\* (container.go 1097-1098: "Alternatively, function can be stopped by signaling
\* on the Done channel.")
DoneStops == (done /\ pc = "returned") ~> mpc = "returned"
=============================================================================
