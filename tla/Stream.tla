------------------------------- MODULE Stream -------------------------------
(***************************************************************************)
(* Client.stream (docker/client.go): one request whose answer is copied    *)
(* for as long as it lasts, with the goroutine that closes the connection  *)
(* when the context is done and the goroutine of handleInactivityTimeout.  *)
(*                                                                         *)
(* This module has the state and the actions; who takes what is copied is  *)
(* left to the module that extends it (Stats).  The answer is a number of  *)
(* units; a unit is what one Read returns and one Write takes.  The daemon *)
(* and the network are external.                                           *)
(***************************************************************************)
EXTENDS Integers

CONSTANTS
  Options,   \* the streamOptions with which the call may be made
  Size       \* bound: units that the daemon sends

ASSUME StreamBounds ==
  /\ Options \subseteq [unix: BOOLEAN, timeout: BOOLEAN, inactivity: BOOLEAN]
  /\ Size \in Nat

VARIABLES
  opt,       \* whether the endpoint is a socket; streamOptions.timeout, .inactivityTimeout > 0
  parent,    \* streamOptions.context is done
  sub,       \* cancelRequest has been called
  pc, err,   \* the goroutine in stream, and the error it is going to return
  got,       \* units read from the body
  reqSent,   \* the channel reqSent is closed
  conn,      \* the dialed connection: none; open, with a goroutine that waits for
             \* the context to close it; closed
  deadline,  \* its deadline: none, set, passed
  timer,     \* the goroutine of handleInactivityTimeout: none, waits, cancels, ended
  called,    \* proxyReader.calls differs from that goroutine's lastCallCount
  canceled,  \* the flag of that name
  answer, sent, end   \* the daemon: status of the answer, units sent, how the answer ended

request == <<opt, parent, sub, pc, err, got, reqSent>>
socket  == <<conn, deadline>>
silence == <<timer, called, canceled>>
daemon  == <<answer, sent, end>>
stream  == <<request, socket, silence, daemon>>

StreamInit ==
  /\ opt \in Options
  /\ parent = FALSE /\ sub = FALSE
  /\ pc = "checkAPIVersion" /\ err = "nil" /\ got = 0 /\ reqSent = FALSE
  /\ conn = "none" /\ deadline = "none"
  /\ timer = "none" /\ called = FALSE /\ canceled = FALSE
  /\ answer = "none" /\ sent = 0 /\ end = "open"

SubDone == parent \/ sub

\* chooseError(subCtx, e)
chooseError(e) == IF SubDone THEN "context" ELSE e

\* The client's end of the connection takes no more I/O.
Cut == IF opt.unix THEN conn = "closed" \/ deadline = "passed" ELSE SubDone

\* The error with which I/O fails: the connection was closed here, its deadline
\* has passed, the daemon has gone; net/http names the context itself.
Failures ==
     (IF opt.unix /\ conn = "closed" THEN {"closed"} ELSE {})
  \cup (IF opt.unix /\ deadline = "passed" THEN {"timeout"} ELSE {})
  \cup (IF ~opt.unix /\ SubDone THEN {"context"} ELSE {})
  \cup (IF end = "reset" THEN {"reset"} ELSE {})

\* The deferred calls up to cancelRequest have run.
Return(e) ==
  /\ err' = e
  /\ sub' = TRUE
  /\ pc' = "returned"

-----------------------------------------------------------------------------
(* The request                                                             *)

\* The server's version may have to be asked for first, which can fail.
checkAPIVersion ==
  /\ pc = "checkAPIVersion"
  /\ \/ /\ pc' = IF opt.unix THEN "dial" ELSE "do"
        /\ UNCHANGED <<sub, err>>
     \/ Return("unsent")
  /\ UNCHANGED <<opt, parent, got, reqSent, socket, silence, daemon>>

Dial ==
  /\ pc = "dial"
  /\ \/ /\ conn' = "open"
        /\ pc' = "write"
        /\ UNCHANGED <<sub, err>>
     \/ /\ Return("unsent")
        /\ UNCHANGED conn
  /\ UNCHANGED <<opt, parent, got, reqSent, deadline, silence, daemon>>

\* req.Write, SetDeadline and close(reqSent).
WriteRequest ==
  /\ pc = "write"
  /\ \/ /\ conn = "open"
        /\ deadline' = IF opt.timeout THEN "set" ELSE "none"
        /\ reqSent' = TRUE
        /\ pc' = "readResponse"
        /\ UNCHANGED <<sub, err>>
     \/ /\ \E e \in Failures : Return(chooseError(e))
        /\ UNCHANGED <<deadline, reqSent>>
  /\ UNCHANGED <<opt, parent, got, conn, silence, daemon>>

ReadResponse ==
  /\ pc = "readResponse"
  /\ \/ /\ answer # "none"
        /\ pc' = "status"
        /\ UNCHANGED <<sub, err, deadline>>
     \/ /\ \E e \in Failures : Return(chooseError(e))
        /\ deadline' = "none"
  /\ UNCHANGED <<opt, parent, got, reqSent, conn, silence, daemon>>

\* HTTPClient.Do, over TCP.
Do ==
  /\ pc = "do"
  /\ \/ /\ answer # "none"
        /\ reqSent' = TRUE
        /\ pc' = "status"
        /\ UNCHANGED <<sub, err>>
     \/ /\ \E e \in Failures : Return(chooseError(e))
        /\ UNCHANGED reqSent
  /\ UNCHANGED <<opt, parent, got, socket, silence, daemon>>

\* ErrConnectionRefused, from Do.
Refused ==
  /\ pc = "do" /\ answer = "none"
  /\ Return("refused")
  /\ UNCHANGED <<opt, parent, got, reqSent, socket, silence, daemon>>

Status ==
  /\ pc = "status"
  /\ IF answer = "error"
       THEN /\ pc' = "newError"
            /\ UNCHANGED timer
       ELSE /\ pc' = "read"
            /\ timer' = IF opt.inactivity THEN "waits" ELSE "none"
  /\ UNCHANGED <<opt, parent, sub, err, got, reqSent, socket, called, canceled, daemon>>

\* newError reads the body to its end before stream returns.
newError ==
  /\ pc = "newError"
  /\ end # "open" \/ Cut
  /\ Return("status")
  /\ UNCHANGED <<opt, parent, got, reqSent, socket, silence, daemon>>

-----------------------------------------------------------------------------
(* handleStreamResponse: the copy loop                                     *)

\* proxyReader.Read counts the call and reads.
Read ==
  /\ pc = "read"
  /\ called' = TRUE
  /\ pc' = "reading"
  /\ UNCHANGED <<opt, parent, sub, err, got, reqSent, socket, timer, canceled, daemon>>

\* Data that has arrived may be read even after the connection was cut.
ReadReturns ==
  /\ pc = "reading"
  /\ \/ /\ got < sent
        /\ got' = got + 1
        /\ pc' = "copy"
        /\ UNCHANGED err
     \/ /\ got = sent /\ end = "eof"
        /\ pc' = "close"
        /\ UNCHANGED <<err, got>>
     \/ /\ err' \in Failures
        /\ pc' = "failed"
        /\ UNCHANGED got
  /\ UNCHANGED <<opt, parent, sub, reqSent, socket, silence, daemon>>

\* Write to stdout returns, with an error or not.
WriteReturns(e) ==
  /\ pc = "copy"
  /\ err' = e
  /\ pc' = IF e = "nil" THEN "read" ELSE "failed"
  /\ UNCHANGED <<opt, parent, sub, got, reqSent, socket, silence, daemon>>

\* The flag is read, and the context only afterwards.
LoadCanceled ==
  /\ pc = "failed"
  /\ IF canceled
       THEN err' = "inactivity" /\ pc' = "close"
       ELSE err' = err /\ pc' = "choose"
  /\ UNCHANGED <<opt, parent, sub, got, reqSent, socket, silence, daemon>>

ChooseError ==
  /\ pc = "choose"
  /\ err' = chooseError(err)
  /\ pc' = "close"
  /\ UNCHANGED <<opt, parent, sub, got, reqSent, socket, silence, daemon>>

\* close(ch)
StopTimer ==
  /\ pc = "close"
  /\ pc' = "closeBody"
  /\ UNCHANGED <<opt, parent, sub, err, got, reqSent, socket, silence, daemon>>

\* Close of a body that http.ReadResponse made reads it to its end.
CloseBody ==
  /\ pc = "closeBody"
  /\ opt.unix => err = "nil" \/ end # "open" \/ Cut
  /\ Return(err)
  /\ UNCHANGED <<opt, parent, got, reqSent, socket, silence, daemon>>

-----------------------------------------------------------------------------
(* The other goroutines, the caller's context and time.  What happens to the *)
(* context, the deadline and the daemon when no one will read it is left out. *)

CloserCloses ==
  /\ conn = "open" /\ SubDone
  /\ conn' = "closed"
  /\ UNCHANGED <<request, deadline, silence, daemon>>

\* A bug TimerExpires does not have: the flag is not set.
TimerExpiresUnmarked ==
  /\ timer = "waits"
  /\ called' = FALSE
  /\ timer' = IF called THEN "waits" ELSE "cancels"
  /\ UNCHANGED <<canceled, request, socket, daemon>>

\* A bug TimerCancels does not have: it does not cancel the request.
TimerOnlyMarks ==
  /\ timer = "cancels"
  /\ timer' = "ended"
  /\ UNCHANGED <<request, socket, called, canceled, daemon>>

\* A bug TimerExpires does not have: lastCallCount keeps its first value.
TimerExpiresForgets ==
  /\ timer = "waits"
  /\ called' = called
  /\ IF called
       THEN UNCHANGED <<timer, canceled>>
       ELSE timer' = "cancels" /\ canceled' = TRUE
  /\ UNCHANGED <<request, socket, daemon>>

\* The time is over: the count of calls is compared and remembered.
TimerExpires ==
  /\ timer = "waits"
  /\ called' = FALSE
  /\ IF called
       THEN UNCHANGED <<timer, canceled>>
       ELSE timer' = "cancels" /\ canceled' = TRUE
  /\ UNCHANGED <<request, socket, daemon>>

TimerCancels ==
  /\ timer = "cancels"
  /\ sub' = TRUE
  /\ timer' = "ended"
  /\ UNCHANGED <<opt, parent, pc, err, got, reqSent, socket, called, canceled, daemon>>

TimerStops ==
  /\ timer = "waits"
  /\ pc \in {"closeBody", "returned"}
  /\ timer' = "ended"
  /\ UNCHANGED <<request, socket, called, canceled, daemon>>

DeadlinePasses ==
  /\ deadline = "set" /\ conn = "open" /\ pc # "returned"
  /\ deadline' = "passed"
  /\ UNCHANGED <<request, conn, silence, daemon>>

ParentCancels ==
  /\ ~parent /\ pc # "returned"
  /\ parent' = TRUE
  /\ UNCHANGED <<opt, sub, pc, err, got, reqSent, socket, silence, daemon>>

-----------------------------------------------------------------------------
(* The daemon                                                              *)

Connected ==
  /\ pc # "returned"
  /\ conn = "open" \/ pc = "do" \/ (~opt.unix /\ answer # "none" /\ ~SubDone)

DaemonAnswers ==
  /\ Connected /\ answer = "none" /\ end = "open"
  /\ opt.unix => reqSent
  /\ answer' \in {"ok", "error"}
  /\ UNCHANGED <<request, socket, silence, sent, end>>

DaemonSends ==
  /\ Connected /\ answer # "none" /\ end = "open" /\ sent < Size
  /\ sent' = sent + 1
  /\ UNCHANGED <<request, socket, silence, answer, end>>

DaemonEnds ==
  /\ Connected /\ end = "open"
  /\ \/ answer # "none" /\ end' = "eof"
     \/ end' = "reset"
  /\ UNCHANGED <<request, socket, silence, answer, sent>>

Environment ==
  \/ checkAPIVersion \/ Dial \/ Refused \/ ParentCancels
  \/ DaemonAnswers \/ DaemonSends \/ DaemonEnds

\* The steps of the goroutine in stream that need nothing but what is there.
StreamStep ==
  \/ WriteRequest \/ ReadResponse \/ Do \/ Status \/ newError
  \/ Read \/ ReadReturns \/ LoadCanceled \/ ChooseError \/ StopTimer \/ CloseBody

TimerStep == TimerExpires \/ TimerCancels \/ TimerStops
=============================================================================
