------------------------------- MODULE Hijack -------------------------------
(***************************************************************************)
(* Client.hijack (docker/client.go), the connection behind                 *)
(* AttachToContainer (container.go), StartExec (exec.go) and               *)
(* Resource.Exec (dockertest.go), with the TLS dial of tls.go: the         *)
(* caller, the goroutine that owns the connection, the two that copy, the  *)
(* daemon and the network.                                                 *)
(*                                                                         *)
(* A frame of stdcopy is two units of output, so that the output may end   *)
(* inside one; with a raw terminal a unit is what one Read gives.  An      *)
(* error is named for the copy that met it: in or out.                     *)
(***************************************************************************)
EXTENDS Naturals, Sequences

CONSTANTS
  OptionSet,   \* what the caller asks and what the command does, see Options
  Size         \* bound: units that the daemon sends

(* in: what InputStream is; out: a writer is set; cat: the command ends    *)
(* when its input ends.                                                    *)
Options == [in : {"none", "closer", "plain"}, out : BOOLEAN, raw : BOOLEAN, success : BOOLEAN,
            tls : BOOLEAN, timeout : BOOLEAN, cat : BOOLEAN]
ASSUME HijackConstants == OptionSet \subseteq Options /\ Size \in Nat

VARIABLES
  opts,
  call, result,            \* the caller, and what its Wait returned
  shake, timer, errChannel,   \* tlsDialWithDialer: Handshake's goroutine, AfterFunc and their channel
  quit,                    \* Close was called
  main, errIn, errs,       \* the goroutine that owns the connection, and its answer to Wait
  outg, errChanOut,        \* the goroutine that copies output
  ing, errChanIn,          \* the goroutine that copies input
  inEnds, inClosed,        \* the caller's input has ended; was closed by outg
  conn, half,              \* the connection; CloseWrite was called
  answer, sent, ended, got \* the daemon: what it answered, sent, and whether it closed; units written

dial   == <<shake, timer, errChannel>>
caller == <<call, result, quit>>
owner  == <<main, errIn, errs>>
copies == <<outg, errChanOut, ing, errChanIn, inClosed>>
daemon == <<answer, sent, ended>>
vars   == <<opts, caller, dial, owner, copies, inEnds, conn, half, daemon, got>>

Init ==
  /\ opts \in OptionSet
  /\ call = "dial" /\ result = "none" /\ quit = FALSE
  /\ shake = "none" /\ timer = (IF opts.tls /\ opts.timeout THEN "set" ELSE "none") /\ errChannel = <<>>
  /\ main = "none" /\ errIn = "nil" /\ errs = <<>>
  /\ outg = "none" /\ ing = "none" /\ errChanOut = <<>> /\ errChanIn = <<>>
  /\ inEnds = FALSE /\ inClosed = FALSE
  /\ conn = "none" /\ half = FALSE
  /\ answer = "none" /\ sent = 0 /\ ended = FALSE /\ got = 0

---------------------------------------------------------------------------
(* Dialling.  Without a timeout the caller runs Handshake itself: the same *)
(* steps, with no timer beside them.                                       *)

DialFails ==
  /\ call = "dial"
  /\ call' = "failed"
  /\ UNCHANGED <<opts, result, quit, dial, owner, copies, inEnds, conn, half, daemon, got>>

Dial ==
  /\ call = "dial"
  /\ conn' = "open"
  /\ IF opts.tls THEN call' = "shake" /\ shake' = "runs" /\ UNCHANGED main
     ELSE call' = "open" /\ main' = "do" /\ UNCHANGED shake
  /\ UNCHANGED <<opts, result, quit, timer, errChannel, errIn, errs, copies, inEnds, half, daemon, got>>

TimerFires ==
  /\ timer = "set"
  /\ timer' = "fired"
  /\ errChannel' = Append(errChannel, "timeout")
  /\ UNCHANGED <<opts, caller, shake, owner, copies, inEnds, conn, half, daemon, got>>

\* A bug Handshake does not have: a channel without room for the second error.
HandshakeUnbuffered(err) ==
  /\ shake = "runs" /\ (err = "nil" <=> conn = "open")
  /\ errChannel = <<>> /\ call = "shake"
  /\ shake' = "ended"
  /\ errChannel' = Append(errChannel, err)
  /\ UNCHANGED <<opts, caller, timer, owner, copies, inEnds, conn, half, daemon, got>>

\* errChannel has room for both errors (make(chan error, 2)).
Handshake(err) ==
  /\ shake = "runs" /\ (err = "nil" <=> conn = "open")
  /\ Len(errChannel) < 2
  /\ shake' = "ended"
  /\ errChannel' = Append(errChannel, err)
  /\ UNCHANGED <<opts, caller, timer, owner, copies, inEnds, conn, half, daemon, got>>

DialReturns ==
  /\ call = "shake" /\ errChannel # <<>>
  /\ errChannel' = Tail(errChannel)
  /\ IF Head(errChannel) = "nil" THEN call' = "open" /\ main' = "do" /\ UNCHANGED conn
     ELSE call' = "failed" /\ conn' = "closed" /\ UNCHANGED main
  /\ UNCHANGED <<opts, result, quit, shake, timer, errIn, errs, copies, inEnds, half, daemon, got>>

---------------------------------------------------------------------------
(* The goroutine that owns the connection                                  *)

\* What clientconn.Do returns is not looked at.
Do ==
  /\ main = "do" /\ (answer # "none" \/ conn # "open")
  /\ main' = (IF opts.success THEN "offer" ELSE "hijack")
  /\ UNCHANGED <<opts, caller, dial, errIn, errs, copies, inEnds, conn, half, daemon, got>>

\* hijackOptions.success: the caller takes the sentinel, and gives it back.
Sentinel ==
  /\ main \in {"offer", "resume"}
  /\ main' = (IF main = "offer" THEN "resume" ELSE "hijack")
  /\ UNCHANGED <<opts, caller, dial, errIn, errs, copies, inEnds, conn, half, daemon, got>>

StartCopies ==
  /\ main = "hijack"
  /\ main' = "waitIn"
  /\ outg' = (IF opts.out THEN "copy" ELSE "ended")
  /\ ing' = "copy"
  /\ UNCHANGED <<opts, caller, dial, errIn, errs, errChanOut, errChanIn, inClosed, inEnds, conn, half, daemon, got>>

ErrorIn ==
  /\ main = "waitIn"
  /\ \/ errChanIn # <<>> /\ errIn' = Head(errChanIn) /\ errChanIn' = Tail(errChanIn)
     \/ quit /\ UNCHANGED <<errIn, errChanIn>>
  /\ main' = "waitOut"
  /\ UNCHANGED <<opts, caller, dial, errs, outg, errChanOut, ing, inClosed, inEnds, conn, half, daemon, got>>

Report(errOut) == errs' = <<IF errIn # "nil" THEN errIn ELSE errOut>>

\* A bug ErrorOut does not have: a nil from the input is taken for the answer.
ErrorOutEarly ==
  /\ main = "waitOut"
  /\ \/ errChanOut # <<>> /\ Report(Head(errChanOut)) /\ errChanOut' = Tail(errChanOut)
     \/ Report("nil") /\ UNCHANGED errChanOut
  /\ main' = "close"
  /\ UNCHANGED <<opts, caller, dial, errIn, outg, ing, errChanIn, inClosed, inEnds, conn, half, daemon, got>>

\* Without writers errChanOut is closed, and gives nil at once.
ErrorOut ==
  /\ main = "waitOut"
  /\ \/ errChanOut # <<>> /\ Report(Head(errChanOut)) /\ errChanOut' = Tail(errChanOut)
     \/ (quit \/ ~opts.out) /\ Report("nil") /\ UNCHANGED errChanOut
  /\ main' = "close"
  /\ UNCHANGED <<opts, caller, dial, errIn, outg, ing, errChanIn, inClosed, inEnds, conn, half, daemon, got>>

CloseConnection ==
  /\ main = "close"
  /\ main' = "ended"
  /\ conn' = "closed"
  /\ UNCHANGED <<opts, caller, dial, errIn, errs, copies, inEnds, half, daemon, got>>

---------------------------------------------------------------------------
(* The copies.  errChanIn has room for the error of each.                  *)

\* io.Copy writes a unit, StdCopy a whole frame.  StdCopy takes an error's text
\* for a frame it does not know.
Frame    == IF opts.raw THEN 1 ELSE 2
Readable == conn = "open" /\ got + Frame <= sent
Framed   == opts.raw \/ answer = "upgraded"
CopyOut ==
  /\ outg = "copy" /\ Readable /\ Framed
  /\ got' = got + Frame
  /\ UNCHANGED <<opts, caller, dial, owner, copies, inEnds, conn, half, daemon>>

\* The end of the output, of the connection, or an error of a writer or in a
\* frame.  An end inside a frame is an end like any other: StdCopy gives nil.
CopyOutEnds(err) ==
  /\ outg = "copy"
  /\ IF err = "nil" THEN conn = "open" /\ ended /\ sent < got + Frame ELSE conn # "open" \/ Readable
  /\ errChanOut' = <<err>>
  /\ outg' = "closeIn"
  /\ UNCHANGED <<opts, caller, dial, owner, ing, errChanIn, inClosed, inEnds, conn, half, daemon, got>>

CloseIn ==
  /\ outg = "closeIn"
  /\ inClosed' = (opts.in = "closer")
  /\ outg' = (IF opts.in = "none" THEN "ended" ELSE "send")
  /\ UNCHANGED <<opts, caller, dial, owner, errChanOut, ing, errChanIn, inEnds, conn, half, daemon, got>>

\* A bug SendIn does not have: only the end of the input answers for it.
SendNoIn ==
  /\ outg = "send"
  /\ outg' = "ended"
  /\ UNCHANGED <<opts, caller, dial, owner, errChanOut, ing, errChanIn, inClosed, inEnds, conn, half, daemon, got>>

SendIn ==
  /\ outg = "send" /\ Len(errChanIn) < 2
  /\ errChanIn' = Append(errChanIn, "nil")
  /\ outg' = "ended"
  /\ UNCHANGED <<opts, caller, dial, owner, errChanOut, ing, inClosed, inEnds, conn, half, daemon, got>>

\* The end of the input; an error of its reader, or of the connection that
\* it writes to.
InputOver == opts.in = "none" \/ inEnds \/ inClosed
CopyInEnds(err) ==
  /\ ing = "copy" /\ Len(errChanIn) < 2
  /\ IF err = "nil" THEN opts.in = "none" \/ (inEnds /\ ~inClosed) ELSE opts.in # "none"
  /\ errChanIn' = Append(errChanIn, err)
  /\ ing' = "closeWrite"
  /\ UNCHANGED <<opts, caller, dial, owner, outg, errChanOut, inClosed, inEnds, conn, half, daemon, got>>

CloseWrite ==
  /\ ing = "closeWrite"
  /\ half' = TRUE
  /\ ing' = "ended"
  /\ UNCHANGED <<opts, caller, dial, owner, outg, errChanOut, errChanIn, inClosed, inEnds, conn, daemon, got>>

---------------------------------------------------------------------------
(* The caller, its CloseWaiter and its input                               *)

\* A second Close would panic: the channel is closed already.
Close ==
  /\ call = "open" /\ ~quit
  /\ quit' = TRUE
  /\ UNCHANGED <<opts, call, result, dial, owner, copies, inEnds, conn, half, daemon, got>>

Wait ==
  /\ call = "open" /\ errs # <<>>
  /\ result' = Head(errs)
  /\ errs' = <<>>
  /\ call' = "done"
  /\ UNCHANGED <<opts, quit, dial, main, errIn, copies, inEnds, conn, half, daemon, got>>

InputEnds ==
  /\ opts.in # "none" /\ ~inEnds
  /\ inEnds' = TRUE
  /\ UNCHANGED <<opts, caller, dial, owner, copies, conn, half, daemon, got>>

---------------------------------------------------------------------------
(* The daemon and the network                                              *)

Answer ==
  /\ conn = "open" /\ main = "do" /\ answer = "none"
  /\ answer' \in {"upgraded", "refused"}
  /\ UNCHANGED <<opts, caller, dial, owner, copies, inEnds, conn, half, sent, ended, got>>

Send ==
  /\ conn = "open" /\ answer # "none" /\ ~ended /\ sent < Size
  /\ sent' = sent + 1
  /\ UNCHANGED <<opts, caller, dial, owner, copies, inEnds, conn, half, answer, ended, got>>

End ==
  /\ conn = "open" /\ answer # "none" /\ ~ended
  /\ ended' = TRUE
  /\ UNCHANGED <<opts, caller, dial, owner, copies, inEnds, conn, half, answer, sent, got>>

Reset ==
  /\ conn = "open"
  /\ conn' = "reset"
  /\ UNCHANGED <<opts, caller, dial, owner, copies, inEnds, half, daemon, got>>

---------------------------------------------------------------------------
Next ==
  \/ DialFails \/ Dial \/ TimerFires \/ DialReturns
  \/ \E err \in {"nil", "failed"} : Handshake(err)
  \/ Do \/ Sentinel \/ StartCopies \/ ErrorIn \/ ErrorOut \/ CloseConnection
  \/ CopyOut \/ CloseIn \/ SendIn \/ CloseWrite
  \/ \E err \in {"nil", "out"} : CopyOutEnds(err)
  \/ \E err \in {"nil", "in"} : CopyInEnds(err)
  \/ Close \/ Wait \/ InputEnds
  \/ Answer \/ Send \/ End \/ Reset
Spec == Init /\ [][Next]_vars

(* Goroutines run, the caller's writers and its Closer return, a set timer *)
(* fires, and a command that ends with its input does.  Whether a daemon   *)
(* answers, a caller takes the sentinel or a reader ends is left open.     *)
FairSpec ==
  /\ Spec
  /\ WF_vars(TimerFires) /\ WF_vars(DialReturns) /\ WF_vars(conn # "open" /\ Handshake("failed"))
  /\ WF_vars(Do) /\ WF_vars(StartCopies) /\ WF_vars(ErrorIn) /\ WF_vars(ErrorOut) /\ WF_vars(CloseConnection)
  /\ WF_vars(CopyOut \/ CopyOutEnds("nil") \/ CopyOutEnds("out"))
  /\ WF_vars(CloseIn) /\ WF_vars(SendIn) /\ WF_vars(CloseWrite)
  /\ WF_vars(InputOver /\ (CopyInEnds("nil") \/ CopyInEnds("in")))
  /\ WF_vars(opts.cat /\ half /\ End)

---------------------------------------------------------------------------
(* A Wait that returns nil, where Close was not called and a writer is     *)
(* set, came after the end of the output and has written all of it; but    *)
(* without a raw terminal a frame that the daemon left unfinished is not   *)
(* written, and nil does not tell (StdCopy's answer to an end inside a     *)
(* frame).  There the daemon attached the caller, too, or its answer was   *)
(* shorter than a frame.                                                   *)
OutputWhole ==
  result = "nil" /\ ~quit /\ opts.out =>
    /\ ended
    /\ IF opts.raw THEN got = sent
       ELSE sent < got + Frame /\ (answer = "upgraded" \/ sent < Frame)

(* Wait returns after Close, at the end of the output, or, if no writer is *)
(* set, of the input; and a command that ends with its input is told that  *)
(* end.  With a timeout a TLS dial returns, whatever the daemon does.      *)
Started == main \notin {"none", "do", "offer", "resume"}
Over ==
  \/ quit
  \/ IF opts.out THEN ended \/ conn # "open" \/ (opts.cat /\ InputOver) ELSE InputOver
WaitReturns ==
  /\ (Started /\ Over ~> main = "ended")
  /\ (timer = "set" ~> call # "shake")

(* No goroutine outlives its connection, but one that reads a caller's     *)
(* input that nobody ends or closes; Handshake ends after a failed dial.   *)
Waiting == opts.in # "none" /\ ~(opts.in = "closer" /\ opts.out)
CopiesEnd ==
  /\ (main = "ended" ~> outg = "ended")
  /\ (main = "ended" /\ (Waiting => inEnds) ~> ing = "ended")
  /\ (call = "failed" ~> shake # "runs")
=============================================================================
