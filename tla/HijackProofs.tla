---------------------------- MODULE HijackProofs ----------------------------
(***************************************************************************)
(* Proofs about Hijack, for all options and any length of output.          *)
(***************************************************************************)
EXTENDS Hijack, TLAPS

Streams ==
  /\ opts \in Options
  /\ quit \in BOOLEAN /\ ended \in BOOLEAN
  /\ sent \in Nat /\ got \in Nat
  /\ answer \in {"none", "upgraded", "refused"}
  /\ errChanOut \in Seq({"nil", "out"})
  /\ errIn \in {"nil", "in"}
  /\ errs \in Seq({"nil", "in", "out"})
  /\ errChanIn \in Seq({"nil", "in"})
  /\ result \in {"none", "nil", "in", "out"}

(* What a nil stands for, from the copy of the output to the caller.       *)
Whole ==
  /\ ended
  /\ IF opts.raw THEN got = sent
     ELSE sent < got + Frame /\ (answer = "upgraded" \/ sent < Frame)
HasNil(errors) == \E i \in 1 .. Len(errors) : errors[i] = "nil"
Accounts ==
  /\ got <= sent
  /\ got > 0 => Framed
  /\ HasNil(errChanOut) => Whole
  /\ HasNil(errs) /\ ~quit /\ opts.out => Whole
  /\ result = "nil" /\ ~quit /\ opts.out => Whole

Inner == Streams /\ Accounts

---------------------------------------------------------------------------
(* What is sent to a channel and taken from it                             *)

LEMMA Received ==
  ASSUME NEW S, NEW q \in Seq(S), q # <<>>
  PROVE  /\ Head(q) = q[1] /\ Head(q) \in S /\ Tail(q) \in Seq(S)
         /\ Len(Tail(q)) = Len(q) - 1
         /\ HasNil(Tail(q)) => HasNil(q)
         /\ Head(q) = "nil" => HasNil(q)
<1>1. Len(q) \in Nat /\ Len(q) > 0 /\ Tail(q) \in Seq(S) /\ Len(Tail(q)) = Len(q) - 1
  OBVIOUS
<1>2. Head(q) = q[1] /\ q[1] \in S
  BY <1>1
<1>3. \A i \in 1 .. Len(Tail(q)) : i + 1 \in 1 .. Len(q) /\ Tail(q)[i] = q[i + 1]
  BY <1>1
<1>4. Head(q) = "nil" => HasNil(q)
  <2>1. 1 \in 1 .. Len(q) BY <1>1
  <2> QED BY <2>1, <1>2 DEF HasNil
<1>5. HasNil(Tail(q)) => HasNil(q)
  BY <1>3 DEF HasNil
<1> QED BY <1>1, <1>2, <1>4, <1>5

LEMMA Sent ==
  /\ ~HasNil(<<>>)
  /\ \A S : \A e \in S : <<e>> \in Seq(S) /\ (HasNil(<<e>>) <=> e = "nil")
BY DEF HasNil

LEMMA InnerInit == Init => Inner
<1> SUFFICES ASSUME Init PROVE Inner
  OBVIOUS
<1>1. opts \in Options
  BY HijackConstants DEF Init
<1>2. \A S : <<>> \in Seq(S)
  OBVIOUS
<1>3. Streams
  BY <1>1, <1>2 DEF Init, Streams
<1>4. Accounts
  BY Sent DEF Init, Accounts
<1> QED BY <1>3, <1>4 DEF Inner

(* All steps but these leave the output and the errors alone.              *)
LEMMA Others ==
  ASSUME Inner, UNCHANGED <<opts, quit, ended, sent, got, answer, errChanOut, errIn, errs, errChanIn, result>>
  PROVE  Inner'
BY DEF Inner, Streams, Accounts, Whole, Framed, Frame

LEMMA OutputSteps ==
  ASSUME Inner, CopyOut \/ \E err \in {"nil", "out"} : CopyOutEnds(err)
  PROVE  Inner'
<1> USE DEF Inner
<1>1. CASE CopyOut
  <2>1. got' = got + Frame /\ got + Frame <= sent /\ Framed /\ Frame \in {1, 2}
    BY <1>1 DEF CopyOut, Readable, Frame
  <2>2. UNCHANGED <<opts, quit, ended, sent, answer, errChanOut, errIn, errs, errChanIn, result>>
    BY <1>1 DEF CopyOut, caller, owner, copies, daemon
  <2>3. Streams'
    BY <2>1, <2>2 DEF Streams
  <2>4. ~Whole
    BY <2>1 DEF Whole, Streams, Frame
  <2>5. got' <= sent'
    BY <2>1, <2>2
  <2> QED BY <2>1, <2>2, <2>3, <2>4, <2>5 DEF Accounts, Framed
<1>2. ASSUME NEW err \in {"nil", "out"}, CopyOutEnds(err) PROVE Inner'
  <2>1. errChanOut' = <<err>> /\ (err = "nil" => ended /\ sent < got + Frame)
    BY <1>2 DEF CopyOutEnds
  <2>2. UNCHANGED <<opts, quit, ended, sent, got, answer, errIn, errs, errChanIn, result>>
    BY <1>2 DEF CopyOutEnds, caller, owner, daemon
  <2>3. Streams'
    BY <2>1, <2>2 DEF Streams
  <2>4. err = "nil" => Whole
    BY <2>1 DEF Whole, Accounts, Framed, Frame, Streams
  <2>5. HasNil(errChanOut') => Whole
    BY <2>1, <2>4, Sent
  <2>6. Whole' <=> Whole
    BY <2>2 DEF Whole, Frame
  <2>7. Accounts'
    BY <2>2, <2>5, <2>6 DEF Accounts, Framed
  <2> QED BY <2>3, <2>7
<1> QED BY <1>1, <1>2

LEMMA DaemonSteps ==
  ASSUME Inner, Answer \/ Send \/ End
  PROVE  Inner'
<1> USE DEF Inner, caller, owner, copies
<1>1. CASE Answer
  BY <1>1 DEF Answer, Streams, Accounts, Whole, Framed, Frame
<1>2. CASE Send
  <2>1. ~Whole BY <1>2 DEF Send, Whole
  <2> QED BY <1>2, <2>1 DEF Send, Streams, Accounts, Framed
<1>3. CASE End
  BY <1>3 DEF End, Streams, Accounts, Whole, Framed, Frame
<1> QED BY <1>1, <1>2, <1>3

LEMMA InputSteps ==
  ASSUME Inner, SendIn \/ \E err \in {"nil", "in"} : CopyInEnds(err)
  PROVE  Inner'
<1>1. \E e \in {"nil", "in"} : errChanIn' = Append(errChanIn, e)
  BY DEF SendIn, CopyInEnds
<1>2. UNCHANGED <<opts, quit, ended, sent, got, answer, errChanOut, errIn, errs, result>>
  BY DEF SendIn, CopyInEnds, caller, owner, daemon
<1>3. errChanIn' \in Seq({"nil", "in"})
  BY <1>1 DEF Inner, Streams
<1>4. Streams'
  BY <1>2, <1>3 DEF Inner, Streams
<1> QED BY <1>2, <1>4 DEF Inner, Accounts, Whole, Framed, Frame

LEMMA OwnerSteps ==
  ASSUME Inner, ErrorIn \/ ErrorOut
  PROVE  Inner'
<1> USE DEF Inner
<1>1. CASE ErrorIn
  <2>1. UNCHANGED <<opts, quit, ended, sent, got, answer, errChanOut, errs, result>>
    BY <1>1 DEF ErrorIn, caller, daemon
  <2>2. errIn' \in {"nil", "in"} /\ errChanIn' \in Seq({"nil", "in"})
    <3>1. errChanIn \in Seq({"nil", "in"}) /\ errIn \in {"nil", "in"}
      BY DEF Streams
    <3>2. errChanIn # <<>> => Head(errChanIn) \in {"nil", "in"} /\ Tail(errChanIn) \in Seq({"nil", "in"})
      BY <3>1, Received
    <3> QED BY <1>1, <3>1, <3>2 DEF ErrorIn
  <2>3. Streams'
    BY <2>1, <2>2 DEF Streams
  <2> QED BY <2>1, <2>3 DEF Accounts, Whole, Framed, Frame
<1>2. CASE ErrorOut
  <2>1. UNCHANGED <<opts, quit, ended, sent, got, answer, errIn, errChanIn, result>>
    BY <1>2 DEF ErrorOut, caller, daemon
  <2>2. PICK e \in {"nil", "in", "out"} :
          errs' = <<e>> /\ (e = "nil" /\ ~quit /\ opts.out => HasNil(errChanOut))
    <3>1. errChanOut # <<>> => Head(errChanOut) \in {"nil", "out"} /\ (Head(errChanOut) = "nil" => HasNil(errChanOut))
      BY Received DEF Streams
    <3> QED BY <1>2, <3>1 DEF ErrorOut, Report, Streams
  <2>3. errChanOut' \in Seq({"nil", "out"}) /\ (HasNil(errChanOut') => HasNil(errChanOut))
    <3>1. errChanOut \in Seq({"nil", "out"})
      BY DEF Streams
    <3>2. ASSUME errChanOut # <<>>
          PROVE  Tail(errChanOut) \in Seq({"nil", "out"}) /\ (HasNil(Tail(errChanOut)) => HasNil(errChanOut))
      BY <3>1, <3>2, Received
    <3>3. CASE errChanOut # <<>> /\ errChanOut' = Tail(errChanOut)
      BY <3>2, <3>3
    <3>4. CASE errChanOut' = errChanOut
      BY <3>1, <3>4
    <3> QED BY <1>2, <3>3, <3>4 DEF ErrorOut
  <2>4. errs' \in Seq({"nil", "in", "out"}) /\ (HasNil(errs') <=> e = "nil")
    BY <2>2, Sent
  <2>5. Streams'
    BY <2>1, <2>3, <2>4 DEF Streams
  <2>6. Whole' <=> Whole
    BY <2>1 DEF Whole, Frame
  <2> QED BY <2>1, <2>2, <2>3, <2>4, <2>5, <2>6 DEF Accounts, Framed
<1> QED BY <1>1, <1>2

LEMMA CallerSteps ==
  ASSUME Inner, Close \/ Wait
  PROVE  Inner'
<1> USE DEF Inner, owner, copies, daemon
<1>1. CASE Close
  BY <1>1 DEF Close, Streams, Accounts, Whole, Framed, Frame
<1>2. CASE Wait
  <2>1. /\ UNCHANGED <<opts, quit, ended, sent, got, answer, errChanOut, errIn, errChanIn>>
        /\ errs # <<>> /\ result' = Head(errs) /\ errs' = <<>>
    BY <1>2 DEF Wait
  <2>2. Head(errs) \in {"nil", "in", "out"} /\ (Head(errs) = "nil" => HasNil(errs))
    BY <2>1, Received DEF Streams
  <2>3. errs' \in Seq({"nil", "in", "out"}) /\ ~HasNil(errs')
    BY <2>1, Sent
  <2>4. Streams'
    BY <2>1, <2>2, <2>3 DEF Streams
  <2> QED BY <2>1, <2>2, <2>3, <2>4 DEF Accounts, Whole, Framed, Frame
<1> QED BY <1>1, <1>2

LEMMA InnerNext == Inner /\ [Next]_vars => Inner'
<1> SUFFICES ASSUME Inner, [Next]_vars PROVE Inner'
  OBVIOUS
<1>1. CASE \/ DialFails \/ Dial \/ TimerFires \/ DialReturns
           \/ \E err \in {"nil", "failed"} : Handshake(err)
           \/ Do \/ Sentinel \/ StartCopies \/ CloseConnection \/ CloseIn \/ CloseWrite
           \/ InputEnds \/ Reset \/ UNCHANGED vars
  <2>1. UNCHANGED <<opts, quit, ended, sent, got, answer, errChanOut, errIn, errs, errChanIn, result>>
    BY <1>1 DEF DialFails, Dial, TimerFires, DialReturns, Handshake, Do, Sentinel, StartCopies,
                CloseConnection, CloseIn, CloseWrite, InputEnds, Reset, vars, dial, caller, owner, copies, daemon
  <2> QED BY <2>1, Others
<1>2. CASE CopyOut \/ \E err \in {"nil", "out"} : CopyOutEnds(err)
  BY <1>2, OutputSteps
<1>3. CASE Answer \/ Send \/ End
  BY <1>3, DaemonSteps
<1>4. CASE SendIn \/ \E err \in {"nil", "in"} : CopyInEnds(err)
  BY <1>4, InputSteps
<1>5. CASE ErrorIn \/ ErrorOut
  BY <1>5, OwnerSteps
<1>6. CASE Close \/ Wait
  BY <1>6, CallerSteps
<1> QED BY <1>1, <1>2, <1>3, <1>4, <1>5, <1>6 DEF Next

(* A Wait that returns nil, without Close, came after the end of the       *)
(* output and has written all of it, but for a frame that the daemon left  *)
(* unfinished where the terminal is not raw: neither the order of the two  *)
(* errors nor the answer that the output's goroutine gives for the input   *)
(* loses an error.  (client.go 787-857, stdcopy.go 108-163)                *)
THEOREM OutputIsWhole == Spec => []OutputWhole
<1>1. Inner => OutputWhole
  BY DEF Inner, Accounts, Whole, OutputWhole
<1> QED BY <1>1, InnerInit, InnerNext, PTL DEF Spec
---------------------------------------------------------------------------
(* Room in the channels                                                    *)

(* Each copy answers for the input once, Handshake and the timer send one  *)
(* error each, and so do the output's copy and the owner.                  *)
InOwes    == ing \in {"none", "copy"}
OutOwes   == outg \in {"none", "copy", "closeIn", "send"}
ShakeOwes == shake \in {"none", "runs"}
TimerOwes == timer = "set"
Room ==
  /\ errChanIn \in Seq({"nil", "in"}) /\ errChannel \in Seq({"nil", "failed", "timeout"})
  /\ Len(errChanIn) <= 2 /\ Len(errChannel) <= 2
  /\ InOwes \/ OutOwes => Len(errChanIn) <= 1
  /\ InOwes /\ OutOwes => Len(errChanIn) = 0
  /\ ShakeOwes \/ TimerOwes => Len(errChannel) <= 1
  /\ ShakeOwes /\ TimerOwes => Len(errChannel) = 0
  /\ outg \in {"none", "copy"} => errChanOut = <<>>
  /\ main \notin {"close", "ended"} => errs = <<>>
  /\ call \in {"dial", "shake"} => main = "none"
  /\ call = "dial" => shake = "none"
  /\ main \in {"none", "do", "offer", "resume", "hijack"} => ing = "none" /\ outg = "none"

(* What a goroutine finds when it sends.                                   *)
NothingBlocks ==
  /\ outg = "send" \/ ing = "copy" => Len(errChanIn) < 2
  /\ shake = "runs" \/ timer = "set" => Len(errChannel) < 2
  /\ outg = "copy" => errChanOut = <<>>
  /\ main = "waitOut" => errs = <<>>

LEMMA Queues ==
  ASSUME NEW S, NEW q \in Seq(S), NEW e \in S
  PROVE  /\ Len(q) \in Nat
         /\ Append(q, e) \in Seq(S) /\ Len(Append(q, e)) = Len(q) + 1
         /\ q # <<>> => Tail(q) \in Seq(S) /\ Len(Tail(q)) = Len(q) - 1
OBVIOUS

LEMMA RoomInit == Init => Room
<1> SUFFICES ASSUME Init PROVE Room
  OBVIOUS
<1>1. \A S : <<>> \in Seq(S)
  OBVIOUS
<1> QED BY <1>1 DEF Init, Room, InOwes, OutOwes, ShakeOwes, TimerOwes

LEMMA RoomNext == Room /\ [Next]_vars => Room'
<1> SUFFICES ASSUME Room, [Next]_vars PROVE Room'
  OBVIOUS
<1> USE DEF Room, InOwes, OutOwes, ShakeOwes, TimerOwes, dial, caller, owner, copies, daemon
<1> DEFINE Kept == UNCHANGED <<errChanIn, ing, outg, errChannel, shake, timer, errChanOut, main, errs, call>>
<1>1. Len(errChanIn) \in Nat /\ Len(errChannel) \in Nat
  OBVIOUS
<1>2. CASE CopyOut \/ Close \/ InputEnds \/ Answer \/ Send \/ End \/ Reset \/ UNCHANGED vars
  <2>1. Kept
    BY <1>2 DEF CopyOut, Close, InputEnds, Answer, Send, End, Reset, vars
  <2> QED BY <2>1
<1>3. CASE DialFails \/ Dial \/ Do \/ Sentinel \/ CloseConnection
  <2>1. CASE Dial BY <1>1, <2>1 DEF Dial
  <2>2. CASE Do BY <2>2 DEF Do
  <2>3. CASE Sentinel BY <2>3 DEF Sentinel
  <2>4. CASE CloseConnection BY <2>4 DEF CloseConnection
  <2>5. CASE DialFails BY <1>1, <2>5 DEF DialFails
  <2> QED BY <1>3, <2>1, <2>2, <2>3, <2>4, <2>5
<1>4. CASE StartCopies \/ CloseIn \/ CloseWrite
  <2>1. CASE StartCopies BY <1>1, <2>1 DEF StartCopies
  <2>2. CASE CloseIn BY <1>1, <2>2 DEF CloseIn
  <2>3. CASE CloseWrite BY <1>1, <2>3 DEF CloseWrite
  <2> QED BY <1>4, <2>1, <2>2, <2>3
<1>5. CASE TimerFires \/ DialReturns \/ \E err \in {"nil", "failed"} : Handshake(err)
  <2>1. CASE TimerFires
    BY <1>1, <2>1, Queues DEF TimerFires
  <2>2. CASE DialReturns
    <3>1. errChannel # <<>> /\ errChannel' = Tail(errChannel)
      BY <2>2 DEF DialReturns
    <3>2. errChannel' \in Seq({"nil", "failed", "timeout"}) /\ Len(errChannel') = Len(errChannel) - 1
      BY <3>1
    <3>3. UNCHANGED <<errChanIn, ing, outg, shake, timer, errChanOut, errs>>
      BY <2>2 DEF DialReturns
    <3>4. main' \in {"do", main} /\ call = "shake" /\ call' \in {"open", "failed"}
      BY <2>2 DEF DialReturns
    <3> QED BY <1>1, <3>1, <3>2, <3>3, <3>4
  <2>3. ASSUME NEW err \in {"nil", "failed"}, Handshake(err) PROVE Room'
    BY <1>1, <2>3, Queues DEF Handshake
  <2> QED BY <1>5, <2>1, <2>2, <2>3
<1>6. CASE ErrorIn
  BY <1>1, <1>6, Queues DEF ErrorIn
<1>7. CASE ErrorOut
  BY <1>1, <1>7 DEF ErrorOut
<1>8. CASE \E err \in {"nil", "out"} : CopyOutEnds(err)
  BY <1>1, <1>8 DEF CopyOutEnds
<1>9. CASE SendIn \/ \E err \in {"nil", "in"} : CopyInEnds(err)
  <2>1. CASE SendIn
    BY <1>1, <2>1, Queues DEF SendIn
  <2>2. ASSUME NEW err \in {"nil", "in"}, CopyInEnds(err) PROVE Room'
    BY <1>1, <2>2, Queues DEF CopyInEnds
  <2> QED BY <1>9, <2>1, <2>2
<1>10. CASE Wait
  BY <1>10 DEF Wait
<1> QED BY <1>2, <1>3, <1>4, <1>5, <1>6, <1>7, <1>8, <1>9, <1>10 DEF Next

(* No goroutine of a stream or of a dial waits to send an error: there is  *)
(* room for all that can be sent, whether or not anybody receives, so that *)
(* a Wait that is never called leaves none behind.  (client.go 785-849,    *)
(* tls.go 80-99)                                                           *)
THEOREM SendsHaveRoom == Spec => []NothingBlocks
<1>1. Room => NothingBlocks
  <2> SUFFICES ASSUME Room PROVE NothingBlocks
    OBVIOUS
  <2>1. Len(errChanIn) \in Nat /\ Len(errChannel) \in Nat
    BY DEF Room
  <2> QED BY <2>1 DEF Room, NothingBlocks, InOwes, OutOwes, ShakeOwes, TimerOwes
<1> QED BY <1>1, RoomInit, RoomNext, PTL DEF Spec
=============================================================================
