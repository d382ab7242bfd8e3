----------------------------- MODULE BytesPipe -----------------------------
(***************************************************************************)
(* ioutils.BytesPipe (docker/pkg/ioutils/bytespipe.go) over fixedBuffer    *)
(* (buffer.go): goroutines that read, write and close one pipe.  The mutex *)
(* is held from the beginning of a call to its end, but for cond.Wait; a   *)
(* step is one pass of a loop.                                             *)
(***************************************************************************)
EXTENDS Integers, Sequences

CONSTANTS
  Readers, Writers, Closers,    \* goroutines
  MinCap, MaxCap, Threshold,    \* 64, maxCap, blockThreshold
  ReadSizes, WriteSizes,        \* lengths of the slices with which Read and Write are called
  MaxBytes                      \* bound: a call of Write begins while fewer are written

Procs  == Readers \cup Writers \cup Closers
Nobody == "nobody"
ASSUME PipeConstants ==
  /\ MinCap \in Nat \ {0} /\ MaxCap \in Nat /\ MinCap <= MaxCap
  /\ Threshold \in Nat \ {0} /\ ReadSizes \subseteq Nat /\ WriteSizes \subseteq Nat /\ MaxBytes \in Nat
  /\ Readers \cap Writers = {} /\ Closers \cap (Readers \cup Writers) = {}
  /\ Nobody \notin Procs

VARIABLES
  mu,              \* who holds the mutex
  buf, bufLen,     \* the buffers and the bytes in them that are not read
  closed,          \* closeErr # nil
  pc, len, n, cap, \* of each goroutine: what is left of its p, what it has moved, b.Cap()
  put, taken, chunk  \* history: bytes written, bytes read, those of the last copy (Pipe)

locals == <<pc, len, n, cap>>
vars   == <<mu, buf, bufLen, closed, locals, put, taken, chunk>>

(* fixedBuffer: pos bytes are written and lastRead of them read; start is  *)
(* the position of the first one in all that is written.                   *)
Buffer(size) == [cap |-> size, start |-> put, pos |-> 0, lastRead |-> 0]
Unread(b)  == b.pos - b.lastRead
Room(b)  == b.cap - b.pos
Least(a, b) == IF a <= b THEN a ELSE b
Final(s) == s[Len(s)]

Init ==
  /\ mu = Nobody /\ closed = FALSE /\ bufLen = 0
  /\ put = 0 /\ taken = 0 /\ chunk = <<0, 0>>
  /\ buf = <<[cap |-> MinCap, start |-> 0, pos |-> 0, lastRead |-> 0]>>
  /\ pc = [p \in Procs |-> "idle"]
  /\ len = [p \in Procs |-> 0] /\ n = [p \in Procs |-> 0] /\ cap = [p \in Procs |-> MinCap]

(* A call that has returned: without an error, or with closeErr or         *)
(* ErrClosed.                                                              *)
Returned(p) == pc[p] \in {"idle", "closed"}
Lock(p)   == mu = Nobody /\ mu' = p
Unlock    == mu' = Nobody
Goto(p, at) == pc' = [pc EXCEPT ![p] = at]
(* wait.Broadcast and the end of p's call.                                 *)
Woken(q)  == CASE pc[q] = "read waits" -> "read wakes" [] pc[q] = "write waits" -> "write wakes" [] OTHER -> pc[q]
\* A bug Broadcast does not have: Signal wakes one goroutine at most.
Signal(p) == \E q \in Procs : pc' = [pc EXCEPT ![q] = Woken(q), ![p] = "idle"]
Broadcast(p) == pc' = [q \in Procs |-> IF q = p THEN "idle" ELSE Woken(q)]

---------------------------------------------------------------------------
(* Write                                                                   *)

CallWrite(w) ==
  /\ Returned(w) /\ put < MaxBytes
  /\ \E k \in WriteSizes : len' = [len EXCEPT ![w] = k]
  /\ n' = [n EXCEPT ![w] = 0]
  /\ Goto(w, "lock")
  /\ UNCHANGED <<mu, buf, bufLen, closed, cap, put, taken, chunk>>

LockWrite(w) ==
  /\ pc[w] = "lock"
  /\ Lock(w)
  /\ Goto(w, "write")
  /\ UNCHANGED <<buf, bufLen, closed, len, n, cap, put, taken, chunk>>

WriteClosed(w) ==
  /\ pc[w] = "write" /\ closed
  /\ Goto(w, "closed")
  /\ Unlock
  /\ UNCHANGED <<buf, bufLen, closed, len, n, cap, put, taken, chunk>>

(* The last buffer takes what it has room for.                             *)
WriteCopy(w) ==
  /\ pc[w] = "write" /\ ~closed
  /\ LET bs == IF buf = <<>> THEN <<Buffer(MinCap)>> ELSE buf
         k  == Least(len[w], Room(Final(bs)))
     IN  /\ buf' = [bs EXCEPT ![Len(bs)].pos = @ + k]
         /\ bufLen' = bufLen + k
         /\ put' = put + k
         /\ n' = [n EXCEPT ![w] = @ + k]
         /\ len' = [len EXCEPT ![w] = @ - k]
         /\ cap' = [cap EXCEPT ![w] = Final(bs).cap]
         /\ IF k = len[w] THEN Broadcast(w) /\ Unlock
            ELSE Goto(w, "grow") /\ UNCHANGED mu
  /\ UNCHANGED <<closed, taken, chunk>>

WriteWaits(w) ==
  /\ pc[w] = "grow" /\ bufLen >= Threshold
  /\ Goto(w, "write waits")
  /\ Unlock
  /\ UNCHANGED <<buf, bufLen, closed, len, n, cap, put, taken, chunk>>

WriteWakes(w) ==
  /\ pc[w] = "write wakes"
  /\ Lock(w)
  /\ Goto(w, IF closed THEN "write" ELSE "grow")
  /\ UNCHANGED <<buf, bufLen, closed, len, n, cap, put, taken, chunk>>

\* A bug WriteGrow does not have: the threshold is looked at once.
WriteGrowsOn(w) ==
  /\ pc[w] = "grow"
  /\ buf' = Append(buf, Buffer(Least(2 * cap[w], MaxCap)))
  /\ Goto(w, "write")
  /\ UNCHANGED <<mu, bufLen, closed, len, n, cap, put, taken, chunk>>

WriteGrow(w) ==
  /\ pc[w] = "grow" /\ bufLen < Threshold
  /\ buf' = Append(buf, Buffer(Least(2 * cap[w], MaxCap)))
  /\ Goto(w, "write")
  /\ UNCHANGED <<mu, bufLen, closed, len, n, cap, put, taken, chunk>>

---------------------------------------------------------------------------
(* Read                                                                    *)

CallRead(r) ==
  /\ Returned(r)
  /\ \E k \in ReadSizes : len' = [len EXCEPT ![r] = k]
  /\ n' = [n EXCEPT ![r] = 0]
  /\ Goto(r, "lock")
  /\ UNCHANGED <<mu, buf, bufLen, closed, cap, put, taken, chunk>>

ReadClosed(r) ==
  /\ pc[r] \in {"lock", "read wakes"} /\ mu = Nobody
  /\ bufLen = 0 /\ closed
  /\ Goto(r, "closed")
  /\ UNCHANGED <<mu, buf, bufLen, closed, len, n, cap, put, taken, chunk>>

ReadWaits(r) ==
  /\ pc[r] = "lock" /\ mu = Nobody
  /\ bufLen = 0 /\ ~closed
  /\ Goto(r, "read waits")
  /\ UNCHANGED <<mu, buf, bufLen, closed, len, n, cap, put, taken, chunk>>

\* A bug ReadStarts does not have: it does not wait for a Write.
ReadStartsEmpty(r) ==
  /\ pc[r] \in {"lock", "read wakes"} /\ (bufLen > 0 \/ ~closed)
  /\ Lock(r)
  /\ Goto(r, "copy")
  /\ UNCHANGED <<buf, bufLen, closed, len, n, cap, put, taken, chunk>>

(* Once woken it goes on, with bytes or without.                           *)
ReadStarts(r) ==
  /\ \/ pc[r] = "lock" /\ bufLen > 0
     \/ pc[r] = "read wakes" /\ (bufLen > 0 \/ ~closed)
  /\ Lock(r)
  /\ Goto(r, "copy")
  /\ UNCHANGED <<buf, bufLen, closed, len, n, cap, put, taken, chunk>>

\* A bug ReadCopy does not have: lastRead stays behind.
ReadCopyAgain(r) ==
  /\ pc[r] = "copy" /\ bufLen > 0
  /\ LET b == Head(buf)
         k == Least(len[r], Unread(b))
         at == b.start + b.lastRead
     IN  /\ buf' = IF k = Unread(b) THEN Tail(buf) ELSE buf
         /\ bufLen' = bufLen - k
         /\ taken' = taken + k
         /\ chunk' = IF k = 0 THEN chunk ELSE <<at, at + k>>
         /\ n' = [n EXCEPT ![r] = @ + k]
         /\ len' = [len EXCEPT ![r] = @ - k]
         /\ IF k = len[r] THEN Broadcast(r) /\ Unlock ELSE UNCHANGED <<pc, mu>>
  /\ UNCHANGED <<closed, cap, put>>

(* The first buffer gives what p takes, and goes when it is empty.         *)
ReadCopy(r) ==
  /\ pc[r] = "copy" /\ bufLen > 0
  /\ LET b == Head(buf)
         k == Least(len[r], Unread(b))
         at == b.start + b.lastRead
     IN  /\ buf' = IF k = Unread(b) THEN Tail(buf) ELSE [buf EXCEPT ![1].lastRead = @ + k]
         /\ bufLen' = bufLen - k
         /\ taken' = taken + k
         /\ chunk' = IF k = 0 THEN chunk ELSE <<at, at + k>>
         /\ n' = [n EXCEPT ![r] = @ + k]
         /\ len' = [len EXCEPT ![r] = @ - k]
         /\ IF k = len[r] THEN Broadcast(r) /\ Unlock ELSE UNCHANGED <<pc, mu>>
  /\ UNCHANGED <<closed, cap, put>>

ReadDone(r) ==
  /\ pc[r] = "copy" /\ bufLen = 0
  /\ Broadcast(r)
  /\ Unlock
  /\ UNCHANGED <<buf, bufLen, closed, len, n, cap, put, taken, chunk>>

\* A bug CloseWithError does not have: it wakes nobody.
CloseSilently(c) ==
  /\ mu = Nobody
  /\ closed' = TRUE
  /\ UNCHANGED <<mu, pc, buf, bufLen, len, n, cap, put, taken, chunk>>

(* CloseWithError, any number of times.                                    *)
CloseWithError(c) ==
  /\ mu = Nobody
  /\ closed' = TRUE
  /\ pc' = [q \in Procs |-> Woken(q)]
  /\ UNCHANGED <<mu, buf, bufLen, len, n, cap, put, taken, chunk>>

---------------------------------------------------------------------------
Write(w) == LockWrite(w) \/ WriteClosed(w) \/ WriteCopy(w) \/ WriteWaits(w) \/ WriteWakes(w) \/ WriteGrow(w)
Read(r)  == ReadClosed(r) \/ ReadWaits(r) \/ ReadStarts(r) \/ ReadCopy(r) \/ ReadDone(r)
Next ==
  \/ \E w \in Writers : CallWrite(w) \/ Write(w)
  \/ \E r \in Readers : CallRead(r) \/ Read(r)
  \/ \E c \in Closers : CloseWithError(c)
Bytes == INSTANCE Pipe WITH put <- put, taken <- taken, chunk <- chunk, closed <- closed
Spec  == Init /\ [][Next]_vars

(* sync.Mutex is handed to those that wait for it, and readers keep        *)
(* reading; Write and Close are called or not.                             *)
FairSpec ==
  /\ Spec
  /\ \A w \in Writers : SF_vars(Write(w))
  /\ \A r \in Readers : SF_vars(Read(r)) /\ WF_vars(CallRead(r))

---------------------------------------------------------------------------
(* The pipe is the queue of Pipe: whatever goroutines read and write at    *)
(* once, however buffers are filled, emptied and given back, a Read takes  *)
(* the bytes that follow those taken before, each once, and no Write that  *)
(* waited for room goes on after Close.                                    *)
IsPipe == Bytes!Spec

(* Memory is bounded: a Write of any length fills at most the buffer that  *)
(* it got below the threshold.                                             *)
Bounded == bufLen <= Threshold - 1 + MaxCap

(* One reader, whose pipe is never written an empty slice, gets a byte or  *)
(* an error: it waits once only, and every wake-up brings one of them.     *)
ReadsSomething ==
  (\A r, q \in Readers : r = q) /\ 0 \notin WriteSizes =>
    \A r \in Readers : pc[r] = "idle" /\ n[r] = 0 => len[r] = 0

(* No wake-up is lost, though readers and writers wait on one condition    *)
(* and each looks at it only when it is woken: a Read waits for bytes that *)
(* are there only while the Write that brought them has not returned, and  *)
(* a Write for room that is there only while the Read that made it has not *)
(* returned.  Nobody waits on a pipe that is closed.  (A Write that itself *)
(* waits has not returned: see WritesReturn.)                              *)
Midway == {"write", "grow", "write waits", "write wakes"}
NoneForgotten ==
  /\ \A r \in Readers : pc[r] = "read waits" =>
       ~closed /\ (bufLen = 0 \/ \E w \in Writers : pc[w] \in Midway)
  /\ \A w \in Writers : pc[w] = "write waits" =>
       ~closed /\ (bufLen >= Threshold \/ \E r \in Readers : pc[r] = "copy")

(* Close ends every call, those that wait for bytes or for room included.  *)
ClosedEnds == \A p \in Readers \cup Writers : closed /\ ~Returned(p) ~> Returned(p)

(* A Write returns if the reader goes on reading.                          *)
WritesReturn == \A w \in Writers : ~Returned(w) ~> Returned(w)
=============================================================================
