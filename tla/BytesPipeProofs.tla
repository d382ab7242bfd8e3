-------------------------- MODULE BytesPipeProofs --------------------------
(***************************************************************************)
(* Proofs about BytesPipe, for every number of goroutines, every capacity  *)
(* and threshold, and every length of slice.                               *)
(***************************************************************************)
EXTENDS BytesPipe, TLAPS

Places ==
  {"idle", "closed", "lock", "write", "grow", "write waits", "write wakes",
   "copy", "read waits", "read wakes"}
Buffers == [cap : Nat, start : Nat, pos : Nat, lastRead : Nat]

TypeInv ==
  /\ mu \in Procs \cup {Nobody} /\ closed \in BOOLEAN
  /\ bufLen \in Nat /\ put \in Nat /\ taken \in Nat
  /\ buf \in Seq(Buffers)
  /\ pc \in [Procs -> Places]
  /\ len \in [Procs -> Nat] /\ n \in [Procs -> Nat] /\ cap \in [Procs -> Nat]

(* The buffers hold, one after the other, the bytes from taken to put.     *)
Sound(b)  == b.lastRead <= b.pos /\ b.pos <= b.cap /\ b.cap <= MaxCap
Chained   == \A i \in 1 .. Len(buf) - 1 : buf[i].start + buf[i].pos = buf[i + 1].start
Queue ==
  /\ \A i \in 1 .. Len(buf) : Sound(buf[i])
  /\ \A i \in 1 .. Len(buf) : buf[i].start + buf[i].pos <= put
  /\ \A i \in 2 .. Len(buf) : buf[i].lastRead = 0
  /\ Chained
  /\ buf # <<>> => buf[1].start + buf[1].lastRead = taken /\ buf[Len(buf)].start + buf[Len(buf)].pos = put
  /\ buf = <<>> => put = taken
  /\ taken + bufLen = put

(* What the pipe holds and the room in the last buffer.                    *)
Memory ==
  /\ bufLen <= Threshold - 1 + MaxCap
  /\ buf # <<>> => bufLen + Room(buf[Len(buf)]) <= Threshold - 1 + MaxCap

(* A reader that is woken finds bytes or the pipe closed, and one that     *)
(* copies has bytes or will.                                               *)
OneReader == (\A r, q \in Readers : r = q) /\ 0 \notin WriteSizes
Waking ==
  OneReader =>
    /\ \A w \in Writers : pc[w] \in {"lock", "write", "grow", "write waits", "write wakes"} => len[w] > 0
    /\ \A r \in Readers :
         /\ pc[r] = "read wakes" => bufLen > 0 \/ closed
         /\ pc[r] = "copy" => bufLen > 0 \/ n[r] > 0
         /\ pc[r] = "idle" /\ n[r] = 0 => len[r] = 0

---------------------------------------------------------------------------
(* The steps that move bytes                                               *)

(* The least of two numbers is one of them and below both.                 *)
LEMMA LeastOf ==
  \A a, b \in Nat : Least(a, b) \in Nat /\ Least(a, b) <= a /\ Least(a, b) <= b /\ Least(a, b) \in {a, b}
BY DEF Least

(* WriteCopy starts from buffers to whose last one it may add: those there *)
(* are or, when there is none, a new one.                                  *)
Filled == IF buf = <<>> THEN <<Buffer(MinCap)>> ELSE buf

LEMMA FilledSound ==
  ASSUME TypeInv, Queue, Memory
  PROVE  /\ Filled \in Seq(Buffers) /\ Filled # <<>> /\ Len(Filled) \in Nat \ {0}
         /\ \A i \in 1 .. Len(Filled) : Sound(Filled[i])
         /\ \A i \in 1 .. Len(Filled) : Filled[i].start + Filled[i].pos <= put
         /\ \A i \in 2 .. Len(Filled) : Filled[i].lastRead = 0
         /\ \A i \in 1 .. Len(Filled) - 1 : Filled[i].start + Filled[i].pos = Filled[i + 1].start
         /\ Filled[1].start + Filled[1].lastRead = taken
         /\ Filled[Len(Filled)].start + Filled[Len(Filled)].pos = put
         /\ bufLen + Room(Filled[Len(Filled)]) <= Threshold - 1 + MaxCap
<1>1. CASE buf = <<>>
  <2>1. Buffer(MinCap) \in Buffers
    BY PipeConstants DEF Buffer, Buffers, TypeInv
  <2>2. Filled = <<Buffer(MinCap)>> /\ Len(Filled) = 1 /\ Filled[1] = Buffer(MinCap)
    BY <1>1 DEF Filled
  <2>3. Sound(Buffer(MinCap)) /\ Room(Buffer(MinCap)) = MinCap
    BY PipeConstants DEF Sound, Buffer, Room, TypeInv
  <2>4. bufLen = 0 /\ put = taken
    BY <1>1 DEF Queue, TypeInv
  <2> QED
    BY <2>1, <2>2, <2>3, <2>4, PipeConstants DEF Buffer, TypeInv
<1>2. CASE buf # <<>>
  <2>1. Filled = buf
    BY <1>2 DEF Filled
  <2> QED
    BY <2>1, <1>2 DEF Queue, Memory, TypeInv, Chained
<1> QED BY <1>1, <1>2

LEMMA WriteCopyKeeps ==
  ASSUME TypeInv, Queue, Memory, NEW w \in Writers, WriteCopy(w)
  PROVE  TypeInv' /\ Queue' /\ Memory'
<1> DEFINE last == Len(Filled)
           k    == Least(len[w], Room(Filled[last]))
<1>1. /\ buf' = [Filled EXCEPT ![last].pos = @ + k] /\ bufLen' = bufLen + k /\ put' = put + k
      /\ n' = [n EXCEPT ![w] = @ + k] /\ len' = [len EXCEPT ![w] = @ - k]
      /\ cap' = [cap EXCEPT ![w] = Filled[last].cap]
      /\ IF k = len[w] THEN Broadcast(w) /\ Unlock ELSE Goto(w, "grow") /\ UNCHANGED mu
      /\ UNCHANGED <<closed, taken, chunk>>
  BY DEF WriteCopy, Filled, Final
<1>2. w \in Procs /\ len[w] \in Nat
  BY DEF Procs, TypeInv
<1>3. /\ Filled \in Seq(Buffers) /\ last \in Nat \ {0} /\ Filled[last] \in Buffers
      /\ Sound(Filled[last])
  BY FilledSound
<1>4. Room(Filled[last]) \in Nat /\ Room(Filled[last]) = Filled[last].cap - Filled[last].pos
  BY <1>3 DEF Sound, Room, Buffers
<1>5. k \in Nat /\ k <= len[w] /\ k <= Room(Filled[last])
  BY <1>2, <1>4, LeastOf
<1> HIDE DEF k
<1>6. /\ Len(buf') = last /\ buf' # <<>>
      /\ \A i \in 1 .. last : i # last => buf'[i] = Filled[i]
      /\ buf'[last] = [Filled[last] EXCEPT !.pos = @ + k]
  BY <1>1, <1>3
<1>7. /\ buf'[last].cap = Filled[last].cap /\ buf'[last].start = Filled[last].start
      /\ buf'[last].lastRead = Filled[last].lastRead /\ buf'[last].pos = Filled[last].pos + k
      /\ buf'[last] \in Buffers
  <2> DEFINE old == Filled[last]
  <2>1. old \in Buffers /\ k \in Nat /\ buf'[last] = [old EXCEPT !.pos = @ + k]
    BY <1>3, <1>5, <1>6
  <2> HIDE DEF old
  <2>2. /\ buf'[last].cap = old.cap /\ buf'[last].start = old.start
        /\ buf'[last].lastRead = old.lastRead /\ buf'[last].pos = old.pos + k
        /\ buf'[last] \in Buffers
    BY <2>1 DEF Buffers
  <2> QED BY <2>2 DEF old
<1>8. buf' \in Seq(Buffers)
  BY <1>1, <1>3, <1>6, <1>7
<1>9. pc' \in [Procs -> Places] /\ mu' \in Procs \cup {Nobody}
  <2>1. CASE k = len[w]
    BY <1>1, <2>1, PipeConstants DEF Broadcast, Woken, Unlock, TypeInv, Places, Procs
  <2>2. CASE k # len[w]
    BY <1>1, <2>2 DEF Goto, TypeInv, Places
  <2> QED BY <2>1, <2>2
<1>10. TypeInv'
  <2>1. len[w] - k \in Nat /\ Filled[last].cap \in Nat
    BY <1>2, <1>3, <1>5 DEF Buffers
  <2>2. len' \in [Procs -> Nat] /\ n' \in [Procs -> Nat] /\ cap' \in [Procs -> Nat]
    <3>1. len \in [Procs -> Nat] /\ n \in [Procs -> Nat] /\ cap \in [Procs -> Nat] /\ n[w] + k \in Nat
      BY <1>2, <1>5 DEF TypeInv
    <3>2. len' = [len EXCEPT ![w] = len[w] - k] /\ n' = [n EXCEPT ![w] = n[w] + k]
          /\ cap' = [cap EXCEPT ![w] = Filled[last].cap]
      BY <1>1
    <3> QED BY <3>1, <3>2, <2>1, <1>2
  <2>3. bufLen' \in Nat /\ put' \in Nat /\ taken' \in Nat /\ closed' \in BOOLEAN
    BY <1>1, <1>5 DEF TypeInv
  <2> QED BY <1>8, <1>9, <2>2, <2>3 DEF TypeInv
<1>11. \A i \in 1 .. last : Sound(buf'[i])
  <2> SUFFICES ASSUME NEW i \in 1 .. last PROVE Sound(buf'[i])
    OBVIOUS
  <2>1. CASE i = last
    BY <2>1, <1>3, <1>4, <1>5, <1>7 DEF Sound, Buffers
  <2>2. CASE i # last
    BY <2>2, <1>6, FilledSound
  <2> QED BY <2>1, <2>2
<1>12. \A i \in 2 .. last : buf'[i].lastRead = 0
  <2>1. \A i \in 2 .. last : Filled[i].lastRead = 0
    BY FilledSound
  <2>2. \A i \in 2 .. last : buf'[i].lastRead = Filled[i].lastRead
    <3> SUFFICES ASSUME NEW i \in 2 .. last PROVE buf'[i].lastRead = Filled[i].lastRead
      OBVIOUS
    <3>1. CASE i = last BY <3>1, <1>7
    <3>2. CASE i # last BY <3>2, <1>3, <1>6
    <3> QED BY <3>1, <3>2
  <2> QED BY <2>1, <2>2
<1>13. \A i \in 1 .. last - 1 : buf'[i].start + buf'[i].pos = buf'[i + 1].start
  <2> SUFFICES ASSUME NEW i \in 1 .. last - 1 PROVE buf'[i].start + buf'[i].pos = buf'[i + 1].start
    OBVIOUS
  <2>1. buf'[i] = Filled[i] /\ i + 1 \in 1 .. last
    BY <1>3, <1>6
  <2>2. buf'[i + 1].start = Filled[i + 1].start
    BY <2>1, <1>6, <1>7
  <2> QED BY <2>1, <2>2, FilledSound
<1>14. buf'[1].start + buf'[1].lastRead = taken
  <2>1. buf'[1].start = Filled[1].start /\ buf'[1].lastRead = Filled[1].lastRead
    <3>1. CASE last = 1 BY <3>1, <1>7
    <3>2. CASE last # 1 BY <3>2, <1>3, <1>6
    <3> QED BY <3>1, <3>2
  <2>2. Filled[1].start + Filled[1].lastRead = taken
    BY FilledSound
  <2> QED BY <2>1, <2>2
<1>15. buf'[last].start + buf'[last].pos = put'
  <2>1. Filled[last].start + Filled[last].pos = put
    BY FilledSound
  <2>2. Filled[last].start \in Nat /\ Filled[last].pos \in Nat
    BY <1>3 DEF Buffers
  <2>3. buf'[last].start = Filled[last].start /\ buf'[last].pos = Filled[last].pos + k
    BY <1>7
  <2>4. put' = put + k
    BY <1>1
  <2>5. put \in Nat /\ k \in Nat
    BY <1>5 DEF TypeInv
  <2>6. Filled[last].start + (Filled[last].pos + k) = (Filled[last].start + Filled[last].pos) + k
    BY <2>2, <2>5
  <2> QED BY <2>1, <2>3, <2>4, <2>6
<1>16. taken' + bufLen' = put'
  BY <1>1, <1>5 DEF Queue, TypeInv
<1>20. \A i \in 1 .. last : buf'[i].start + buf'[i].pos <= put'
  <2> SUFFICES ASSUME NEW i \in 1 .. last PROVE buf'[i].start + buf'[i].pos <= put'
    OBVIOUS
  <2>1. put \in Nat /\ k \in Nat /\ put' = put + k
    BY <1>1, <1>5 DEF TypeInv
  <2>2. CASE i = last
    <3>1. put' \in Nat
      BY <2>1
    <3> QED BY <2>2, <3>1, <1>15
  <2>3. CASE i # last
    <3>1. buf'[i] = Filled[i] /\ Filled[i] \in Buffers
      BY <2>3, <1>3, <1>6
    <3>2. Filled[i].start + Filled[i].pos <= put
      BY FilledSound
    <3> QED BY <2>1, <3>1, <3>2 DEF Buffers
  <2> QED BY <2>2, <2>3
<1>17. Queue'
  BY <1>20, <1>1, <1>6, <1>11, <1>12, <1>13, <1>14, <1>15, <1>16 DEF Queue, Chained, Sound
<1>18. Room(buf'[last]) = Room(Filled[last]) - k
  BY <1>3, <1>5, <1>7 DEF Room, Buffers
<1>19. Memory'
  <2>1. bufLen' + Room(buf'[last]) = bufLen + Room(Filled[last])
    BY <1>1, <1>4, <1>5, <1>18 DEF TypeInv
  <2>2. bufLen' + Room(buf'[last]) <= Threshold - 1 + MaxCap
    BY <2>1, FilledSound
  <2>3. bufLen' <= Threshold - 1 + MaxCap
    <3>1. bufLen + Room(Filled[last]) <= Threshold - 1 + MaxCap
      BY FilledSound
    <3> QED BY <3>1, <1>1, <1>4, <1>5, PipeConstants DEF TypeInv
  <2> QED BY <2>2, <2>3, <1>6 DEF Memory, Room
<1> QED BY <1>10, <1>17, <1>19

LEMMA WriteGrowKeeps ==
  ASSUME TypeInv, Queue, Memory, NEW w \in Writers, WriteGrow(w)
  PROVE  TypeInv' /\ Queue' /\ Memory'
<1> DEFINE b == Buffer(Least(2 * cap[w], MaxCap))
<1>1. w \in Procs /\ cap[w] \in Nat
  BY DEF Procs, TypeInv
<1>2. Least(2 * cap[w], MaxCap) \in Nat /\ Least(2 * cap[w], MaxCap) <= MaxCap
  BY <1>1, LeastOf, PipeConstants
<1>3. b \in Buffers /\ Sound(b) /\ b.start = put /\ b.pos = 0 /\ b.lastRead = 0 /\ Room(b) <= MaxCap /\ Room(b) \in Nat
  BY <1>2 DEF Buffer, Buffers, Sound, Room, TypeInv
<1>4. /\ buf' = Append(buf, b) /\ bufLen < Threshold
      /\ UNCHANGED <<mu, bufLen, closed, len, n, cap, put, taken, chunk>> /\ Goto(w, "write")
  BY DEF WriteGrow
<1> HIDE DEF b
<1>5. /\ buf' \in Seq(Buffers) /\ Len(buf') = Len(buf) + 1 /\ buf' # <<>> /\ Len(buf) \in Nat
      /\ \A i \in 1 .. Len(buf) : buf'[i] = buf[i]
      /\ buf'[Len(buf')] = b
  <2>1. buf \in Seq(Buffers) /\ b \in Buffers /\ buf' = Append(buf, b)
    BY <1>3, <1>4 DEF TypeInv
  <2> QED BY <2>1
<1>6. TypeInv'
  BY <1>1, <1>4, <1>5 DEF TypeInv, Goto, Places
<1>7. \A i \in 1 .. Len(buf') : Sound(buf'[i])
  <2> SUFFICES ASSUME NEW i \in 1 .. Len(buf') PROVE Sound(buf'[i])
    OBVIOUS
  <2>1. CASE i = Len(buf')
    BY <2>1, <1>3, <1>5
  <2>2. CASE i # Len(buf')
    <3>1. i \in 1 .. Len(buf) BY <2>2, <1>5
    <3> QED BY <3>1, <1>5 DEF Queue
  <2> QED BY <2>1, <2>2
<1>14. \A i \in 1 .. Len(buf') : buf'[i].start + buf'[i].pos <= put
  <2> SUFFICES ASSUME NEW i \in 1 .. Len(buf') PROVE buf'[i].start + buf'[i].pos <= put
    OBVIOUS
  <2>1. CASE i = Len(buf')
    BY <2>1, <1>3, <1>5 DEF TypeInv
  <2>2. CASE i # Len(buf')
    <3>1. i \in 1 .. Len(buf) BY <2>2, <1>5
    <3> QED BY <3>1, <1>5 DEF Queue
  <2> QED BY <2>1, <2>2
<1>8. \A i \in 2 .. Len(buf') : buf'[i].lastRead = 0
  <2> SUFFICES ASSUME NEW i \in 2 .. Len(buf') PROVE buf'[i].lastRead = 0
    OBVIOUS
  <2>1. CASE i = Len(buf')
    BY <2>1, <1>3, <1>5
  <2>2. CASE i # Len(buf')
    <3>1. i \in 2 .. Len(buf) BY <2>2, <1>5
    <3> QED BY <3>1, <1>5 DEF Queue
  <2> QED BY <2>1, <2>2
<1>9. \A i \in 1 .. Len(buf') - 1 : buf'[i].start + buf'[i].pos = buf'[i + 1].start
  <2> SUFFICES ASSUME NEW i \in 1 .. Len(buf') - 1 PROVE buf'[i].start + buf'[i].pos = buf'[i + 1].start
    OBVIOUS
  <2>1. i \in 1 .. Len(buf) /\ buf # <<>> BY <1>5
  <2>2. CASE i = Len(buf)
    BY <2>1, <2>2, <1>3, <1>5 DEF Queue
  <2>3. CASE i # Len(buf)
    <3>1. i \in 1 .. Len(buf) - 1 /\ i + 1 \in 1 .. Len(buf) BY <2>1, <2>3, <1>5
    <3> QED BY <3>1, <1>5 DEF Queue, Chained
  <2> QED BY <2>2, <2>3
<1>10. buf'[1].start + buf'[1].lastRead = taken
  <2>1. CASE buf = <<>>
    BY <2>1, <1>3, <1>5 DEF Queue, TypeInv
  <2>2. CASE buf # <<>>
    <3>1. 1 \in 1 .. Len(buf) BY <2>2, <1>5 DEF TypeInv
    <3> QED BY <2>2, <3>1, <1>5 DEF Queue
  <2> QED BY <2>1, <2>2
<1>11. buf'[Len(buf')].start + buf'[Len(buf')].pos = put
  BY <1>3, <1>5 DEF TypeInv
<1>12. Queue'
  <2>1. taken' + bufLen' = put'
    BY <1>4 DEF Queue
  <2> QED BY <2>1, <1>4, <1>5, <1>7, <1>8, <1>9, <1>10, <1>11, <1>14 DEF Queue, Chained, Sound
<1>13. Memory'
  <2>1. bufLen + Room(b) <= Threshold - 1 + MaxCap
    BY <1>3, <1>4, PipeConstants DEF TypeInv
  <2> QED BY <2>1, <1>4, <1>5 DEF Memory, Room
<1> QED BY <1>6, <1>12, <1>13

(* A reader takes bytes from the first buffer, which may go.               *)
LEMMA ReadCopyKeeps ==
  ASSUME TypeInv, Queue, Memory, NEW r \in Readers, ReadCopy(r)
  PROVE  /\ TypeInv' /\ Queue' /\ Memory'
         /\ taken' <= put
         /\ chunk' = IF taken' = taken THEN chunk ELSE <<taken, taken'>>
<1> DEFINE b == buf[1]
           k == Least(len[r], Unread(b))
<1>1. /\ buf' = IF k = Unread(b) THEN Tail(buf) ELSE [buf EXCEPT ![1].lastRead = @ + k]
      /\ bufLen' = bufLen - k /\ taken' = taken + k
      /\ chunk' = (IF k = 0 THEN chunk ELSE <<b.start + b.lastRead, b.start + b.lastRead + k>>)
      /\ n' = [n EXCEPT ![r] = @ + k] /\ len' = [len EXCEPT ![r] = @ - k]
      /\ (IF k = len[r] THEN Broadcast(r) /\ Unlock ELSE UNCHANGED <<pc, mu>>)
      /\ UNCHANGED <<closed, cap, put>>
      /\ bufLen > 0
  BY DEF ReadCopy
<1>2. r \in Procs /\ len[r] \in Nat /\ n[r] \in Nat
  BY DEF Procs, TypeInv
<1>3. buf # <<>> /\ Len(buf) \in Nat \ {0} /\ b \in Buffers
  BY <1>1 DEF Queue, TypeInv
<1>4. Sound(b) /\ b.start + b.lastRead = taken
  BY <1>3 DEF Queue
<1>5. Unread(b) \in Nat /\ Unread(b) = b.pos - b.lastRead
  BY <1>3, <1>4 DEF Unread, Sound, Buffers
<1>6. k \in Nat /\ k <= len[r] /\ k <= Unread(b)
  BY <1>2, <1>5, LeastOf
<1> HIDE DEF k
<1>7. /\ Len(buf) > 1 => b.start + b.pos = buf[2].start
      /\ Len(buf) = 1 => b.start + b.pos = put
  BY <1>3 DEF Queue, Chained
<1>8. buf' \in Seq(Buffers)
  <2>1. CASE k = Unread(b)
    BY <2>1, <1>1, <1>3 DEF TypeInv
  <2>2. CASE k # Unread(b)
    <3>1. [b EXCEPT !.lastRead = @ + k] \in Buffers
      BY <1>3, <1>6 DEF Buffers
    <3>2. buf' = [buf EXCEPT ![1] = [b EXCEPT !.lastRead = @ + k]]
      BY <2>2, <1>1
    <3> QED BY <3>1, <3>2, <1>3 DEF TypeInv
  <2> QED BY <2>1, <2>2
(* No more is taken than is there.                                         *)
<1>9. k <= bufLen
  <2>1. b.start + b.pos <= put
    BY <1>3 DEF Queue
  <2>2. b.start \in Nat /\ b.pos \in Nat /\ b.lastRead \in Nat /\ taken + bufLen = put
    BY <1>3 DEF Buffers, Queue
  <2>3. k \in Nat /\ k <= b.pos - b.lastRead /\ b.start + b.lastRead = taken
    BY <1>4, <1>5, <1>6
  <2>4. taken \in Nat /\ bufLen \in Nat /\ put \in Nat
    BY DEF TypeInv
  <2>5. \A s, p, l, t, u, q, j \in Nat :
          s + p <= q /\ t + u = q /\ j <= p - l /\ s + l = t => j <= u
    OBVIOUS
  <2> QED BY ONLY <2>1, <2>2, <2>3, <2>4, <2>5
<1>10. bufLen' \in Nat /\ taken' \in Nat /\ taken' + bufLen' = put /\ taken' <= put /\ bufLen' <= bufLen
  BY <1>1, <1>6, <1>9 DEF Queue, TypeInv
<1> DEFINE Kept ==
      /\ \A i \in 1 .. Len(buf') : Sound(buf'[i]) /\ buf'[i].start + buf'[i].pos <= put
      /\ \A i \in 2 .. Len(buf') : buf'[i].lastRead = 0
      /\ \A i \in 1 .. Len(buf') - 1 : buf'[i].start + buf'[i].pos = buf'[i + 1].start
      /\ buf' # <<>> => /\ buf'[1].start + buf'[1].lastRead = taken'
                        /\ buf'[Len(buf')].start + buf'[Len(buf')].pos = put
                        /\ Room(buf'[Len(buf')]) = Room(buf[Len(buf)])
      /\ buf' = <<>> => put = taken'
<1>11. ASSUME k = Unread(b) PROVE Kept
  <2>1. /\ Len(buf') = Len(buf) - 1
        /\ \A i \in 1 .. Len(buf) - 1 : buf'[i] = buf[i + 1]
    BY <1>11, <1>1, <1>3 DEF TypeInv
  <2>2. taken' = b.start + b.pos
    <3>1. b.start \in Nat /\ b.pos \in Nat /\ b.lastRead \in Nat
      BY <1>3 DEF Buffers
    <3>2. taken' = b.start + b.lastRead + (b.pos - b.lastRead)
      BY <1>1, <1>4, <1>5, <1>11
    <3> QED BY <3>1, <3>2
  <2>3. \A i \in 1 .. Len(buf') : Sound(buf'[i]) /\ buf'[i].lastRead = 0 /\ buf'[i].start + buf'[i].pos <= put
    <3> SUFFICES ASSUME NEW i \in 1 .. Len(buf')
                 PROVE Sound(buf'[i]) /\ buf'[i].lastRead = 0 /\ buf'[i].start + buf'[i].pos <= put
      OBVIOUS
    <3>1. i + 1 \in 1 .. Len(buf) /\ i + 1 \in 2 .. Len(buf) /\ buf'[i] = buf[i + 1]
      BY <2>1, <1>3
    <3> QED BY <3>1 DEF Queue
  <2>4. \A i \in 1 .. Len(buf') - 1 : buf'[i].start + buf'[i].pos = buf'[i + 1].start
    <3> SUFFICES ASSUME NEW i \in 1 .. Len(buf') - 1 PROVE buf'[i].start + buf'[i].pos = buf'[i + 1].start
      OBVIOUS
    <3>1. i + 1 \in 1 .. Len(buf) - 1 /\ buf'[i] = buf[i + 1] /\ buf'[i + 1] = buf[(i + 1) + 1]
      BY <2>1, <1>3
    <3> QED BY <3>1 DEF Queue, Chained
  <2>5. buf' # <<>> => /\ buf'[1].start + buf'[1].lastRead = taken'
                       /\ buf'[Len(buf')].start + buf'[Len(buf')].pos = put'
                       /\ buf'[Len(buf')] = buf[Len(buf)]
    <3> SUFFICES ASSUME buf' # <<>>
                 PROVE  /\ buf'[1].start + buf'[1].lastRead = taken'
                        /\ buf'[Len(buf')].start + buf'[Len(buf')].pos = put'
                        /\ buf'[Len(buf')] = buf[Len(buf)]
      OBVIOUS
    <3>1. Len(buf') \in Nat /\ Len(buf') # 0 /\ Len(buf) > 1
      BY <2>1, <1>3, <1>8
    <3>2. buf'[1] = buf[2] /\ buf'[Len(buf')] = buf[Len(buf)] /\ buf[2] \in Buffers
      BY <3>1, <2>1, <1>3 DEF TypeInv
    <3>3. buf'[1].lastRead = 0
      BY <3>1, <2>3, <2>1, <1>3
    <3>4. buf[Len(buf)].start + buf[Len(buf)].pos = put
      BY <1>3 DEF Queue
    <3>5. buf[2].start \in Nat
      BY <3>2 DEF Buffers
    <3>6. buf[2].start = taken'
      BY <3>1, <1>7, <2>2
    <3> QED BY <3>2, <3>3, <3>4, <3>5, <3>6, <1>1
  <2>6. buf' = <<>> => put' = taken'
    <3>1. buf' = <<>> => Len(buf) = 1
      BY <2>1, <1>3
    <3> QED BY <3>1, <1>1, <1>7, <2>2
  <2> QED BY <2>1, <2>3, <2>4, <2>5, <2>6, <1>1, <1>3
<1>12. ASSUME k # Unread(b) PROVE Kept
  <2> DEFINE c == [b EXCEPT !.lastRead = @ + k]
  <2>1. /\ buf' = [buf EXCEPT ![1] = c] /\ c \in Buffers
        /\ c.lastRead = b.lastRead + k /\ c.start = b.start /\ c.pos = b.pos /\ c.cap = b.cap
    <3>1. buf' = [buf EXCEPT ![1] = c]
      BY <1>12, <1>1
    <3>2. b \in Buffers /\ k \in Nat
      BY <1>3, <1>6
    <3> HIDE DEF b
    <3>3. c \in Buffers /\ c.lastRead = b.lastRead + k /\ c.start = b.start /\ c.pos = b.pos /\ c.cap = b.cap
      BY <3>2 DEF Buffers
    <3> QED BY <3>1, <3>3
  <2> HIDE DEF c
  <2>2. /\ Len(buf') = Len(buf) /\ buf'[1] = c /\ buf' # <<>>
        /\ \A i \in 2 .. Len(buf) : buf'[i] = buf[i]
    BY <2>1, <1>3 DEF TypeInv
  <2>3. Sound(c) /\ c.start + c.pos <= put
    <3>1. b.start + b.pos <= put
      BY <1>3 DEF Queue
    <3>2. b.start \in Nat /\ b.pos \in Nat /\ b.lastRead \in Nat
      BY <1>3 DEF Buffers
    <3> QED BY <3>1, <3>2, <2>1, <1>4, <1>5, <1>6 DEF Sound
  <2>4. \A i \in 1 .. Len(buf') : Sound(buf'[i]) /\ buf'[i].start + buf'[i].pos <= put
    <3> SUFFICES ASSUME NEW i \in 1 .. Len(buf') PROVE Sound(buf'[i]) /\ buf'[i].start + buf'[i].pos <= put
      OBVIOUS
    <3>1. CASE i = 1 BY <3>1, <2>2, <2>3
    <3>2. CASE i # 1
      <4>1. i \in 1 .. Len(buf) /\ buf'[i] = buf[i] BY <3>2, <2>2, <1>3
      <4> QED BY <4>1 DEF Queue
    <3> QED BY <3>1, <3>2
  <2>5. \A i \in 2 .. Len(buf') : buf'[i].lastRead = 0
    BY <2>2 DEF Queue
  <2>6. \A i \in 1 .. Len(buf') : buf'[i].start = buf[i].start /\ buf'[i].pos = buf[i].pos /\ buf'[i].cap = buf[i].cap
    <3> SUFFICES ASSUME NEW i \in 1 .. Len(buf')
                 PROVE buf'[i].start = buf[i].start /\ buf'[i].pos = buf[i].pos /\ buf'[i].cap = buf[i].cap
      OBVIOUS
    <3>1. CASE i = 1 BY <3>1, <2>1, <2>2
    <3>2. CASE i # 1 BY <3>2, <2>2, <1>3
    <3> QED BY <3>1, <3>2
  <2>7. \A i \in 1 .. Len(buf') - 1 : buf'[i].start + buf'[i].pos = buf'[i + 1].start
    <3> SUFFICES ASSUME NEW i \in 1 .. Len(buf') - 1 PROVE buf'[i].start + buf'[i].pos = buf'[i + 1].start
      OBVIOUS
    <3>1. i \in 1 .. Len(buf) - 1 /\ i \in 1 .. Len(buf') /\ i + 1 \in 1 .. Len(buf')
      BY <2>2, <1>3
    <3> QED BY <3>1, <2>6 DEF Queue, Chained
  <2>8. buf'[1].start + buf'[1].lastRead = taken'
    <3>1. b.start \in Nat /\ b.lastRead \in Nat
      BY <1>3 DEF Buffers
    <3>2. b.start + (b.lastRead + k) = (b.start + b.lastRead) + k
      BY <3>1, <1>6
    <3>3. buf'[1].start = b.start /\ buf'[1].lastRead = b.lastRead + k /\ taken' = taken + k
      BY <2>1, <2>2, <1>1
    <3> QED BY <3>2, <3>3, <1>4
  <2>9. /\ buf'[Len(buf')].start + buf'[Len(buf')].pos = put
        /\ Room(buf'[Len(buf')]) = Room(buf[Len(buf)])
    <3>1. Len(buf') \in 1 .. Len(buf') BY <2>2, <1>3
    <3>2. buf[Len(buf)].start + buf[Len(buf)].pos = put BY <1>3 DEF Queue
    <3> QED BY <3>1, <3>2, <2>2, <2>6 DEF Room
  <2> QED BY <2>2, <2>4, <2>5, <2>7, <2>8, <2>9
<1>13. Kept
  BY <1>11, <1>12
<1> HIDE DEF Kept
<1>14. mu' \in Procs \cup {Nobody} /\ pc' \in [Procs -> Places]
  <2>1. CASE k = len[r]
    BY <1>1, <2>1, PipeConstants DEF Broadcast, Woken, Unlock, TypeInv, Places, Procs
  <2>2. CASE k # len[r]
    BY <1>1, <2>2 DEF TypeInv
  <2> QED BY <2>1, <2>2
<1>15. TypeInv'
  <2>1. len[r] - k \in Nat /\ n[r] + k \in Nat
    BY <1>2, <1>6
  <2>2. len' \in [Procs -> Nat] /\ n' \in [Procs -> Nat]
    <3>1. len \in [Procs -> Nat] /\ n \in [Procs -> Nat]
      BY DEF TypeInv
    <3>2. len' = [len EXCEPT ![r] = len[r] - k] /\ n' = [n EXCEPT ![r] = n[r] + k]
      BY <1>1
    <3> QED BY <3>1, <3>2, <2>1, <1>2
  <2>3. cap' \in [Procs -> Nat] /\ closed' \in BOOLEAN /\ put' \in Nat
    BY <1>1 DEF TypeInv
  <2> QED BY <1>8, <1>10, <1>14, <2>2, <2>3 DEF TypeInv
<1>16. put' = put
  BY <1>1
<1>17. Queue'
  BY <1>10, <1>13, <1>16 DEF Kept, Queue, Chained, Sound
<1>18. Memory'
  <2>1. buf' # <<>> => Room(buf'[Len(buf')]) = Room(buf[Len(buf)]) /\ Room(buf[Len(buf)]) \in Int
    <3>1. buf[Len(buf)] \in Buffers
      BY <1>3 DEF TypeInv
    <3> QED BY <3>1, <1>13 DEF Kept, Room, Buffers
  <2>2. /\ bufLen \in Nat /\ bufLen <= Threshold - 1 + MaxCap
        /\ bufLen + Room(buf[Len(buf)]) <= Threshold - 1 + MaxCap
    BY <1>3 DEF Memory, TypeInv
  <2>3. bufLen' <= Threshold - 1 + MaxCap
    BY <2>2, <1>10, PipeConstants
  <2>4. buf' # <<>> => bufLen' + Room(buf'[Len(buf')]) <= Threshold - 1 + MaxCap
    BY <2>1, <2>2, <1>10, PipeConstants
  <2> QED BY <2>3, <2>4 DEF Memory, Room
<1>19. chunk' = IF taken' = taken THEN chunk ELSE <<taken, taken'>>
  <2>1. b.start + b.lastRead = taken /\ taken' = taken + k
    BY <1>1, <1>4
  <2>2. taken \in Nat /\ k \in Nat
    BY <1>6 DEF TypeInv
  <2>3. CASE k = 0
    BY <2>1, <2>2, <2>3, <1>1
  <2>4. CASE k # 0
    <3>1. chunk' = <<taken, taken + k>>
      BY <2>1, <2>4, <1>1
    <3> QED BY <3>1, <2>1, <2>2, <2>4
  <2> QED BY <2>3, <2>4
<1> QED BY <1>10, <1>15, <1>17, <1>18, <1>19

---------------------------------------------------------------------------
(* The other steps                                                         *)

LEMMA TypeOfRest ==
  ASSUME TypeInv, NEW p \in Procs,
         \/ p \in Writers /\ (CallWrite(p) \/ LockWrite(p) \/ WriteClosed(p) \/ WriteWaits(p) \/ WriteWakes(p))
         \/ p \in Readers /\ (CallRead(p) \/ ReadClosed(p) \/ ReadWaits(p) \/ ReadStarts(p) \/ ReadDone(p))
         \/ p \in Closers /\ CloseWithError(p)
  PROVE  TypeInv' /\ UNCHANGED <<buf, bufLen, put, taken, chunk>>
<1>1. CASE CallWrite(p) \/ CallRead(p)
  <2>1. PICK k \in Nat : len' = [len EXCEPT ![p] = k]
    BY <1>1, PipeConstants DEF CallWrite, CallRead
  <2>2. /\ n' = [n EXCEPT ![p] = 0] /\ pc' = [pc EXCEPT ![p] = "lock"]
        /\ UNCHANGED <<mu, buf, bufLen, closed, cap, put, taken, chunk>>
    BY <1>1 DEF CallWrite, CallRead, Goto
  <2> QED BY <2>1, <2>2 DEF TypeInv, Places
<1>2. CASE LockWrite(p) \/ WriteClosed(p) \/ WriteWaits(p) \/ WriteWakes(p)
  <2>1. /\ mu' \in Procs \cup {Nobody} /\ \E at \in Places : pc' = [pc EXCEPT ![p] = at]
        /\ UNCHANGED <<buf, bufLen, closed, len, n, cap, put, taken, chunk>>
    BY <1>2 DEF LockWrite, WriteClosed, WriteWaits, WriteWakes, Goto, Lock, Unlock, Places
  <2> QED BY <2>1 DEF TypeInv
<1>3. CASE ReadClosed(p) \/ ReadWaits(p) \/ ReadStarts(p)
  <2>1. /\ mu' \in Procs \cup {Nobody} /\ \E at \in Places : pc' = [pc EXCEPT ![p] = at]
        /\ UNCHANGED <<buf, bufLen, closed, len, n, cap, put, taken, chunk>>
    BY <1>3 DEF ReadClosed, ReadWaits, ReadStarts, Goto, Lock, Places, TypeInv
  <2> QED BY <2>1 DEF TypeInv
<1>4. CASE ReadDone(p)
  <2>1. /\ mu' = Nobody /\ pc' = [q \in Procs |-> IF q = p THEN "idle" ELSE Woken(q)]
        /\ UNCHANGED <<buf, bufLen, closed, len, n, cap, put, taken, chunk>>
    BY <1>4 DEF ReadDone, Broadcast, Unlock
  <2>2. \A q \in Procs : Woken(q) \in Places
    BY DEF Woken, Places, TypeInv
  <2>3. pc' \in [Procs -> Places]
    BY <2>1, <2>2 DEF Places
  <2> QED BY <2>1, <2>3 DEF TypeInv
<1>5. CASE CloseWithError(p)
  <2>1. /\ closed' = TRUE /\ pc' = [q \in Procs |-> Woken(q)]
        /\ UNCHANGED <<mu, buf, bufLen, len, n, cap, put, taken, chunk>>
    BY <1>5 DEF CloseWithError
  <2>2. \A q \in Procs : Woken(q) \in Places
    BY DEF Woken, Places, TypeInv
  <2>3. pc' \in [Procs -> Places]
    BY <2>1, <2>2
  <2>4. closed' \in BOOLEAN
    BY <2>1
  <2> QED BY <2>1, <2>3, <2>4 DEF TypeInv
<1> QED BY <1>1, <1>2, <1>3, <1>4, <1>5

(* What does not touch the buffers keeps what is said about them.          *)
LEMMA BuffersAlone ==
  ASSUME Queue, Memory, UNCHANGED <<buf, bufLen, put, taken>>
  PROVE  Queue' /\ Memory'
BY DEF Queue, Memory, Chained, Sound, Room

---------------------------------------------------------------------------
(* The invariant                                                           *)

Inner == TypeInv /\ Queue /\ Memory

LEMMA InnerInit == Init => Inner
<1> SUFFICES ASSUME Init PROVE Inner
  OBVIOUS
<1> DEFINE b == [cap |-> MinCap, start |-> 0, pos |-> 0, lastRead |-> 0]
<1>1. /\ mu = Nobody /\ closed = FALSE /\ bufLen = 0 /\ put = 0 /\ taken = 0 /\ buf = <<b>>
      /\ pc = [p \in Procs |-> "idle"] /\ len = [p \in Procs |-> 0]
      /\ n = [p \in Procs |-> 0] /\ cap = [p \in Procs |-> MinCap]
  BY DEF Init
<1>2. b \in Buffers /\ Sound(b) /\ Room(b) = MinCap
  BY PipeConstants DEF Buffers, Sound, Room
<1>3. buf \in Seq(Buffers) /\ Len(buf) = 1 /\ buf[1] = b
  BY <1>1, <1>2
<1>4. TypeInv
  BY <1>1, <1>3, PipeConstants DEF TypeInv, Places
<1>5. Queue
  BY <1>1, <1>2, <1>3 DEF Queue, Chained
<1>6. Memory
  BY <1>1, <1>2, <1>3, PipeConstants DEF Memory
<1> QED BY <1>4, <1>5, <1>6 DEF Inner

LEMMA InnerNext == Inner /\ [Next]_vars => Inner'
<1> SUFFICES ASSUME Inner, [Next]_vars PROVE Inner'
  OBVIOUS
<1> USE DEF Inner
<1>1. ASSUME NEW w \in Writers, CallWrite(w) \/ Write(w) PROVE Inner'
  <2>1. w \in Procs BY DEF Procs
  <2>2. CASE WriteCopy(w) BY <2>2, WriteCopyKeeps
  <2>3. CASE WriteGrow(w) BY <2>3, WriteGrowKeeps
  <2>4. CASE CallWrite(w) \/ LockWrite(w) \/ WriteClosed(w) \/ WriteWaits(w) \/ WriteWakes(w)
    BY <2>1, <2>4, TypeOfRest, BuffersAlone
  <2> QED BY <1>1, <2>2, <2>3, <2>4 DEF Write
<1>2. ASSUME NEW r \in Readers, CallRead(r) \/ Read(r) PROVE Inner'
  <2>1. r \in Procs BY DEF Procs
  <2>2. CASE ReadCopy(r) BY <2>2, ReadCopyKeeps
  <2>3. CASE CallRead(r) \/ ReadClosed(r) \/ ReadWaits(r) \/ ReadStarts(r) \/ ReadDone(r)
    BY <2>1, <2>3, TypeOfRest, BuffersAlone
  <2> QED BY <1>2, <2>2, <2>3 DEF Read
<1>3. ASSUME NEW c \in Closers, CloseWithError(c) PROVE Inner'
  <2>1. c \in Procs BY DEF Procs
  <2> QED BY <1>3, <2>1, TypeOfRest, BuffersAlone
<1>4. CASE UNCHANGED vars
  <2>1. TypeInv'
    BY <1>4 DEF vars, locals, TypeInv
  <2> QED BY <2>1, <1>4, BuffersAlone DEF vars
<1> QED BY <1>1, <1>2, <1>3, <1>4 DEF Next

(* The pipe's buffers always hold, in order and without a gap, the bytes   *)
(* from the first that is not read to the last that is written.            *)
THEOREM InnerInvariant == Spec => []Inner
BY InnerInit, InnerNext, PTL DEF Spec

(* A pipe never holds more than a buffer above its threshold, whatever     *)
(* slices are written: the bound that blockThreshold is there for.         *)
THEOREM MemoryBounded == Spec => []Bounded
<1>1. Inner => Bounded
  BY DEF Inner, Memory, Bounded
<1> QED BY <1>1, InnerInvariant, PTL

---------------------------------------------------------------------------
(* The pipe implements the queue                                           *)

LEMMA QueueInit == Init => Bytes!Init
BY DEF Init, Bytes!Init

LEMMA QueueNext == Inner /\ [Next]_vars => [Bytes!Next]_(Bytes!vars)
<1> SUFFICES ASSUME Inner, [Next]_vars PROVE [Bytes!Next]_(Bytes!vars)
  OBVIOUS
<1> USE DEF Inner, Bytes!vars
<1>1. ASSUME NEW w \in Writers, CallWrite(w) \/ Write(w) PROVE [Bytes!Next]_(Bytes!vars)
  <2>1. w \in Procs BY DEF Procs
  <2>2. CASE WriteCopy(w)
    <3>1. put' \in Nat /\ put \in Nat /\ taken' = taken /\ chunk' = chunk /\ closed' = closed /\ ~closed
      BY <2>2, WriteCopyKeeps DEF WriteCopy, TypeInv
    <3>2. put' >= put
      <4> DEFINE bs == IF buf = <<>> THEN <<Buffer(MinCap)>> ELSE buf
                 k  == Least(len[w], Room(Final(bs)))
      <4>1. put' = put + k
        BY <2>2 DEF WriteCopy
      <4>2. bs = Filled /\ Final(bs) = Filled[Len(Filled)]
        BY DEF Filled, Final
      <4>3. Filled[Len(Filled)] \in Buffers /\ Sound(Filled[Len(Filled)])
        BY FilledSound
      <4>4. Room(Filled[Len(Filled)]) \in Nat /\ len[w] \in Nat
        BY <4>3, <2>1 DEF Room, Sound, Buffers, TypeInv
      <4>5. k \in Nat
        BY <4>2, <4>4, LeastOf
      <4> HIDE DEF k
      <4> QED BY <4>1, <4>5, <3>1
    <3> QED BY <3>1, <3>2 DEF Bytes!Next, Bytes!Put
  <2>3. CASE WriteGrow(w)
    BY <2>3 DEF WriteGrow
  <2>4. CASE CallWrite(w) \/ LockWrite(w) \/ WriteClosed(w) \/ WriteWaits(w) \/ WriteWakes(w)
    BY <2>4 DEF CallWrite, LockWrite, WriteClosed, WriteWaits, WriteWakes
  <2> QED BY <1>1, <2>2, <2>3, <2>4 DEF Write
<1>2. ASSUME NEW r \in Readers, CallRead(r) \/ Read(r) PROVE [Bytes!Next]_(Bytes!vars)
  <2>1. CASE ReadCopy(r)
    <3>1. /\ taken' \in Nat /\ taken \in Nat /\ taken' <= put /\ taken' >= taken
          /\ chunk' = (IF taken' = taken THEN chunk ELSE <<taken, taken'>>)
          /\ put' = put /\ closed' = closed
      <4>1. /\ taken' \in Nat /\ taken' <= put /\ Inner'
            /\ chunk' = (IF taken' = taken THEN chunk ELSE <<taken, taken'>>)
        BY <2>1, ReadCopyKeeps DEF TypeInv
      <4>2. put' = put /\ closed' = closed
        BY <2>1 DEF ReadCopy
      <4>3. taken' >= taken
        <5>1. buf # <<>> /\ Len(buf) \in Nat \ {0} /\ buf[1] \in Buffers /\ Sound(buf[1])
          BY <2>1 DEF ReadCopy, Queue, TypeInv
        <5>2. Unread(buf[1]) \in Nat /\ len[r] \in Nat
          BY <5>1 DEF Unread, Sound, Buffers, TypeInv, Procs
        <5>3. Least(len[r], Unread(buf[1])) \in Nat
          BY <5>2, LeastOf
        <5>4. taken' = taken + Least(len[r], Unread(buf[1]))
          BY <2>1 DEF ReadCopy
        <5> QED BY <5>3, <5>4 DEF TypeInv
      <4> QED BY <4>1, <4>2, <4>3 DEF TypeInv
    <3> QED BY <3>1 DEF Bytes!Next, Bytes!Take
  <2>2. CASE CallRead(r) \/ ReadClosed(r) \/ ReadWaits(r) \/ ReadStarts(r) \/ ReadDone(r)
    BY <2>2 DEF CallRead, ReadClosed, ReadWaits, ReadStarts, ReadDone
  <2> QED BY <1>2, <2>1, <2>2 DEF Read
<1>3. ASSUME NEW c \in Closers, CloseWithError(c) PROVE [Bytes!Next]_(Bytes!vars)
  BY <1>3 DEF CloseWithError, Bytes!Next, Bytes!Close
<1>4. CASE UNCHANGED vars
  BY <1>4 DEF vars
<1> QED BY <1>1, <1>2, <1>3, <1>4 DEF Next

(* Every behaviour of a BytesPipe, with any number of goroutines, is one   *)
(* of the queue.                                                           *)
THEOREM PipeImplementsQueue == Spec => IsPipe
BY InnerInvariant, QueueInit, QueueNext, PTL DEF Spec, IsPipe, Bytes!Spec

---------------------------------------------------------------------------
(* One reader                                                              *)

(* Waking of one writer and of the reader.                                 *)
Writing == {"lock", "write", "grow", "write waits", "write wakes"}
WriterOK(w) == pc[w] \in Writing => len[w] > 0
ReaderOK(r) ==
  /\ pc[r] = "read wakes" => bufLen > 0 \/ closed
  /\ pc[r] = "copy" => bufLen > 0 \/ n[r] > 0
  /\ pc[r] = "idle" /\ n[r] = 0 => len[r] = 0

(* A goroutine that a step of another one only wakes up stays as it was.   *)
LEMMA OthersWoken ==
  ASSUME TypeInv, NEW q \in Procs, pc'[q] \in {pc[q], Woken(q)}, len'[q] = len[q], n'[q] = n[q]
  PROVE  /\ WriterOK(q) => WriterOK(q)'
         /\ ReaderOK(q) /\ (bufLen' \in Nat /\ bufLen' >= bufLen /\ closed' = closed)
            /\ (bufLen' > 0 \/ closed \/ pc'[q] = pc[q])
            => ReaderOK(q)'
<1>1. /\ pc'[q] \in Writing => pc[q] \in Writing
      /\ pc'[q] \in {"copy", "idle"} => pc'[q] = pc[q]
      /\ pc'[q] = "read wakes" => pc[q] \in {"read waits", "read wakes"}
  BY DEF Woken, Writing
<1>2. WriterOK(q) => WriterOK(q)'
  BY <1>1 DEF WriterOK
<1>3. ASSUME ReaderOK(q), bufLen' \in Nat /\ bufLen' >= bufLen /\ closed' = closed, bufLen' > 0 \/ closed \/ pc'[q] = pc[q]
      PROVE  ReaderOK(q)'
  <2>1. bufLen \in Nat /\ (bufLen > 0 => bufLen' > 0)
    BY <1>3 DEF TypeInv
  <2>2. pc'[q] = "copy" => bufLen' > 0 \/ n'[q] > 0
    BY <1>1, <1>3, <2>1 DEF ReaderOK
  <2>3. pc'[q] = "idle" /\ n'[q] = 0 => len'[q] = 0
    BY <1>1, <1>3 DEF ReaderOK
  <2>4. pc'[q] = "read wakes" => bufLen' > 0 \/ closed'
    BY <1>3, <2>1 DEF ReaderOK
  <2> QED BY <2>2, <2>3, <2>4 DEF ReaderOK
<1> QED BY <1>2, <1>3

LEMMA WriterSteps ==
  ASSUME Inner, OneReader, NEW w \in Writers, CallWrite(w) \/ Write(w),
         \A q \in Writers : WriterOK(q), \A r \in Readers : ReaderOK(r)
  PROVE  (\A q \in Writers : WriterOK(q)') /\ (\A r \in Readers : ReaderOK(r)')
<1> USE DEF Inner
<1>1. w \in Procs /\ w \notin Readers /\ Writers \subseteq Procs /\ Readers \subseteq Procs
  BY PipeConstants DEF Procs
<1>2. CASE CallWrite(w)
  <2>1. PICK k \in WriteSizes : len' = [len EXCEPT ![w] = k]
    BY <1>2 DEF CallWrite
  <2>2. k > 0
    BY <2>1, PipeConstants DEF OneReader
  <2>3. /\ n' = [n EXCEPT ![w] = 0] /\ pc' = [pc EXCEPT ![w] = "lock"] /\ bufLen' = bufLen /\ closed' = closed
    BY <1>2 DEF CallWrite, Goto
  <2> QED BY <2>1, <2>2, <2>3, <1>1 DEF WriterOK, ReaderOK, TypeInv
<1>3. CASE LockWrite(w) \/ WriteClosed(w) \/ WriteWaits(w) \/ WriteWakes(w) \/ WriteGrow(w)
  <2>1. /\ \E at \in {"closed", "write", "write waits", "grow"} : pc' = [pc EXCEPT ![w] = at]
        /\ len' = len /\ n' = n /\ bufLen' = bufLen /\ closed' = closed /\ pc[w] \in Writing
    BY <1>3 DEF LockWrite, WriteClosed, WriteWaits, WriteWakes, WriteGrow, Goto, Writing
  <2>2. \A q \in Procs : q # w => pc'[q] = pc[q]
    BY <2>1 DEF TypeInv
  <2>3. WriterOK(w)'
    BY <2>1, <1>1 DEF WriterOK, TypeInv
  <2>4. \A q \in Writers : q # w => WriterOK(q)'
    BY <2>1, <2>2, <1>1 DEF WriterOK
  <2>5. \A r \in Readers : ReaderOK(r)'
    BY <2>1, <2>2, <1>1 DEF ReaderOK
  <2> QED BY <2>3, <2>4, <2>5
<1>4. CASE WriteCopy(w)
  <2> DEFINE bs == IF buf = <<>> THEN <<Buffer(MinCap)>> ELSE buf
             k  == Least(len[w], Room(Final(bs)))
  <2>1. /\ n' = [n EXCEPT ![w] = @ + k] /\ len' = [len EXCEPT ![w] = @ - k]
        /\ bufLen' = bufLen + k /\ closed' = closed
        /\ pc[w] = "write"
        /\ pc' = IF k = len[w] THEN [q \in Procs |-> IF q = w THEN "idle" ELSE Woken(q)]
                 ELSE [pc EXCEPT ![w] = "grow"]
    BY <1>4 DEF WriteCopy, Broadcast, Goto
  <2>2. k \in Nat /\ k <= len[w] /\ len[w] \in Nat
    <3>1. bs = Filled /\ Final(bs) = Filled[Len(Filled)]
      BY DEF Filled, Final
    <3>2. Filled[Len(Filled)] \in Buffers /\ Sound(Filled[Len(Filled)])
      BY FilledSound
    <3>3. Room(Filled[Len(Filled)]) \in Nat /\ len[w] \in Nat
      BY <3>2, <1>1 DEF Room, Sound, Buffers, TypeInv
    <3> QED BY <3>1, <3>3, LeastOf
  <2> HIDE DEF k
  <2>3. len[w] > 0
    BY <2>1 DEF WriterOK, Writing
  <2>4. \A q \in Procs : q # w => pc'[q] \in {pc[q], Woken(q)} /\ len'[q] = len[q] /\ n'[q] = n[q]
    BY <2>1, <1>1 DEF TypeInv
  <2>5. WriterOK(w)'
    <3>1. CASE k = len[w]
      BY <3>1, <2>1, <1>1 DEF WriterOK, Writing
    <3>2. CASE k # len[w]
      BY <3>2, <2>1, <2>2, <1>1 DEF WriterOK, TypeInv
    <3> QED BY <3>1, <3>2
  <2>6. \A q \in Writers : q # w => WriterOK(q)'
    BY <2>4, <1>1, OthersWoken
  <2>7. \A r \in Readers : bufLen' \in Nat /\ bufLen' >= bufLen /\ (bufLen' > 0 \/ pc'[r] = pc[r])
    <3>1. CASE k = len[w]
      BY <3>1, <2>1, <2>2, <2>3 DEF TypeInv
    <3>2. CASE k # len[w]
      BY <3>2, <2>1, <2>2, <1>1 DEF TypeInv
    <3> QED BY <3>1, <3>2
  <2>8. \A r \in Readers : ReaderOK(r)'
    BY <2>1, <2>4, <2>7, <1>1, OthersWoken
  <2> QED BY <2>5, <2>6, <2>8
<1> QED BY <1>2, <1>3, <1>4 DEF Write

LEMMA ReaderSteps ==
  ASSUME Inner, OneReader, NEW r \in Readers, CallRead(r) \/ Read(r),
         \A q \in Writers : WriterOK(q), ReaderOK(r)
  PROVE  (\A q \in Writers : WriterOK(q)') /\ ReaderOK(r)'
<1> USE DEF Inner
<1>1. r \in Procs /\ r \notin Writers /\ Writers \subseteq Procs
  BY PipeConstants DEF Procs
<1>2. CASE CallRead(r)
  <2>1. PICK k \in ReadSizes : len' = [len EXCEPT ![r] = k]
    BY <1>2 DEF CallRead
  <2>2. /\ n' = [n EXCEPT ![r] = 0] /\ pc' = [pc EXCEPT ![r] = "lock"] /\ bufLen' = bufLen /\ closed' = closed
    BY <1>2 DEF CallRead, Goto
  <2> QED BY <2>1, <2>2, <1>1 DEF WriterOK, ReaderOK, TypeInv
<1>3. CASE ReadClosed(r) \/ ReadWaits(r) \/ ReadStarts(r)
  <2>1. /\ len' = len /\ n' = n /\ bufLen' = bufLen /\ closed' = closed
        /\ \/ \E at \in {"closed", "read waits"} : pc' = [pc EXCEPT ![r] = at]
           \/ pc' = [pc EXCEPT ![r] = "copy"] /\ (bufLen > 0 \/ (pc[r] = "read wakes" /\ ~closed))
    BY <1>3 DEF ReadClosed, ReadWaits, ReadStarts, Goto
  <2> QED BY <2>1, <1>1 DEF WriterOK, ReaderOK, TypeInv
<1>4. CASE ReadDone(r)
  <2>1. /\ pc' = [q \in Procs |-> IF q = r THEN "idle" ELSE Woken(q)]
        /\ len' = len /\ n' = n /\ bufLen' = bufLen /\ closed' = closed /\ pc[r] = "copy" /\ bufLen = 0
    BY <1>4 DEF ReadDone, Broadcast
  <2>2. n[r] > 0 /\ pc'[r] = "idle"
    BY <2>1, <1>1 DEF ReaderOK
  <2>3. \A q \in Writers : pc'[q] \in {pc[q], Woken(q)} /\ len'[q] = len[q] /\ n'[q] = n[q]
    BY <2>1, <1>1
  <2>4. \A q \in Writers : WriterOK(q)'
    BY <2>3, <1>1, OthersWoken
  <2> QED BY <2>1, <2>2, <2>4, <1>1 DEF ReaderOK, TypeInv
<1>5. CASE ReadCopy(r)
  <2> DEFINE k == Least(len[r], Unread(Head(buf)))
  <2>1. /\ n' = [n EXCEPT ![r] = @ + k] /\ len' = [len EXCEPT ![r] = @ - k]
        /\ bufLen' = bufLen - k /\ closed' = closed /\ bufLen > 0
        /\ pc[r] = "copy"
        /\ pc' = IF k = len[r] THEN [q \in Procs |-> IF q = r THEN "idle" ELSE Woken(q)] ELSE pc
    BY <1>5 DEF ReadCopy, Broadcast
  <2>2. k \in Nat /\ len[r] \in Nat /\ n[r] \in Nat /\ k <= len[r]
    <3>1. buf # <<>> /\ Len(buf) \in Nat \ {0} /\ buf[1] \in Buffers /\ Sound(buf[1]) /\ Head(buf) = buf[1]
      BY <2>1 DEF Queue, TypeInv
    <3>2. Unread(buf[1]) \in Nat /\ len[r] \in Nat /\ n[r] \in Nat
      BY <3>1, <1>1 DEF Unread, Sound, Buffers, TypeInv
    <3> QED BY <3>1, <3>2, LeastOf
  <2> HIDE DEF k
  <2>3. \A q \in Writers : pc'[q] \in {pc[q], Woken(q)} /\ len'[q] = len[q] /\ n'[q] = n[q]
    BY <2>1, <1>1 DEF TypeInv
  <2>4. \A q \in Writers : WriterOK(q)'
    BY <2>3, <1>1, OthersWoken
  <2>5. n'[r] = n[r] + k /\ len'[r] = len[r] - k
    BY <2>1, <1>1 DEF TypeInv
  <2>6. ReaderOK(r)'
    <3>1. CASE k = len[r]
      <4>1. pc'[r] = "idle" /\ len'[r] = 0
        BY <3>1, <2>1, <2>2, <2>5, <1>1
      <4> QED BY <4>1 DEF ReaderOK
    <3>2. CASE k # len[r]
      <4>1. pc'[r] = "copy" /\ (k = 0 => bufLen' > 0) /\ (k # 0 => n'[r] > 0)
        BY <3>2, <2>1, <2>2, <2>5 DEF TypeInv
      <4> QED BY <4>1, <2>2 DEF ReaderOK
    <3> QED BY <3>1, <3>2
  <2> QED BY <2>4, <2>6
<1> QED BY <1>2, <1>3, <1>4, <1>5 DEF Read

LEMMA WakingNext == Inner /\ Waking /\ [Next]_vars => Waking'
<1> SUFFICES ASSUME Inner, Waking, [Next]_vars, OneReader
             PROVE (\A q \in Writers : WriterOK(q)') /\ (\A r \in Readers : ReaderOK(r)')
  BY DEF Waking, WriterOK, ReaderOK, Writing
<1>1. (\A q \in Writers : WriterOK(q)) /\ (\A r \in Readers : ReaderOK(r))
  BY DEF Waking, WriterOK, ReaderOK, Writing
<1>2. CASE \E w \in Writers : CallWrite(w) \/ Write(w)
  BY <1>1, <1>2, WriterSteps
<1>3. CASE \E r \in Readers : CallRead(r) \/ Read(r)
  <2>1. PICK r \in Readers : CallRead(r) \/ Read(r)
    BY <1>3
  <2>2. (\A q \in Writers : WriterOK(q)') /\ ReaderOK(r)'
    BY <1>1, <2>1, ReaderSteps
  <2>3. \A q \in Readers : q = r
    BY DEF OneReader
  <2> QED BY <2>2, <2>3
<1>4. CASE \E c \in Closers : CloseWithError(c)
  <2>1. /\ pc' = [q \in Procs |-> Woken(q)] /\ len' = len /\ n' = n /\ closed' = TRUE /\ bufLen' = bufLen
    BY <1>4 DEF CloseWithError
  <2>2. Writers \subseteq Procs /\ Readers \subseteq Procs
    BY DEF Procs
  <2>3. \A q \in Writers : WriterOK(q)'
    BY <2>1, <2>2, <1>1, OthersWoken DEF Inner
  <2>4. \A r \in Readers : ReaderOK(r)'
    BY <2>1, <2>2, <1>1 DEF ReaderOK, Woken, Inner, TypeInv
  <2> QED BY <2>3, <2>4
<1>5. CASE UNCHANGED vars
  BY <1>1, <1>5 DEF vars, locals, WriterOK, ReaderOK
<1> QED BY <1>2, <1>3, <1>4, <1>5 DEF Next

(* A reader that is alone, on a pipe to which no empty slice is written,   *)
(* never returns without bytes and without an error, although it waits     *)
(* only once.                                                              *)
THEOREM ReaderGetsSomething == Spec => []ReadsSomething
<1>1. Init => Waking
  BY DEF Init, Waking, Procs
<1>2. Spec => []Waking
  BY <1>1, WakingNext, InnerInvariant, PTL DEF Spec
<1>3. Waking => ReadsSomething
  BY DEF Waking, OneReader, ReadsSomething
<1> QED BY <1>2, <1>3, PTL
---------------------------------------------------------------------------
(* Wake-ups                                                                *)

(* After Broadcast, or Close, nobody waits.                                *)
LEMMA AllWoken ==
  ASSUME TypeInv, NEW p \in Procs, Broadcast(p)
  PROVE  NoneForgotten'
<1>1. \A q \in Procs : pc'[q] \notin {"read waits", "write waits"}
  BY DEF Broadcast, Woken, TypeInv
<1> QED BY <1>1 DEF NoneForgotten, Procs

(* The mutex: goroutines between Lock and Unlock hold it, and a Write that *)
(* is about to wait has not seen the pipe closed.                          *)
Critical == {"write", "grow", "copy"}
Held ==
  /\ \A p \in Procs : pc[p] \in Critical => mu = p
  /\ \A p \in Procs : pc[p] = "grow" => ~closed

(* What a step does to the mutex and to the place of its goroutine.        *)
LEMMA StepsHold ==
  ASSUME TypeInv, Held, NEW p \in Procs,
         \A q \in Procs \ {p} : pc'[q] \in {pc[q], Woken(q)},
         \/ mu' = mu /\ (pc'[p] \in Critical => pc[p] \in Critical)
         \/ mu = Nobody /\ mu' = p
         \/ pc[p] \in Critical /\ pc'[p] \notin Critical /\ mu' = Nobody,
         closed' = closed, pc'[p] = "grow" => ~closed
  PROVE  Held'
<1>1. ASSUME NEW q \in Procs, pc'[q] \in Critical PROVE mu' = q
  <2>1. CASE q = p
    BY <1>1, <2>1 DEF Held
  <2>2. CASE q # p
    <3>1. pc[q] \in Critical
      BY <1>1, <2>2 DEF Woken, Critical
    <3>2. mu = q
      BY <3>1 DEF Held
    <3> QED BY <2>2, <3>2, PipeConstants DEF Held
  <2> QED BY <2>1, <2>2
<1>2. ASSUME NEW q \in Procs, pc'[q] = "grow" PROVE ~closed'
  <2>1. CASE q = p BY <1>2, <2>1
  <2>2. CASE q # p
    <3>1. pc[q] = "grow"
      BY <1>2, <2>2 DEF Woken
    <3> QED BY <3>1 DEF Held
  <2> QED BY <2>1, <2>2
<1> QED BY <1>1, <1>2 DEF Held

LEMMA HeldNext == TypeInv /\ Held /\ [Next]_vars => Held'
<1> SUFFICES ASSUME TypeInv, Held, [Next]_vars PROVE Held'
  OBVIOUS
<1>1. ASSUME NEW w \in Writers, CallWrite(w) \/ Write(w) PROVE Held'
  <2>1. w \in Procs BY DEF Procs
  <2>2. CASE CallWrite(w)
    BY <2>1, <2>2, StepsHold DEF CallWrite, Goto, TypeInv, Critical
  <2>3. CASE LockWrite(w) \/ WriteWakes(w)
    BY <2>1, <2>3, StepsHold DEF LockWrite, WriteWakes, Lock, Goto, TypeInv
  <2>4. CASE WriteClosed(w) \/ WriteWaits(w)
    BY <2>1, <2>4, StepsHold DEF WriteClosed, WriteWaits, Unlock, Goto, TypeInv, Critical
  <2>5. CASE WriteGrow(w)
    BY <2>1, <2>5, StepsHold DEF WriteGrow, Goto, TypeInv, Critical
  <2>6. CASE WriteCopy(w)
    <3>1. pc[w] \in Critical /\ ~closed /\ closed' = closed
          /\ ((Broadcast(w) /\ Unlock) \/ (Goto(w, "grow") /\ mu' = mu))
      BY <2>6 DEF WriteCopy, Critical
    <3> QED BY <2>1, <3>1, StepsHold DEF Broadcast, Unlock, Goto, TypeInv, Critical
  <2> QED BY <1>1, <2>2, <2>3, <2>4, <2>5, <2>6 DEF Write
<1>2. ASSUME NEW r \in Readers, CallRead(r) \/ Read(r) PROVE Held'
  <2>1. r \in Procs BY DEF Procs
  <2>2. CASE CallRead(r) \/ ReadClosed(r) \/ ReadWaits(r)
    BY <2>1, <2>2, StepsHold DEF CallRead, ReadClosed, ReadWaits, Goto, TypeInv, Critical
  <2>3. CASE ReadStarts(r)
    BY <2>1, <2>3, StepsHold DEF ReadStarts, Lock, Goto, TypeInv
  <2>4. CASE ReadCopy(r) \/ ReadDone(r)
    <3>1. pc[r] = "copy" /\ closed' = closed /\ ((Broadcast(r) /\ Unlock) \/ UNCHANGED <<pc, mu>>)
      BY <2>4 DEF ReadCopy, ReadDone
    <3> QED BY <2>1, <3>1, StepsHold DEF Broadcast, Unlock, TypeInv, Critical
  <2> QED BY <1>2, <2>2, <2>3, <2>4 DEF Read
<1>3. ASSUME NEW c \in Closers, CloseWithError(c) PROVE Held'
  <2>1. \A q \in Procs : pc[q] \notin Critical
    BY <1>3, PipeConstants DEF CloseWithError, Held
  <2>2. \A q \in Procs : pc'[q] \notin Critical
    BY <1>3, <2>1 DEF CloseWithError, Woken, Critical
  <2> QED BY <2>2 DEF Held, Critical
<1>4. CASE UNCHANGED vars
  BY <1>4 DEF vars, locals, Held
<1> QED BY <1>1, <1>2, <1>3, <1>4 DEF Next

LEMMA WriterForgetsNone ==
  ASSUME Inner, Held, NoneForgotten, NEW w \in Writers, CallWrite(w) \/ Write(w)
  PROVE  NoneForgotten'
<1> USE DEF Inner
<1>1. w \in Procs /\ w \notin Readers /\ Writers \subseteq Procs /\ Readers \subseteq Procs
  BY PipeConstants DEF Procs
<1>2. CASE Broadcast(w)
  BY <1>1, <1>2, AllWoken
<1>3. CASE WriteClosed(w)
  <2>1. pc' = [pc EXCEPT ![w] = "closed"] /\ closed
    BY <1>3 DEF WriteClosed, Goto
  <2>2. \A q \in Readers : pc'[q] # "read waits"
    BY <2>1, <1>1 DEF NoneForgotten, TypeInv
  <2>3. \A q \in Writers : pc'[q] # "write waits"
    BY <2>1, <1>1 DEF NoneForgotten, TypeInv
  <2> QED BY <2>2, <2>3 DEF NoneForgotten
<1>4. CASE ~Broadcast(w) /\ ~WriteClosed(w)
  <2>1. /\ bufLen \in Nat /\ bufLen' \in Nat /\ bufLen' >= bufLen /\ closed' = closed
        /\ bufLen' # bufLen => WriteCopy(w)
    <3>1. CASE WriteCopy(w)
      <4> DEFINE k == Least(len[w], Room(Filled[Len(Filled)]))
      <4>1. bufLen' = bufLen + k /\ closed' = closed
        BY <3>1 DEF WriteCopy, Filled, Final
      <4>2. Filled[Len(Filled)] \in Buffers /\ Sound(Filled[Len(Filled)])
        BY FilledSound
      <4>3. Room(Filled[Len(Filled)]) \in Nat /\ len[w] \in Nat
        BY <4>2, <1>1 DEF Room, Sound, Buffers, TypeInv
      <4>4. k \in Nat
        BY <4>3, LeastOf
      <4>5. bufLen \in Nat
        BY DEF TypeInv
      <4> HIDE DEF k
      <4> QED BY <3>1, <4>1, <4>4, <4>5
    <3>2. CASE CallWrite(w) \/ LockWrite(w) \/ WriteWaits(w) \/ WriteWakes(w) \/ WriteGrow(w)
      <4>1. bufLen' = bufLen /\ closed' = closed
        BY <3>2 DEF CallWrite, LockWrite, WriteWaits, WriteWakes, WriteGrow
      <4> QED BY <4>1 DEF TypeInv
    <3> QED BY <3>1, <3>2, <1>4 DEF Write
  <2>2. PICK at \in {"lock"} \cup Midway :
             /\ pc' = [pc EXCEPT ![w] = at]
             /\ pc[w] \in Midway \/ bufLen' # bufLen => at \in Midway
             /\ at = "write waits" => pc[w] = "grow" /\ bufLen >= Threshold
    <3>1. CASE WriteCopy(w)
      BY <3>1, <1>4 DEF WriteCopy, Goto, Midway
    <3>2. CASE CallWrite(w)
      <4>1. pc' = [pc EXCEPT ![w] = "lock"] /\ bufLen' = bufLen /\ pc[w] \in {"idle", "closed"}
        BY <3>2 DEF CallWrite, Returned, Goto
      <4>2. pc[w] \notin Midway
        BY <4>1 DEF Midway
      <4> WITNESS "lock" \in {"lock"} \cup Midway
      <4> QED BY <4>1, <4>2
    <3>3. CASE LockWrite(w) \/ WriteWaits(w) \/ WriteWakes(w) \/ WriteGrow(w)
      BY <3>3 DEF LockWrite, WriteWaits, WriteWakes, WriteGrow, Goto, Midway
    <3> QED BY <3>1, <3>2, <3>3, <1>4 DEF Write
  <2>3. \A q \in Procs : pc'[q] = IF q = w THEN at ELSE pc[q]
    BY <2>2, <1>1 DEF TypeInv
  <2>4. ASSUME NEW r \in Readers, pc'[r] = "read waits"
        PROVE  ~closed' /\ (bufLen' = 0 \/ \E v \in Writers : pc'[v] \in Midway)
    <3>1. ~closed /\ (bufLen = 0 \/ \E v \in Writers : pc[v] \in Midway)
      BY <2>3, <2>4, <1>1 DEF NoneForgotten
    <3>2. CASE bufLen = 0
      BY <2>1, <2>2, <2>3, <3>1, <3>2, <1>1
    <3>3. CASE \E v \in Writers : pc[v] \in Midway
      BY <2>1, <2>2, <2>3, <3>1, <3>3, <1>1
    <3> QED BY <3>1, <3>2, <3>3
  <2>5. ASSUME NEW v \in Writers, pc'[v] = "write waits"
        PROVE  ~closed' /\ (bufLen' >= Threshold \/ \E r \in Readers : pc'[r] = "copy")
    <3>1. CASE v = w
      <4>1. pc[w] = "grow" /\ bufLen >= Threshold
        BY <2>2, <2>3, <2>5, <3>1, <1>1
      <4>2. ~closed
        BY <4>1, <1>1 DEF Held
      <4> QED BY <2>1, <4>1, <4>2, PipeConstants
    <3>2. CASE v # w
      <4>1. ~closed /\ (bufLen >= Threshold \/ \E r \in Readers : pc[r] = "copy")
        BY <2>3, <2>5, <3>2, <1>1 DEF NoneForgotten
      <4>2. \A r \in Readers : pc'[r] = pc[r]
        BY <2>3, <1>1
      <4> QED BY <2>1, <4>1, <4>2, PipeConstants
    <3> QED BY <3>1, <3>2
  <2> QED BY <2>4, <2>5 DEF NoneForgotten
<1> QED BY <1>2, <1>3, <1>4

LEMMA ReaderForgetsNone ==
  ASSUME Inner, NoneForgotten, NEW r \in Readers, CallRead(r) \/ Read(r)
  PROVE  NoneForgotten'
<1> USE DEF Inner
<1>1. r \in Procs /\ r \notin Writers /\ Writers \subseteq Procs /\ Readers \subseteq Procs
  BY PipeConstants DEF Procs
<1>2. CASE Broadcast(r)
  BY <1>1, <1>2, AllWoken
<1>3. CASE ReadCopy(r) /\ ~Broadcast(r)
  <2>1. pc' = pc /\ pc[r] = "copy" /\ bufLen > 0 /\ closed' = closed
    BY <1>3 DEF ReadCopy
  <2>2. ASSUME NEW q \in Readers, pc'[q] = "read waits"
        PROVE  ~closed' /\ (bufLen' = 0 \/ \E w \in Writers : pc'[w] \in Midway)
    <3>1. ~closed /\ (bufLen = 0 \/ \E w \in Writers : pc[w] \in Midway)
      BY <2>1, <2>2 DEF NoneForgotten
    <3>2. bufLen # 0
      BY <2>1
    <3> QED BY <2>1, <3>1, <3>2
  <2>3. \A w \in Writers : pc'[w] = "write waits" => ~closed' /\ pc'[r] = "copy"
    BY <2>1 DEF NoneForgotten
  <2> QED BY <2>2, <2>3 DEF NoneForgotten
<1>4. CASE CallRead(r) \/ ReadClosed(r) \/ ReadWaits(r) \/ ReadStarts(r)
  <2>1. /\ bufLen' = bufLen /\ closed' = closed /\ pc[r] # "copy"
        /\ \E at \in {"lock", "closed", "read waits", "copy"} :
             pc' = [pc EXCEPT ![r] = at] /\ (at = "read waits" => bufLen = 0 /\ ~closed)
    BY <1>4 DEF CallRead, ReadClosed, ReadWaits, ReadStarts, Returned, Goto
  <2> QED BY <2>1, <1>1 DEF NoneForgotten, TypeInv
<1> QED BY <1>2, <1>3, <1>4 DEF Read, ReadDone

(* A goroutine waits on the condition only while there is nothing for it   *)
(* or while another call that will wake it has not returned; nobody waits  *)
(* on a closed pipe.                                                       *)
THEOREM WakeUpsReach == Spec => []NoneForgotten
<1>1. Init => Held /\ NoneForgotten
  BY DEF Init, Held, Critical, NoneForgotten, Procs
<1>2. Inner /\ Held /\ NoneForgotten /\ [Next]_vars => NoneForgotten'
  <2> SUFFICES ASSUME Inner, Held, NoneForgotten, [Next]_vars PROVE NoneForgotten'
    OBVIOUS
  <2>1. CASE \E w \in Writers : CallWrite(w) \/ Write(w)
    BY <2>1, WriterForgetsNone
  <2>2. CASE \E r \in Readers : CallRead(r) \/ Read(r)
    BY <2>2, ReaderForgetsNone
  <2>3. CASE \E c \in Closers : CloseWithError(c)
    <3>1. \A q \in Procs : pc'[q] \notin {"read waits", "write waits"}
      BY <2>3 DEF CloseWithError, Woken
    <3> QED BY <3>1 DEF NoneForgotten, Procs
  <2>4. CASE UNCHANGED vars
    BY <2>4 DEF vars, locals, NoneForgotten
  <2> QED BY <2>1, <2>2, <2>3, <2>4 DEF Next
<1>3. Inner => TypeInv
  BY DEF Inner
<1> QED BY <1>1, <1>2, <1>3, HeldNext, InnerInvariant, PTL DEF Spec
=============================================================================
