------------------------------- MODULE Pipe -------------------------------
(***************************************************************************)
(* What a BytesPipe promises: a queue of bytes that are read once, in the  *)
(* order in which they were written, and to which nothing is written once  *)
(* it is closed.  A byte is its position in all that is written; chunk is  *)
(* what the last reader to take bytes got.                                 *)
(***************************************************************************)
EXTENDS Naturals

VARIABLES put, taken, chunk, closed

vars == <<put, taken, chunk, closed>>

Init == put = 0 /\ taken = 0 /\ chunk = <<0, 0>> /\ closed = FALSE

Put ==
  /\ ~closed
  /\ put' \in Nat /\ put' > put
  /\ UNCHANGED <<taken, chunk, closed>>

Take ==
  /\ taken' \in Nat /\ taken' > taken /\ taken' <= put
  /\ chunk' = <<taken, taken'>>
  /\ UNCHANGED <<put, closed>>

Close == closed' = TRUE /\ UNCHANGED <<put, taken, chunk>>

Next == Put \/ Take \/ Close
Spec == Init /\ [][Next]_vars
=============================================================================
