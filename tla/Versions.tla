------------------------------ MODULE Versions ------------------------------
(***************************************************************************)
(* Versions of the remote API: APIVersion of docker/client.go, a slice of  *)
(* integers, and the strings of docker/types/versions/compare.go.  The nil *)
(* version is the empty sequence.                                          *)
(***************************************************************************)
EXTENDS Integers, Sequences

Nil == <<>>

apiVersion119 == <<1, 19>>
apiVersion124 == <<1, 24>>
apiVersion125 == <<1, 25>>

(* The first place, of those that both have, where v and w differ.         *)
Differ(v, w, i) ==
  /\ i \in 1 .. Len(v) /\ i \in 1 .. Len(w) /\ v[i] # w[i]
  /\ \A j \in 1 .. i - 1 : v[j] = w[j]

(* compare, as its result's sign decides the four methods.                 *)
LessThan(v, w) ==
  \/ \E i \in 1 .. Len(v) : Differ(v, w, i) /\ v[i] < w[i]
  \/ (\A i \in 1 .. Len(v) : ~Differ(v, w, i)) /\ Len(v) < Len(w)
GreaterThan(v, w)          == LessThan(w, v)
LessThanOrEqualTo(v, w)    == ~LessThan(w, v)
GreaterThanOrEqualTo(v, w) == ~LessThan(v, w)

(* NewAPIVersion.  An input is a sequence of tokens: a number, ".", "-" or *)
(* other text; Nil is an error.  What follows a "-" goes.                  *)
Number(n) == [kind |-> "number", value |-> n]
Sign(s)   == [kind |-> s, value |-> 0]
NewAPIVersion(input) ==
  LET cut == {i \in 1 .. Len(input) : input[i].kind = "-"}
      end == IF cut = {} THEN Len(input) ELSE (CHOOSE i \in cut : \A j \in cut : i <= j) - 1
  IN  IF /\ \E i \in 1 .. Len(input) : input[i].kind = "."
         /\ end % 2 = 1
         /\ \A i \in 1 .. end : input[i].kind = IF i % 2 = 1 THEN "number" ELSE "."
      THEN [i \in 1 .. (end + 1) \div 2 |-> input[2 * i - 1].value] ELSE Nil

(* types/versions: a part that is missing counts as 0.                     *)
Part(v, i) == IF i <= Len(v) THEN v[i] ELSE 0
PaddedLess(v, w) ==
  \E i \in 1 .. (IF Len(v) < Len(w) THEN Len(w) ELSE Len(v)) :
    Part(v, i) < Part(w, i) /\ \A j \in 1 .. i - 1 : Part(v, j) = Part(w, j)
PaddedEqual(v, w) == ~PaddedLess(v, w) /\ ~PaddedLess(w, v)
=============================================================================
