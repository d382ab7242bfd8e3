------------------------------- MODULE MCApi -------------------------------
EXTENDS Api, TLC

CONSTANTS c1, c2, Areas

Dotted(a, b) == <<Number(a), Sign("."), Number(b)>>
MCStrings == {Dotted(1, 18), Dotted(1, 25), <<Number(1)>>}

(* A resource is used by one goroutine, the rest of the world changes it;  *)
(* the version by two.                                                     *)
Init ==
  /\ InitApi({c1 :> 1 @@ c2 :> n : n \in 0 .. 1})
  /\ area \in Areas
  /\ left[c2] = IF area = "version" THEN 1 ELSE 0
  /\ area # "version" => string = Dotted(1, 18)
Spec == Init /\ [][NextApi]_vars /\ FairApi
=============================================================================
