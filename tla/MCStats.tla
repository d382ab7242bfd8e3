------------------------------- MODULE MCStats -------------------------------
(* Model-checking instances of Stats.                                         *)
EXTENDS Stats

\* A socket with one of the two timeouts or none, and TCP with the inactivity
\* timeout (the other is not read over TCP).  With both on a socket, that the
\* deadline must pass would hide what the inactivity timeout does.
ChosenOptions ==
  {o \in [unix: BOOLEAN, timeout: BOOLEAN, inactivity: BOOLEAN] :
     IF o.unix THEN ~(o.timeout /\ o.inactivity) ELSE o.inactivity /\ ~o.timeout}

\* The count of calls matters while the timer's goroutine is going to compare it.
LiveState ==
  <<request, socket, timer, called /\ timer = "waits", canceled, daemon, stats>>
=============================================================================
