------------------------------ MODULE MCHijack ------------------------------
(* Model-checking instances of Hijack.                                       *)
EXTENDS Hijack

\* Every stream with every kind of command over a plain connection; TLS, with
\* and without a timeout, for one of them.
ChosenOptions ==
  {o \in Options : IF o.tls THEN o.in = "none" /\ o.out /\ ~o.raw /\ ~o.success /\ ~o.cat
                   ELSE ~o.timeout /\ (o.raw => o.in = "none" /\ o.out) /\ (o.success => o.in # "plain" /\ ~o.cat)}
=============================================================================
