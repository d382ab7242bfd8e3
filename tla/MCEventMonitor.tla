---------------------------- MODULE MCEventMonitor ----------------------------
(* Model-checking instance of EventMonitor.                                    *)
EXTENDS EventMonitor, TLC

ListenerSymmetry == Permutations(Listeners)

\* The value of a goroutine's local variable is hidden where no later step can
\* read it: states that differ in such values only behave alike.
While(f, pc, labels) == [p \in DOMAIN f |-> IF pc[p] \in labels THEN f[p] ELSE 0]

LiveState ==
  <<state, pending, upc, mpc, rpc, rgen, bounds, panic,
    While(mgen, mpc, {"load", "dial", "readErrC", "select"}),
    While(merr, mpc, {"select"}),
    While(since, mpc, {"dial"}),
    While(hold, mpc, {"updateLastSeen"}),
    While(tries, mpc, {"connect", "load", "dial"}),
    While(rnext, rpc, {"decode", "event", "error", "sending"})>>
=============================================================================
