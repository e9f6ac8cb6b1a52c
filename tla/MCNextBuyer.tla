---------------------------- MODULE MCNextBuyer ----------------------------
(***************************************************************************)
(* Instances of NextBuyer for TLC.                                         *)
(***************************************************************************)
EXTENDS NextBuyer

\* One counter is given, no lowballs.
OneCounter == {[step |-> Unit, counters |-> 1, num |-> 0, den |-> 1, cap |-> 2]}

\* What a call answered is judged as it is answered, and no state depends on it.  There is
\* one floor to set, so who set it decides nothing either.
TapView == <<price, floor, ledger, taps, ours>>
=============================================================================
