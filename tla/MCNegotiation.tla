--------------------------- MODULE MCNegotiation ---------------------------
(***************************************************************************)
(* Instances of the two engines for TLC: in one world the agent sells an   *)
(* item, in the other it buys what is wanted.  The two share no row.       *)
(***************************************************************************)
EXTENDS Negotiation, BuyerNegotiation

VARIABLE world

\* Lowballs are deflected once; the seller may turn softer between offers.
Softer ==
    {[step |-> Unit, counters |-> n, num |-> 1, den |-> 2, cap |-> n] : n \in {1, 2}}

\* A budget of 5.50 with a target below it, and a tighter one.
TwoBudgets ==
    {[max |-> 11, target |-> 6, step |-> 2, rounds |-> 1, num |-> 4, den |-> 5],
     [max |-> 8, target |-> 8, step |-> 2, rounds |-> 1, num |-> 1, den |-> 2]}

HaggleInit == world \in {"sell", "buy"} /\ Init /\ BuyInit

HaggleNext ==
    /\ UNCHANGED world
    /\ \/ world = "sell" /\ Next /\ UNCHANGED buyVars
       \/ world = "buy" /\ BuyNext /\ UNCHANGED vars

HaggleSpec == HaggleInit /\ [][HaggleNext]_<<world, vars, buyVars>>

\* What a call answered is judged as it is answered, and no state depends on it.
LedgerView == <<world, item, ledger, pricing, purchase, read, promised>>

=============================================================================
