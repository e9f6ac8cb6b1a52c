------------------------------ MODULE MCKeeper ------------------------------
(***************************************************************************)
(* Two lanes that drive the browser and the drain lane of the channel, in  *)
(* two worlds: no channel is bound and the browser has its troubles, or    *)
(* the provider is switched and the browser has none.                      *)
(***************************************************************************)
EXTENDS Keeper

Troubled == /\ troubles = 0 /\ swaps = MaxSwaps /\ chrome.port = AnyPort
            /\ \A t \in Replaceable : ~task[t].on
Switched == /\ troubles = MaxTroubles /\ swaps = 0 /\ chrome = [up |-> TRUE, port |-> AnyPort]
            /\ \A t \in Replaceable : task[t].on

MCInit == Init /\ (Troubled \/ Switched)
MCSpec == MCInit /\ [][Next]_vars /\ Fairness
=============================================================================
