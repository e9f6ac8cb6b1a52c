---------------------------- MODULE MCSellerDesk ----------------------------
(***************************************************************************)
(* Four worlds: the seller's messages still to come and no buyer, in a     *)
(* daemon that has stopped before; their words alone, the taps having been *)
(* answered by the receive thread itself, in a daemon that may yet stop;   *)
(* the buyers alone, in one that may stop; and a buyer already waiting     *)
(* while the seller writes the words, in one that has stopped before.      *)
(***************************************************************************)
EXTENDS SellerDesk

WordsUnsent == \A r \in Rows : inbox[r].status = "handled" <=> r \in Taps
NobodyWaits  == \A t \in Threads : heard[t] = MaxMsgs /\ answered[t] = MaxMsgs

SellersWorld == (\A r \in Rows : inbox[r].status = "unsent") /\ NobodyWaits /\ stops = MaxStops
WordsWorld   == WordsUnsent /\ NobodyWaits /\ stops = 0
BuyersWorld  == /\ \A r \in Rows : inbox[r].status = "handled"
                /\ \A t \in Threads : heard[t] = 0
                /\ stops = 0
SharedWorld  == /\ WordsUnsent
                /\ \A t \in Threads : heard[t] = MaxMsgs /\ answered[t] = MaxMsgs - 1
                /\ stops = MaxStops

MCInit == DeskInit /\ (SellersWorld \/ WordsWorld \/ BuyersWorld \/ SharedWorld)
MCSpec == MCInit /\ [][Next]_vars /\ Fairness
=============================================================================
