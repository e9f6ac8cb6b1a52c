---------------------------- MODULE SendPromise ----------------------------
(***************************************************************************)
(* What the send bracket promises a buyer and the seller about each reply, *)
(* with no sender, lane, sweep, clock or thread status in sight:           *)
(*   - a message reaches the marketplace at most once, and is never sent   *)
(*     again after a failure;                                              *)
(*   - at most one reply of a conversation is in doubt, known to have been *)
(*     accepted and not known to have arrived;                             *)
(*   - a reply counts as sent only if the marketplace accepted it, and     *)
(*     then for good;                                                      *)
(*   - what the machine gave up on was handed over, and may still settle.  *)
(***************************************************************************)
CONSTANTS Intent, ThreadOf

VARIABLES
    fate,      \* what is known of each reply
    accepted   \* the replies the marketplace accepted

Fates == {"unborn", "tried", "doubt", "asked", "sent"}

Init ==
    /\ fate = [i \in Intent |-> "unborn"]
    /\ accepted = {}

Try(i) ==
    /\ fate[i] = "unborn"
    /\ fate' = [fate EXCEPT ![i] = "tried"]
    /\ UNCHANGED accepted

\* The marketplace accepts a message, the only time it is offered it.
Accept(i) ==
    /\ fate[i] \in {"tried", "asked"}
    /\ i \notin accepted
    /\ accepted' = accepted \cup {i}
    /\ UNCHANGED fate

Doubt(i) ==
    /\ fate[i] = "tried"
    /\ i \in accepted
    /\ \A j \in Intent : fate[j] = "doubt" => ThreadOf[j] # ThreadOf[i]
    /\ fate' = [fate EXCEPT ![i] = "doubt"]
    /\ UNCHANGED accepted

HandOver(S) ==
    /\ \A i \in S : fate[i] \in {"tried", "doubt"}
    /\ fate' = [i \in Intent |-> IF i \in S THEN "asked" ELSE fate[i]]
    /\ UNCHANGED accepted

Settle(i) ==
    /\ fate[i] \in {"tried", "doubt", "asked"}
    /\ i \in accepted
    /\ fate' = [fate EXCEPT ![i] = "sent"]
    /\ UNCHANGED accepted

Next ==
    \/ \E i \in Intent : Try(i) \/ Accept(i) \/ Doubt(i) \/ Settle(i)
    \/ \E S \in SUBSET Intent : HandOver(S)

Spec == Init /\ [][Next]_<<fate, accepted>>
=============================================================================
