---------------------------- MODULE MailPromise ----------------------------
(***************************************************************************)
(* What a reply by email is promised to be, with no attempt, timeout, lane *)
(* or crash in sight: it is handed in under an id of its own, reaches the  *)
(* buyer at most once, is counted as sent only when it did, as refused     *)
(* only when it did not and never will, and until it is one or the other,  *)
(* or the seller is asked, no second one is handed in for that buyer.      *)
(***************************************************************************)
CONSTANTS Intent, Buyer, None

VARIABLES
    fate,      \* what the desk knows of each reply
    buyer,     \* whom it is for, once it is handed in
    delivered  \* the replies that reached their buyer

Init ==
    /\ fate = [i \in Intent |-> "unborn"]
    /\ buyer = [i \in Intent |-> None]
    /\ delivered = {}

HandIn(i, b) ==
    /\ fate[i] = "unborn"
    /\ \A j \in Intent : fate[j] = "owed" => buyer[j] # b
    /\ fate' = [fate EXCEPT ![i] = "owed"]
    /\ buyer' = [buyer EXCEPT ![i] = b]
    /\ UNCHANGED delivered

\* An attempt may be on its way while the seller is being asked.
Deliver(i) ==
    /\ fate[i] \in {"owed", "asked"} /\ i \notin delivered
    /\ delivered' = delivered \cup {i}
    /\ UNCHANGED <<fate, buyer>>

Confirm(i) ==
    /\ fate[i] \in {"owed", "asked"} /\ i \in delivered
    /\ fate' = [fate EXCEPT ![i] = "sent"]
    /\ UNCHANGED <<buyer, delivered>>

Refuse(i) ==
    /\ fate[i] = "owed" /\ i \notin delivered
    /\ fate' = [fate EXCEPT ![i] = "refused"]
    /\ UNCHANGED <<buyer, delivered>>

Ask(i) ==
    /\ fate[i] = "owed"
    /\ fate' = [fate EXCEPT ![i] = "asked"]
    /\ UNCHANGED <<buyer, delivered>>

Next ==
    \E i \in Intent :
        \/ \E b \in Buyer : HandIn(i, b)
        \/ Deliver(i) \/ Confirm(i) \/ Refuse(i) \/ Ask(i)

Spec == Init /\ [][Next]_<<fate, buyer, delivered>>
=============================================================================
