---------------------------- MODULE Negotiation ----------------------------
(***************************************************************************)
(* The sell-side ledger of one item: its list price, its confidential      *)
(* floor, the offers of the buyers on every marketplace, and who holds it. *)
(* Each action is one transaction of store/negotiation.py or               *)
(* store/items.py; negotiate_offer takes the branch engines/negotiate.py   *)
(* decides.  A price change is two steps, as update_live_listing reads the *)
(* ledger in one transaction and writes the item in another.               *)
(*                                                                         *)
(* Amounts count the smallest coin of the instance, Unit of them to the    *)
(* dollar: the engine truncates to whole dollars, prices need not be.      *)
(***************************************************************************)
EXTENDS Integers

CONSTANTS
    Buyer,          \* thread ids of the item, numbered in the order of the ids
    Prices,         \* the list prices the seller may ask
    Floors,         \* the floors the seller may set
    Offers,         \* the amounts buyers may offer and sellers may close at
    Unit,           \* coins to the dollar
    Knobs,          \* what the firmness setting may resolve to, at each offer
    ForceFloor,     \* whether the seller corrects a floor of theirs (force)
    AfterSale       \* whether the seller releases or confirms on an item marked sold

ASSUME NegotiationAssumption ==
    /\ Buyer \subseteq Nat
    /\ Prices \subseteq Nat \ {0} /\ Floors \subseteq Nat \ {0}
    /\ Offers \subseteq Nat \ {0}
    /\ Unit \in Nat \ {0} /\ ForceFloor \in BOOLEAN /\ AfterSale \in BOOLEAN
    /\ Knobs \subseteq [step : Nat, counters : Nat, num : Nat, den : Nat, cap : Nat]

VARIABLES
    price,          \* items.list_price
    floor,          \* floors.floor, 0 while the item has no row
    floorBy,        \* floors.source, "none" while the item has no row
    state,          \* negotiations.state
    bidding,        \* negotiations.is_bidding
    front,          \* negotiations.front_runner
    buyers,         \* the rows of negotiation_buyers
    pricing,        \* the price update_live_listing has let through, 0 if none
    answer          \* what the last call of negotiate_offer answered

item    == <<price, floor, floorBy>>
holding == <<state, bidding, front>>
ledger  == <<holding, buyers>>
vars    == <<item, ledger, pricing, answer>>

Nobody   == -1
NoFront  == [to |-> Nobody, amount |-> 0, kind |-> "none"]
NoAnswer == [to |-> Nobody, decision |-> "none", price |-> 0]
Silent   == answer' = NoAnswer

\* A buyer with no row has status "none"; last = 0 is no offer yet, counter = 0 no
\* counter yet.  Of the offers only the last is ever read again.
Blank == [status |-> "none", last |-> 0, held |-> FALSE, highest |-> 0,
          rounds |-> 0, counter |-> 0, lowballs |-> 0]

NotStanding == {"passed", "lost", "withdrew"}
Statuses    == {"none", "active", "front_runner", "leading_bid", "won", "outbid"}
                   \cup NotStanding

Init ==
    /\ price \in Prices
    /\ floor = 0 /\ floorBy = "none"
    /\ state = "open" /\ bidding = FALSE /\ front = NoFront
    /\ buyers = [b \in Buyer |-> Blank]
    /\ pricing = 0 /\ answer = NoAnswer

-----------------------------------------------------------------------------
(* The engine's arithmetic.                                                *)

Whole(x)    == (x \div Unit) * Unit
Larger(x, y)  == IF x >= y THEN x ELSE y
Smaller(x, y) == IF x <= y THEN x ELSE y

Stands(r) == r.status \notin NotStanding

\* The standing buyer of S with the highest offer, the later id on a tie: at most one.
BestStanding(bs, S) ==
    {b \in S :
        /\ Stands(bs[b]) /\ bs[b].highest > 0
        /\ \A c \in S \ {b} :
              \/ ~Stands(bs[c])
              \/ bs[c].highest < bs[b].highest
              \/ bs[c].highest = bs[b].highest /\ c < b}

OtherBest(b) ==
    LET best == BestStanding(buyers, Buyer \ {b})
    IN  IF best = {} THEN 0 ELSE buyers[CHOOSE c \in best : TRUE].highest

\* Mutant: a rival's standing offer is matched, not beaten.
EffectiveMinMatched(b) ==
    Larger(floor, Smaller(price, IF OtherBest(b) = 0 THEN floor ELSE OtherBest(b)))

\* The least the seller takes from b: above every rival's standing offer, but never
\* above the list price, and never below the floor.
EffectiveMin(b) ==
    LET rival == IF OtherBest(b) = 0 THEN floor ELSE OtherBest(b) + Unit
    IN  Larger(floor, Smaller(price, rival))

Bar == IF bidding /\ front.kind = "bid" THEN front.amount ELSE price

\* A buyer's row as the offer o is decided on: entered, brought back if they had
\* withdrawn, and the offer recorded, a hold for the same amount consumed.
Readmitted(r, o) ==
    IF r.status = "withdrew"
    THEN [r EXCEPT !.status = "active", !.highest = Whole(o)]
    ELSE [r EXCEPT !.status = IF @ = "none" THEN "active" ELSE @]

RecordOffer(r, o, forFloor) ==
    IF r.last = o
    THEN [r EXCEPT !.held = @ /\ forFloor]
    ELSE [r EXCEPT !.last = o, !.held = forFloor, !.highest = Larger(@, Whole(o))]

Heard(b, o) == RecordOffer(Readmitted(buyers[b], o), o, FALSE)

\* The same offer handed in again, by a lane that retries.
Repeated(b, o) ==
    buyers[b].status # "withdrew" /\ buyers[b].last = o /\ ~buyers[b].held

\* decide_below_list: the last counter met; counters spent; a lowball; the counter.
Shown(r)         == IF r.counter # 0 THEN r.counter ELSE price
Meets(r, o, min) == r.counter # 0 /\ o >= r.counter /\ o >= min
Lowball(o, k)    == o * k.den < k.num * price

Spent(r, k) == r.rounds >= k.counters

Walked(r, k, min) ==
    Larger(min, Smaller(price - k.step * (r.rounds + 1), Shown(r)))

\* Mutant: the counter is the floor itself.
NextCounterBare(r, o, k, min) == Walked(r, k, min)

\* A counter equal to the floor would tell a buyer below it what the floor is.
NextCounter(r, o, k, min) ==
    IF Walked(r, k, min) = floor /\ Shown(r) > floor /\ o < floor
    THEN Smaller(Shown(r), floor + k.step) ELSE Walked(r, k, min)

-----------------------------------------------------------------------------
(* negotiate_offer.  Decides and Save are what its branches share.         *)

\* At or above list an item with no floor gets the list price as its default one.
Decides(b, o) ==
    /\ floor # 0 \/ o >= price
    /\ ~Repeated(b, o)
    /\ floor' = IF floor = 0 THEN price ELSE floor
    /\ floorBy' = IF floor = 0 THEN "default" ELSE floorBy
    /\ UNCHANGED <<price, pricing>>

Save(b, r) == buyers' = [buyers EXCEPT ![b] = r]

Tell(b, decision, named) ==
    answer' = [to |-> b, decision |-> decision, price |-> named]

OfferOnSold(b, o) ==
    /\ state = "sold" /\ Decides(b, o)
    /\ Save(b, Heard(b, o)) /\ Tell(b, "sold", 0)
    /\ UNCHANGED <<state, bidding, front>>

\* Mutant: a leading bid is accepted without the seller.
BidLeadAccepted(b, o) ==
    /\ state # "sold" /\ o > price /\ o > Bar /\ Decides(b, o)
    /\ state' = "reserved_provisional" /\ bidding' = TRUE
    /\ front' = [to |-> b, amount |-> Whole(o), kind |-> "bid"]
    /\ Save(b, [Heard(b, o) EXCEPT !.status = "leading_bid"])
    /\ Tell(b, "bid_lead", Whole(o))

BidLead(b, o) ==
    /\ state # "sold" /\ o > price /\ o > Bar /\ Decides(b, o)
    /\ state' = "bidding" /\ bidding' = TRUE
    /\ front' = [to |-> b, amount |-> Whole(o), kind |-> "bid"]
    /\ Save(b, [Heard(b, o) EXCEPT !.status = "leading_bid"])
    /\ Tell(b, "bid_lead", Whole(o))

BidOutbid(b, o) ==
    /\ state # "sold" /\ (IF o > price THEN o <= Bar ELSE bidding) /\ Decides(b, o)
    /\ state' = "bidding" /\ bidding' = TRUE
    /\ Save(b, Heard(b, o)) /\ Tell(b, "bid_outbid", Whole(Bar))
    /\ UNCHANGED front

\* First come, first served: nobody else holds the item.
Free(b) == front = NoFront \/ front.to = b

Accept(b, o) ==
    /\ state' = "reserved_provisional"
    /\ front' = [to |-> b, amount |-> Whole(o), kind |-> "fcfs"]
    /\ Save(b, [Heard(b, o) EXCEPT !.status = "front_runner"])
    /\ Tell(b, "accept_fcfs", Whole(o))
    /\ UNCHANGED bidding

AcceptAtList(b, o) ==
    /\ state # "sold" /\ o = price /\ ~bidding /\ Free(b) /\ Decides(b, o)
    /\ Accept(b, o)

FcfsTaken(b, o) ==
    /\ state # "sold" /\ o <= price /\ ~bidding /\ ~Free(b) /\ Decides(b, o)
    /\ Save(b, Heard(b, o)) /\ Tell(b, "fcfs_taken", 0)
    /\ UNCHANGED <<state, bidding, front>>

Haggles(b, o) ==
    state # "sold" /\ o < price /\ ~bidding /\ Free(b) /\ Decides(b, o)

\* The backstop: a price below the floor is not emitted.
Emits(named) == named >= floor

AcceptBelowList(b, o, k) ==
    LET r == Heard(b, o)
        min == EffectiveMin(b)
    IN  /\ Haggles(b, o)
        /\ \/ Meets(r, o, min)
           \/ ~Spent(r, k) /\ ~Lowball(o, k) /\ NextCounter(r, o, k, min) <= o
        /\ Emits(Whole(o)) /\ Accept(b, o)

HoldFirm(b, o, k) ==
    LET r == Heard(b, o)
        hold == Whole(Larger(Shown(r), EffectiveMin(b)))
    IN  /\ Haggles(b, o) /\ ~Meets(r, o, EffectiveMin(b)) /\ Spent(r, k)
        /\ Emits(hold) /\ Save(b, r) /\ Tell(b, "hold_firm", hold)
        /\ UNCHANGED <<state, bidding, front>>

DeflectLowball(b, o, k) ==
    LET r == Heard(b, o)
    IN  /\ Haggles(b, o) /\ ~Meets(r, o, EffectiveMin(b)) /\ ~Spent(r, k) /\ Lowball(o, k)
        /\ r.lowballs + 1 < k.cap
        /\ Save(b, [r EXCEPT !.lowballs = @ + 1]) /\ Tell(b, "deflect_lowball", 0)
        /\ UNCHANGED <<state, bidding, front>>

Disengage(b, o, k) ==
    LET r == Heard(b, o)
    IN  /\ Haggles(b, o) /\ ~Meets(r, o, EffectiveMin(b)) /\ ~Spent(r, k) /\ Lowball(o, k)
        /\ r.lowballs + 1 >= k.cap
        /\ Emits(Whole(Shown(r)))
        /\ Save(b, [r EXCEPT !.status = "passed"])
        /\ Tell(b, "disengage", Whole(Shown(r)))
        /\ UNCHANGED <<state, bidding, front>>

Counter(b, o, k) ==
    LET r == Heard(b, o)
        named == Whole(NextCounter(r, o, k, EffectiveMin(b)))
    IN  /\ Haggles(b, o) /\ ~Meets(r, o, EffectiveMin(b)) /\ ~Spent(r, k) /\ ~Lowball(o, k)
        /\ NextCounter(r, o, k, EffectiveMin(b)) > o
        /\ Emits(named)
        /\ Save(b, [r EXCEPT !.rounds = @ + 1, !.counter = named])
        /\ Tell(b, "counter", named)
        /\ UNCHANGED <<state, bidding, front>>

\* An offer already decided: answered from the ledger, nothing changes.
RepeatOffer(b, o) ==
    /\ floor # 0 /\ Repeated(b, o)
    /\ Tell(b, "repeat_offer", buyers[b].counter)
    /\ UNCHANGED <<item, ledger, pricing>>

\* Below list with no floor: the offer is recorded and the seller asked once.
HoldForFloor(b, o) ==
    /\ floor = 0 /\ o < price
    /\ IF state = "sold"
       THEN Tell(b, "sold", 0) /\ UNCHANGED buyers
       ELSE /\ Tell(b, "needs_floor", 0)
            /\ Save(b, RecordOffer(Readmitted(buyers[b], o), o, TRUE))
    /\ UNCHANGED <<item, holding, pricing>>

NegotiateOffer(b, o) ==
    \/ OfferOnSold(b, o) \/ BidLead(b, o) \/ BidOutbid(b, o)
    \/ AcceptAtList(b, o) \/ FcfsTaken(b, o) \/ RepeatOffer(b, o) \/ HoldForFloor(b, o)
    \/ \E k \in Knobs :
          \/ AcceptBelowList(b, o, k) \/ HoldFirm(b, o, k)
          \/ DeflectLowball(b, o, k) \/ Disengage(b, o, k) \/ Counter(b, o, k)
-----------------------------------------------------------------------------
(* What the seller does, and a buyer who leaves.                           *)

\* Put the item back on the market, under the best bid still standing among bs.
Reopened(bs) ==
    LET best == BestStanding(bs, Buyer)
        lead == CHOOSE b \in best : TRUE
    IN  IF bidding /\ best # {} /\ bs[lead].highest > price
        THEN [to |-> lead, amount |-> bs[lead].highest, kind |-> "bid"]
        ELSE NoFront

Reopen(bs) ==
    /\ state' = IF bidding THEN "bidding" ELSE "open"
    /\ front' = Reopened(bs)
    /\ buyers' = bs
    /\ UNCHANGED bidding

\* bs with every other buyer still in the running marked st.
Others(bs, b, st) ==
    [c \in Buyer |->
        IF c # b /\ Stands(bs[c]) /\ bs[c].status # "none"
        THEN [bs[c] EXCEPT !.status = st] ELSE bs[c]]

ConfirmBid(b) ==
    /\ front.to = b
    /\ state = "sold" => AfterSale
    /\ state' = "reserved_provisional"
    /\ buyers' = Others([buyers EXCEPT ![b].status = "won"], b, "outbid")
    /\ Silent
    /\ UNCHANGED <<item, bidding, front, pricing>>

ConfirmSold(b) ==
    /\ state' = "sold"
    /\ buyers' = Others(buyers, b, "lost")
    /\ Silent
    /\ UNCHANGED <<item, bidding, front, pricing>>

\* The holders' rows, given back.
Unheld(bs, S) ==
    [c \in Buyer |-> IF c \in S /\ bs[c].status \in {"front_runner", "won"}
                     THEN [bs[c] EXCEPT !.status = "active"] ELSE bs[c]]

Release ==
    /\ state = "sold" => AfterSale
    /\ Reopen(Unheld(buyers, Buyer))
    /\ Silent
    /\ UNCHANGED <<item, pricing>>

\* A buyer who held the item or led the bidding gives it up as they leave.
Gone(b) == [buyers EXCEPT ![b].status = "withdrew"]

Withdraw(b) ==
    /\ state # "sold" /\ buyers[b].status # "withdrew"
    /\ IF front.to = b THEN Reopen(Gone(b)) ELSE buyers' = Gone(b) /\ UNCHANGED holding
    /\ Silent
    /\ UNCHANGED <<item, pricing>>

\* A floor of the seller's is only replaced by a forced one of theirs.
SetFloor(f, by) ==
    /\ f <= price
    /\ floorBy = "seller" => by = "seller" /\ ForceFloor
    /\ floor' = f /\ floorBy' = by
    /\ Silent
    /\ UNCHANGED <<price, ledger, pricing>>

\* update_live_listing: no price change while a deal is in flight, as the ledger read
\* first has it; the write brings the floor under the new price.
AdmitPrice(p) ==
    /\ pricing = 0 /\ p # price /\ state = "open"
    /\ pricing' = p
    /\ Silent
    /\ UNCHANGED <<item, ledger>>

\* Mutant: the floor stays where it was.
WritePriceAlone ==
    /\ pricing # 0
    /\ price' = pricing /\ pricing' = 0
    /\ Silent
    /\ UNCHANGED <<floor, floorBy, ledger>>

WritePrice ==
    /\ pricing # 0
    /\ price' = pricing /\ pricing' = 0
    /\ floor' = Smaller(floor, pricing)
    /\ Silent
    /\ UNCHANGED <<floorBy, ledger>>

\* The floor gate of a checkout, passed: at or above list it writes the default floor.
FloorGate(p) ==
    /\ IF floor = 0 THEN p >= price ELSE p >= floor
    /\ floor' = IF floor = 0 THEN price ELSE floor
    /\ floorBy' = IF floor = 0 THEN "default" ELSE floorBy
    /\ Silent
    /\ UNCHANGED <<price, ledger, pricing>>

Next ==
    \/ \E b \in Buyer, o \in Offers : NegotiateOffer(b, o)
    \/ \E b \in Buyer : Withdraw(b) \/ ConfirmBid(b) \/ ConfirmSold(b)
    \/ Release
    \/ \E f \in Floors, by \in {"default", "seller"} : SetFloor(f, by)
    \/ \E p \in Prices : AdmitPrice(p)
    \/ WritePrice
    \/ \E p \in Offers : FloorGate(p)

Spec == Init /\ [][Next]_vars

-----------------------------------------------------------------------------
(* Properties.                                                             *)

Amounts  == Prices \cup Floors \cup Offers
Reserved == state = "reserved_provisional"

BuyerRow ==
    [status : Statuses, last : Nat, held : BOOLEAN, highest : Nat,
     rounds : Nat, counter : Int, lowballs : Nat]

\* Every field keeps its type, a floor has a source, and no buyer is given more
\* counters or lowballs than some firmness allows, however it changes between offers.
TypeOK ==
    /\ price \in Prices /\ pricing \in Prices \cup {0}
    /\ floor \in Nat /\ floorBy \in {"none", "default", "seller"}
    /\ (floor = 0) <=> (floorBy = "none")
    /\ state \in {"open", "reserved_provisional", "bidding", "sold"}
    /\ bidding \in BOOLEAN
    /\ front \in {NoFront} \cup [to : Buyer, amount : Nat, kind : {"fcfs", "bid"}]
    /\ buyers \in [Buyer -> BuyerRow]
    /\ \A b \in Buyer :
          /\ buyers[b].rounds = 0 \/ \E k \in Knobs : buyers[b].rounds <= k.counters
          /\ buyers[b].lowballs = 0 \/ \E k \in Knobs : buyers[b].lowballs < k.cap
    /\ answer.to \in Buyer \cup {Nobody} /\ answer.price \in Int

\* The decisions that name a price the item may be had at; the bar of a bid_outbid is
\* only one to clear.
Priced == {"accept_fcfs", "counter", "hold_firm", "disengage", "bid_lead"}

\* The engine "refuses to emit a price under the floor": whatever it decides, at list
\* and in bidding too, where no backstop stands, over any price cut in between.
DecidedAboveFloor ==
    [][answer'.decision \in Priced => answer'.price >= floor']_vars

\* The floor stays private: a buyer below it is never named it, but as the list price
\* or where they had been named no more before it was raised.
FloorNeverNamed ==
    [][answer'.decision \in {"counter", "hold_firm", "disengage"}
       /\ answer'.price = floor /\ buyers'[answer'.to].last < floor
          => floor = price \/ buyers[answer'.to].counter \in 1..floor]_vars

\* An offer below list is never accepted under, or at, another buyer's offer that
\* still stands: the one guarantee the engine makes to the seller across buyers.
NeverUnderRival ==
    [][answer'.decision = "accept_fcfs" /\ answer'.price < price
          => \A c \in Buyer \ {answer'.to} :
                Stands(buyers[c]) => buyers[c].highest < answer'.price]_vars

\* Nobody holds the item above its list price but a buyer the seller confirmed,
\* whoever bid, left, came back or was released since.  Read at one list price.
ApprovedAboveList ==
    Reserved /\ front.amount > price => buyers[front.to].status = "won"

\* An offer somebody made who does not hold the item.
Rival == answer'.to \notin {Nobody, front.to}

\* First come, first served: while no bid was ever made a rival's offer moves the hold
\* only by bidding more than it stands at.  Read at one list price.
FcfsHolds ==
    [][Reserved /\ ~bidding /\ Rival
          => \/ Reserved' /\ front' = front
             \/ answer'.decision = "bid_lead" /\ front'.amount > front.amount]_vars
=============================================================================
