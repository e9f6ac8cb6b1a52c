------------------------- MODULE NegotiationProofs -------------------------
(***************************************************************************)
(* Proofs about Negotiation, and about NextBuyer that composes it with the *)
(* seller's tap, for every number of buyers and every price, floor, offer  *)
(* and firmness.                                                           *)
(***************************************************************************)
EXTENDS NextBuyer, SequenceTheorems, WellFoundedInduction, TLAPS

\* Every amount is whole dollars, as the marketplaces' prices are.
WholeDollars == \A x \in Prices \cup Offers : Whole(x) = x

LEMMA WholeNat == ASSUME NEW x \in Nat PROVE Whole(x) \in Nat
  BY NegotiationAssumption, SMT DEF Whole

LEMMA WholeInt == ASSUME NEW x \in Int PROVE Whole(x) \in Int
  BY NegotiationAssumption, SMT DEF Whole

-----------------------------------------------------------------------------
(* The price and the floor.                                                *)

FloorInv ==
    /\ price \in Prices /\ pricing \in Prices \cup {0}
    /\ floor \in Nat /\ floor <= price

\* Every decision leaves the item as it was, but for the default floor of Decides.
LEMMA OfferItem ==
    ASSUME NEW b \in Buyer, NEW o \in Offers, NegotiateOffer(b, o)
    PROVE  UNCHANGED <<item, pricing>> \/ Decides(b, o)
  BY Zenon DEF NegotiateOffer, OfferOnSold, BidLead, BidOutbid, AcceptAtList, FcfsTaken,
     RepeatOffer, HoldForFloor, AcceptBelowList, HoldFirm, DeflectLowball, Disengage,
     Counter, Haggles

\* Whatever the order of corrections, sales and price changes, the floor never passes
\* the list price.
LEMMA FloorInvStep == FloorInv /\ [Next]_vars => FloorInv'
<1> SUFFICES ASSUME FloorInv, [Next]_vars PROVE FloorInv'
  OBVIOUS
<1> USE NegotiationAssumption DEF FloorInv
<1>1. CASE UNCHANGED <<item, pricing>>
  BY <1>1 DEF item
<1>2. ASSUME NEW b \in Buyer, NEW o \in Offers, NegotiateOffer(b, o)
      PROVE  FloorInv'
  <2>1. CASE Decides(b, o)
    BY <2>1 DEF Decides
  <2> QED
    BY <1>1, <1>2, <2>1, OfferItem
<1>3. ASSUME NEW b \in Buyer, Withdraw(b) \/ ConfirmBid(b) \/ ConfirmSold(b)
      PROVE  FloorInv'
  BY <1>1, <1>3 DEF Withdraw, ConfirmBid, ConfirmSold, item
<1>4. CASE Release
  BY <1>1, <1>4 DEF Release
<1>5. ASSUME NEW f \in Floors, NEW by \in {"default", "seller"}, SetFloor(f, by)
      PROVE  FloorInv'
  BY <1>5 DEF SetFloor
<1>6. ASSUME NEW p \in Prices, AdmitPrice(p)
      PROVE  FloorInv'
  BY <1>6 DEF AdmitPrice, item
<1>7. CASE WritePrice
  BY <1>7 DEF WritePrice, Smaller
<1>8. ASSUME NEW p \in Offers, FloorGate(p)
      PROVE  FloorInv'
  BY <1>8 DEF FloorGate
<1>9. CASE UNCHANGED vars
  BY <1>1, <1>9 DEF vars
<1> QED
  BY <1>2, <1>3, <1>4, <1>5, <1>6, <1>7, <1>8, <1>9 DEF Next

LEMMA FloorInvInit == Init => FloorInv
  BY NegotiationAssumption DEF Init, FloorInv

\* The floor never passes the list price, over every correction, default and price change.
THEOREM FloorBelowPrice == Spec => []FloorInv
  BY FloorInvInit, FloorInvStep, PTL DEF Spec

\* Every step but a decision tells no buyer anything.
LEMMA Silence ==
    ASSUME Next, answer' # NoAnswer
    PROVE  \E b \in Buyer, o \in Offers : NegotiateOffer(b, o)
  BY Zenon DEF Next, Silent, Withdraw, ConfirmBid, ConfirmSold, Release, SetFloor,
     AdmitPrice, WritePrice, FloorGate

\* The engine names no price below the floor: the backstop covers the haggling, and at
\* list and above it the floor is under the list price.
LEMMA DecidedStep ==
    ASSUME WholeDollars, FloorInv, NEW b \in Buyer, NEW o \in Offers, NegotiateOffer(b, o)
    PROVE  answer'.decision \in Priced => answer'.price >= floor'
<1> USE NegotiationAssumption DEF FloorInv, Tell, Decides, Priced
<1>1. Whole(o) = o /\ Whole(price) = price
  BY DEF WholeDollars
<1>2. CASE BidLead(b, o)
  BY <1>1, <1>2 DEF BidLead
<1>3. CASE AcceptAtList(b, o)
  BY <1>1, <1>3 DEF AcceptAtList, Accept
<1>4. ASSUME NEW k \in Knobs, AcceptBelowList(b, o, k)
      PROVE  answer'.price >= floor'
  BY <1>4 DEF AcceptBelowList, Haggles, Accept, Emits
<1>5. ASSUME NEW k \in Knobs, HoldFirm(b, o, k)
      PROVE  answer'.price >= floor'
  BY <1>5 DEF HoldFirm, Haggles, Emits
<1>6. ASSUME NEW k \in Knobs, Disengage(b, o, k)
      PROVE  answer'.price >= floor'
  BY <1>6 DEF Disengage, Haggles, Emits
<1>7. ASSUME NEW k \in Knobs, Counter(b, o, k)
      PROVE  answer'.price >= floor'
  BY <1>7 DEF Counter, Haggles, Emits
<1>8. ASSUME NEW k \in Knobs, DeflectLowball(b, o, k)
      PROVE  answer'.decision \notin Priced
  BY <1>8 DEF DeflectLowball
<1>9. CASE OfferOnSold(b, o) \/ BidOutbid(b, o) \/ FcfsTaken(b, o)
           \/ RepeatOffer(b, o) \/ HoldForFloor(b, o)
  <2>1. PICK d \in {"sold", "bid_outbid", "fcfs_taken", "repeat_offer", "needs_floor"} :
           \E named : Tell(b, d, named)
    BY <1>9, Zenon DEF OfferOnSold, BidOutbid, FcfsTaken, RepeatOffer, HoldForFloor
  <2> QED
    BY <2>1
<1> QED
  BY <1>2, <1>3, <1>4, <1>5, <1>6, <1>7, <1>8, <1>9 DEF NegotiateOffer

\* In whole dollars, no decision names a price the item may be had at below the floor,
\* over every correction of the floor and every price change around a deal.
THEOREM DecidedAbove == ASSUME WholeDollars PROVE Spec => DecidedAboveFloor
<1>1. FloorInv /\ [Next]_vars
        => [answer'.decision \in Priced => answer'.price >= floor']_vars
  <2> SUFFICES ASSUME FloorInv, Next, answer'.decision \in Priced
               PROVE  answer'.price >= floor'
    BY DEF vars
  <2>1. answer' # NoAnswer
    BY DEF NoAnswer, Priced
  <2> QED
    BY <2>1, Silence, DecidedStep
<1> QED
  BY <1>1, FloorInvInit, FloorInvStep, PTL DEF Spec, DecidedAboveFloor

-----------------------------------------------------------------------------
(* Types.  A buyer's row is sound when it is typed and within its bounds.  *)

Sound(r) ==
    /\ r \in BuyerRow
    /\ r.rounds = 0 \/ \E k \in Knobs : r.rounds <= k.counters
    /\ r.lowballs = 0 \/ \E k \in Knobs : r.lowballs < k.cap

Rows(bs) == bs = [b \in Buyer |-> bs[b]] /\ \A b \in Buyer : Sound(bs[b])

ItemTyped ==
    /\ price \in Prices /\ pricing \in Prices \cup {0}
    /\ floor \in Nat /\ floorBy \in {"none", "default", "seller"}
    /\ (floor = 0) <=> (floorBy = "none")

HoldTyped ==
    /\ state \in {"open", "reserved_provisional", "bidding", "sold"}
    /\ bidding \in BOOLEAN
    /\ front \in {NoFront} \cup [to : Buyer, amount : Nat, kind : {"fcfs", "bid"}]

AnswerTyped == answer.to \in Buyer \cup {Nobody} /\ answer.price \in Int

Typed == ItemTyped /\ HoldTyped /\ Rows(buyers) /\ AnswerTyped

LEMMA TypedIsTypeOK == Typed <=> TypeOK
  BY DEF Typed, TypeOK, ItemTyped, HoldTyped, Rows, AnswerTyped, Sound

\* Recording an offer keeps a row sound, and its counters and lowballs.
LEMMA OfferSound ==
    ASSUME NEW r, Sound(r), NEW o \in Offers, NEW held \in BOOLEAN
    PROVE  LET q == RecordOffer(Readmitted(r, o), o, held)
           IN  Sound(q) /\ q.rounds = r.rounds /\ q.lowballs = r.lowballs
<1> DEFINE m == Readmitted(r, o)
<1> DEFINE q == RecordOffer(m, o, held)
<1>1. o \in Nat /\ Whole(o) \in Nat
  BY NegotiationAssumption, WholeNat
<1>2. m \in BuyerRow /\ m.rounds = r.rounds /\ m.lowballs = r.lowballs
  BY <1>1 DEF Readmitted, Sound, BuyerRow, Statuses, NotStanding
<1> HIDE DEF m
<1>3. q \in BuyerRow /\ q.rounds = m.rounds /\ q.lowballs = m.lowballs
  BY <1>1, <1>2 DEF RecordOffer, BuyerRow, Larger
<1> HIDE DEF q
<1>4. Sound(q) /\ q.rounds = r.rounds /\ q.lowballs = r.lowballs
  BY <1>2, <1>3 DEF Sound
<1> QED
  BY <1>4 DEF q, m

LEMMA HeardSound ==
    ASSUME NEW b \in Buyer, NEW o \in Offers, Rows(buyers)
    PROVE  /\ Sound(Heard(b, o))
           /\ Heard(b, o).rounds = buyers[b].rounds
           /\ Heard(b, o).lowballs = buyers[b].lowballs
<1>1. Sound(buyers[b])
  BY DEF Rows
<1> QED
  BY <1>1, OfferSound DEF Heard

LEMMA SaveSound ==
    ASSUME NEW b \in Buyer, NEW r, Sound(r), Rows(buyers), Save(b, r)
    PROVE  Rows(buyers')
  BY DEF Save, Rows

LEMMA OtherBestInt == ASSUME NEW b \in Buyer, Rows(buyers) PROVE OtherBest(b) \in Int
<1> DEFINE best == BestStanding(buyers, Buyer \ {b})
           lead == CHOOSE c \in best : TRUE
<1>1. \A c \in Buyer : buyers[c].highest \in Nat
  BY DEF Rows, Sound, BuyerRow
<1>2. best # {} => lead \in Buyer
  <2>1. best \subseteq Buyer
    BY DEF BestStanding
  <2> QED
    BY <2>1
<1>3. OtherBest(b) = IF best = {} THEN 0 ELSE buyers[lead].highest
  BY DEF OtherBest
<1> HIDE DEF best, lead
<1> QED
  BY <1>1, <1>2, <1>3

\* What the seller takes, and what the engine counters with, are amounts; what is taken
\* is never below the floor.
LEMMA MinInt ==
    ASSUME NEW b \in Buyer, ItemTyped, Rows(buyers)
    PROVE  EffectiveMin(b) \in Int /\ EffectiveMin(b) >= floor
  BY OtherBestInt, NegotiationAssumption DEF EffectiveMin, Larger, Smaller, ItemTyped

LEMMA CounterInt ==
    ASSUME NEW r, Sound(r), ItemTyped, NEW o \in Offers, NEW k \in Knobs, NEW min \in Int
    PROVE  NextCounter(r, o, k, min) \in Int
<1>1. Shown(r) \in Int /\ price \in Int /\ r.rounds \in Nat /\ k.step \in Nat
  BY NegotiationAssumption DEF Shown, Sound, BuyerRow, ItemTyped
<1>2. k.step * (r.rounds + 1) \in Int
  BY <1>1
<1>3. Walked(r, k, min) \in Int
  BY <1>1, <1>2 DEF Walked, Larger, Smaller
<1> QED
  BY <1>1, <1>3 DEF NextCounter, Smaller, ItemTyped

\* A counter more, while some are left, keeps a row within its bounds.
LEMMA CounterSound ==
    ASSUME NEW r, Sound(r), NEW k \in Knobs, ~Spent(r, k), NEW named \in Int
    PROVE  Sound([r EXCEPT !.rounds = @ + 1, !.counter = named])
<1> DEFINE p == [r EXCEPT !.rounds = @ + 1]
           q == [p EXCEPT !.counter = named]
<1>a. p \in BuyerRow /\ p.rounds = r.rounds + 1 /\ p.lowballs = r.lowballs
  BY DEF Sound, BuyerRow
<1>b. [r EXCEPT !.rounds = @ + 1, !.counter = named] = q
  BY Zenon
<1> HIDE DEF p
<1>1. q \in BuyerRow /\ q.rounds = r.rounds + 1 /\ q.lowballs = r.lowballs
  BY <1>a DEF BuyerRow
<1>2. q.rounds <= k.counters
  BY <1>1, NegotiationAssumption DEF Spent, Sound, BuyerRow
<1> HIDE DEF q
<1>3. Sound(q)
  BY <1>1, <1>2 DEF Sound
<1> QED
  BY <1>3, <1>b DEF q

LEMMA DecidesTyped == ASSUME ItemTyped, NEW b, NEW o, Decides(b, o) PROVE ItemTyped'
  BY NegotiationAssumption DEF ItemTyped, Decides

LEMMA TellTyped ==
    ASSUME NEW b \in Buyer, NEW decision, NEW named \in Int, Tell(b, decision, named)
    PROVE  AnswerTyped'
  BY DEF Tell, AnswerTyped

LEMMA SilentTyped == ASSUME Silent PROVE AnswerTyped'
  BY DEF Silent, NoAnswer, AnswerTyped, Nobody

LEMMA AcceptTyped ==
    ASSUME Typed, NEW b \in Buyer, NEW o \in Offers, Accept(b, o)
    PROVE  HoldTyped' /\ Rows(buyers') /\ AnswerTyped'
<1> DEFINE r == [Heard(b, o) EXCEPT !.status = "front_runner"]
<1>1. Whole(o) \in Nat
  BY NegotiationAssumption, WholeNat
<1>2. Sound(r)
  BY HeardSound DEF Typed, Sound, BuyerRow, Statuses
<1>3. HoldTyped'
  BY <1>1 DEF Accept, Typed, HoldTyped
<1>4. Rows(buyers')
  BY <1>2, SaveSound DEF Accept, Typed
<1>5. AnswerTyped'
  BY <1>1, TellTyped DEF Accept
<1> QED
  BY <1>3, <1>4, <1>5

\* Every branch of negotiate_offer keeps the types and the bounds.
LEMMA OfferTyped ==
    ASSUME Typed, NEW b \in Buyer, NEW o \in Offers, NegotiateOffer(b, o)
    PROVE  Typed'
<1> DEFINE r == Heard(b, o)
<1>i. ItemTyped'
  <2>1. CASE UNCHANGED <<item, pricing>>
    BY <2>1 DEF Typed, ItemTyped, item
  <2> QED
    BY <2>1, OfferItem, DecidesTyped DEF Typed
<1>r. Sound(r) /\ r.rounds = buyers[b].rounds /\ r.lowballs = buyers[b].lowballs
  BY HeardSound DEF Typed
<1>o. o \in Nat /\ Whole(o) \in Nat
  BY NegotiationAssumption, WholeNat
<1>m. EffectiveMin(b) \in Int
  BY MinInt DEF Typed
<1>s. Shown(r) \in Int
  BY <1>r, NegotiationAssumption DEF Shown, Sound, BuyerRow, Typed, ItemTyped
<1>u. ASSUME UNCHANGED holding, Rows(buyers'), AnswerTyped'
      PROVE  Typed'
  BY <1>i, <1>u DEF Typed, HoldTyped, holding
<1>k. ASSUME UNCHANGED <<state, bidding, front>>, Rows(buyers'), AnswerTyped'
      PROVE  Typed'
  BY <1>u, <1>k DEF holding
<1>1. CASE OfferOnSold(b, o)
  BY <1>1, <1>k, <1>r, SaveSound, TellTyped DEF OfferOnSold, Typed
<1>2. CASE BidLead(b, o)
  <2>1. Sound([r EXCEPT !.status = "leading_bid"])
    BY <1>r DEF Sound, BuyerRow, Statuses
  <2>2. HoldTyped'
    BY <1>2, <1>o DEF BidLead, HoldTyped
  <2>3. Rows(buyers')
    BY <1>2, <2>1, SaveSound DEF BidLead, Typed
  <2>4. AnswerTyped'
    BY <1>2, <1>o, TellTyped DEF BidLead
  <2> QED
    BY <1>i, <2>2, <2>3, <2>4 DEF Typed
<1>3. CASE BidOutbid(b, o)
  <2>1. Bar \in Nat
    BY NegotiationAssumption DEF Bar, NoFront, Typed, ItemTyped, HoldTyped
  <2>2. HoldTyped'
    BY <1>3 DEF BidOutbid, Typed, HoldTyped
  <2>3. Rows(buyers')
    BY <1>3, <1>r, SaveSound DEF BidOutbid, Typed
  <2>4. AnswerTyped'
    BY <1>3, <2>1, WholeNat, TellTyped DEF BidOutbid
  <2> QED
    BY <1>i, <2>2, <2>3, <2>4 DEF Typed
<1>4. CASE AcceptAtList(b, o)
  BY <1>4, <1>i, AcceptTyped DEF AcceptAtList, Typed
<1>5. CASE FcfsTaken(b, o)
  BY <1>5, <1>k, <1>r, SaveSound, TellTyped DEF FcfsTaken, Typed
<1>6. CASE RepeatOffer(b, o)
  <2>1. buyers[b].counter \in Int
    BY DEF Typed, Rows, Sound, BuyerRow
  <2>2. AnswerTyped'
    BY <1>6, <2>1, TellTyped DEF RepeatOffer
  <2> QED
    BY <1>6, <1>u, <2>2 DEF RepeatOffer, ledger, Typed
<1>7. CASE HoldForFloor(b, o)
  <2>1. PICK d \in {"sold", "needs_floor"} : Tell(b, d, 0)
    BY <1>7, Zenon DEF HoldForFloor
  <2>a. AnswerTyped'
    BY <2>1, TellTyped
  <2>2. CASE state = "sold"
    BY <1>7, <1>u, <2>a, <2>2 DEF HoldForFloor, Typed
  <2>3. CASE state # "sold"
    <3>1. Sound(RecordOffer(Readmitted(buyers[b], o), o, TRUE))
      BY OfferSound DEF Typed, Rows
    <3> QED
      BY <1>7, <1>u, <2>a, <2>3, <3>1, SaveSound DEF HoldForFloor, Typed
  <2> QED
    BY <2>2, <2>3
<1>8. ASSUME NEW k \in Knobs, AcceptBelowList(b, o, k)
      PROVE  Typed'
  BY <1>8, <1>i, AcceptTyped DEF AcceptBelowList, Typed
<1>9. ASSUME NEW k \in Knobs, HoldFirm(b, o, k)
      PROVE  Typed'
  <2>1. Whole(Larger(Shown(r), EffectiveMin(b))) \in Int
    BY <1>m, <1>s, WholeInt DEF Larger
  <2>2. Save(b, r) /\ AnswerTyped' /\ UNCHANGED <<state, bidding, front>>
    BY <1>9, <2>1, TellTyped DEF HoldFirm
  <2> QED
    BY <1>k, <1>r, <2>2, SaveSound DEF Typed
<1>10. ASSUME NEW k \in Knobs, DeflectLowball(b, o, k)
       PROVE  Typed'
  <2>1. Sound([r EXCEPT !.lowballs = @ + 1])
    BY <1>10, <1>r, NegotiationAssumption DEF DeflectLowball, Sound, BuyerRow
  <2>2. /\ Save(b, [r EXCEPT !.lowballs = @ + 1])
        /\ Tell(b, "deflect_lowball", 0) /\ UNCHANGED <<state, bidding, front>>
    BY <1>10 DEF DeflectLowball
  <2> QED
    BY <1>k, <2>1, <2>2, SaveSound, TellTyped DEF Typed
<1>11. ASSUME NEW k \in Knobs, Disengage(b, o, k)
       PROVE  Typed'
  <2>1. Sound([r EXCEPT !.status = "passed"])
    BY <1>r DEF Sound, BuyerRow, Statuses, NotStanding
  <2>2. /\ Save(b, [r EXCEPT !.status = "passed"])
        /\ Tell(b, "disengage", Whole(Shown(r))) /\ UNCHANGED <<state, bidding, front>>
    BY <1>11 DEF Disengage
  <2> QED
    BY <1>k, <1>s, <2>1, <2>2, WholeInt, SaveSound, TellTyped DEF Typed
<1>12. ASSUME NEW k \in Knobs, Counter(b, o, k)
       PROVE  Typed'
  <2> DEFINE named == Whole(NextCounter(r, o, k, EffectiveMin(b)))
             q     == [r EXCEPT !.rounds = @ + 1, !.counter = named]
  <2>1. named \in Int
    BY <1>m, <1>r, CounterInt, WholeInt DEF Typed
  <2>4. Save(b, q) /\ Tell(b, "counter", named) /\ UNCHANGED <<state, bidding, front>>
    BY <1>12, Zenon DEF Counter
  <2>5. ~Spent(r, k)
    BY <1>12, Zenon DEF Counter
  <2> HIDE DEF r, named
  <2>6. Sound(q)
    BY <1>r, <2>1, <2>5, CounterSound
  <2> HIDE DEF q
  <2> QED
    BY <1>k, <2>1, <2>4, <2>6, SaveSound, TellTyped DEF Typed
<1> QED
  BY <1>1, <1>2, <1>3, <1>4, <1>5, <1>6, <1>7, <1>8, <1>9, <1>10, <1>11, <1>12
     DEF NegotiateOffer

LEMMA ReopenTyped ==
    ASSUME HoldTyped, NEW bs, Rows(bs), Reopen(bs)
    PROVE  HoldTyped' /\ Rows(buyers')
<1> DEFINE best == BestStanding(bs, Buyer)
           lead == CHOOSE b \in best : TRUE
<1>1. best \subseteq Buyer
  BY DEF BestStanding
<1>2. best # {} => lead \in Buyer
  BY <1>1
<1>3. \A b \in Buyer : bs[b].highest \in Nat
  BY DEF Rows, Sound, BuyerRow
<1>4. Reopened(bs) \in {NoFront} \cup [to : Buyer, amount : Nat, kind : {"fcfs", "bid"}]
  <2>1. Reopened(bs) = IF bidding /\ best # {} /\ bs[lead].highest > price
                       THEN [to |-> lead, amount |-> bs[lead].highest, kind |-> "bid"]
                       ELSE NoFront
    BY DEF Reopened
  <2> HIDE DEF best, lead
  <2> QED
    BY <1>2, <1>3, <2>1
<1> QED
  BY <1>4 DEF Reopen, HoldTyped

\* Setting the status of some rows keeps them sound.
LEMMA StatusSound ==
    ASSUME NEW r, Sound(r), NEW st \in Statuses
    PROVE  Sound([r EXCEPT !.status = st])
  BY DEF Sound, BuyerRow

LEMMA SellerTyped ==
    ASSUME Typed, NEW b \in Buyer, Withdraw(b) \/ ConfirmBid(b) \/ ConfirmSold(b)
    PROVE  Typed'
<1> USE DEF Typed
<1>i. ItemTyped' /\ AnswerTyped'
  <2>1. UNCHANGED <<item, pricing>> /\ Silent
    BY Zenon DEF Withdraw, ConfirmBid, ConfirmSold, item
  <2> QED
    BY <2>1, SilentTyped DEF ItemTyped, item
<1>o. ASSUME NEW bs, Rows(bs), NEW st \in Statuses
      PROVE  Rows(Others(bs, b, st))
  BY <1>o, StatusSound DEF Others, Rows
<1>s. ASSUME NEW st \in Statuses
      PROVE  Rows([buyers EXCEPT ![b].status = st])
  BY StatusSound DEF Rows
<1>1. CASE Withdraw(b)
  <2>1. Rows(Gone(b))
    BY <1>s DEF Gone, Statuses, NotStanding
  <2>2. CASE Reopen(Gone(b))
    BY <1>i, <2>1, <2>2, ReopenTyped
  <2>3. CASE buyers' = Gone(b) /\ UNCHANGED holding
    BY <1>i, <2>1, <2>3 DEF holding, HoldTyped
  <2> QED
    BY <1>1, <2>2, <2>3 DEF Withdraw
<1>2. CASE ConfirmBid(b)
  <2>1. Rows([buyers EXCEPT ![b].status = "won"])
    BY <1>s DEF Statuses
  <2>2. Rows(buyers')
    BY <1>2, <1>o, <2>1 DEF ConfirmBid, Statuses
  <2>3. HoldTyped'
    BY <1>2 DEF ConfirmBid, HoldTyped
  <2> QED
    BY <1>i, <2>2, <2>3
<1>3. CASE ConfirmSold(b)
  <2>1. Rows(buyers')
    BY <1>3, <1>o DEF ConfirmSold, Statuses, NotStanding
  <2>2. HoldTyped'
    BY <1>3 DEF ConfirmSold, HoldTyped
  <2> QED
    BY <1>i, <2>1, <2>2
<1> QED
  BY <1>1, <1>2, <1>3

LEMMA ReleaseTyped == ASSUME Typed, Release PROVE Typed'
<1> USE DEF Typed
<1>1. Rows(Unheld(buyers, Buyer))
  BY StatusSound DEF Rows, Unheld, Statuses
<1>2. HoldTyped' /\ Rows(buyers')
  BY <1>1, ReopenTyped DEF Release
<1>3. ItemTyped' /\ AnswerTyped'
  BY SilentTyped DEF Release, ItemTyped, item
<1> QED
  BY <1>2, <1>3

\* The steps that write the item leave the ledger alone.
LEMMA ItemStepTyped ==
    ASSUME Typed,
           \/ \E f \in Floors, by \in {"default", "seller"} : SetFloor(f, by)
           \/ \E p \in Prices : AdmitPrice(p)
           \/ WritePrice
           \/ \E p \in Offers : FloorGate(p)
    PROVE  Typed'
<1> USE NegotiationAssumption DEF Typed
<1>1. UNCHANGED ledger /\ Silent
  BY Zenon DEF SetFloor, AdmitPrice, WritePrice, FloorGate
<1>2. HoldTyped' /\ Rows(buyers') /\ AnswerTyped'
  BY <1>1, SilentTyped DEF ledger, holding, HoldTyped
<1>3. ItemTyped'
  <2>1. ASSUME NEW f \in Floors, NEW by \in {"default", "seller"}, SetFloor(f, by)
        PROVE  ItemTyped'
    BY <2>1 DEF SetFloor, ItemTyped
  <2>2. ASSUME NEW p \in Prices, AdmitPrice(p)
        PROVE  ItemTyped'
    BY <2>2 DEF AdmitPrice, ItemTyped, item
  <2>3. CASE WritePrice
    BY <2>3 DEF WritePrice, ItemTyped, Smaller
  <2>4. ASSUME NEW p \in Offers, FloorGate(p)
        PROVE  ItemTyped'
    BY <2>4 DEF FloorGate, ItemTyped
  <2> QED
    BY <2>1, <2>2, <2>3, <2>4
<1> QED
  BY <1>2, <1>3

LEMMA TypedInit == Init => Typed
<1> SUFFICES ASSUME Init PROVE Typed
  OBVIOUS
<1>1. ItemTyped
  BY NegotiationAssumption DEF Init, ItemTyped
<1>2. HoldTyped
  BY DEF Init, HoldTyped
<1>3. Rows(buyers)
  <2>1. Sound(Blank)
    BY DEF Sound, Blank, BuyerRow, Statuses
  <2> QED
    BY <2>1 DEF Init, Rows
<1>4. AnswerTyped
  BY DEF Init, AnswerTyped, NoAnswer, Nobody
<1> QED
  BY <1>1, <1>2, <1>3, <1>4 DEF Typed

LEMMA TypedStep == Typed /\ [Next]_vars => Typed'
<1> SUFFICES ASSUME Typed, [Next]_vars PROVE Typed'
  OBVIOUS
<1>1. CASE UNCHANGED vars
  BY <1>1 DEF vars, item, ledger, holding, Typed, ItemTyped, HoldTyped, AnswerTyped
<1> QED
  BY <1>1, OfferTyped, SellerTyped, ReleaseTyped, ItemStepTyped DEF Next

\* Every field keeps its type, and no buyer is given more counters or lowballs than some
\* firmness allows, whatever the seller turns it to between offers.
THEOREM LedgerTyped == Spec => []TypeOK
<1>1. Spec => []Typed
  BY TypedInit, TypedStep, PTL DEF Spec
<1> QED
  BY <1>1, TypedIsTypeOK, PTL

-----------------------------------------------------------------------------
(* Who holds the item, at one list price in whole dollars.                 *)

OneListPrice == \A p, q \in Prices : p = q

\* A reserved item is somebody's; while no bid was made the hold is a first-come one;
\* and a first-come hold is at list or under it.
HoldInv ==
    /\ Reserved => front # NoFront
    /\ ~bidding => front.kind # "bid"
    /\ front.kind = "fcfs" => front.amount <= price

HolderInv == Typed /\ HoldInv /\ ApprovedAboveList

LEMMA PriceStays == ASSUME OneListPrice, Typed, Typed' PROVE price' = price
  BY DEF OneListPrice, Typed, ItemTyped

\* A buyer's row keeps its status as an offer is heard, but for a return.
LEMMA HeardStatus ==
    ASSUME NEW b \in Buyer, NEW o \in Offers, NEW held \in BOOLEAN, Rows(buyers),
           buyers[b].status = "won"
    PROVE  /\ Heard(b, o).status = "won"
           /\ RecordOffer(Readmitted(buyers[b], o), o, held).status = "won"
  BY DEF Heard, Readmitted, RecordOffer, Rows, Sound, BuyerRow

\* A step that moves no hold and takes no buyer's win away.
LEMMA HoldKept ==
    ASSUME HolderInv, price' = price, UNCHANGED <<state, bidding, front>>,
           NEW b \in Buyer, NEW r, Save(b, r), buyers[b].status = "won" => r.status = "won"
    PROVE  HoldInv' /\ ApprovedAboveList'
<1> USE NegotiationAssumption DEF HolderInv
<1>1. HoldInv'
  BY DEF HoldInv, Reserved
<1>2. ASSUME Reserved', front'.amount > price'
      PROVE  buyers'[front'.to].status = "won"
  <2>1. buyers[front.to].status = "won"
    BY <1>2 DEF ApprovedAboveList, Reserved
  <2>2. front.to \in Buyer
    BY <1>2 DEF Typed, HoldTyped, ItemTyped, NoFront
  <2> QED
    BY <2>1, <2>2 DEF Save, Typed, Rows
<1> QED
  BY <1>1, <1>2 DEF ApprovedAboveList

LEMMA ReopenHold ==
    ASSUME HolderInv, NEW bs, Reopen(bs)
    PROVE  HoldInv' /\ ApprovedAboveList'
<1>1. ~Reserved'
  BY DEF Reopen, Reserved
<1>2. front'.kind # "fcfs" /\ (~bidding' => front'.kind # "bid")
  BY DEF Reopen, Reopened, NoFront
<1> QED
  BY <1>1, <1>2 DEF HoldInv, ApprovedAboveList

LEMMA AcceptHold ==
    ASSUME HolderInv, NEW b \in Buyer, NEW o \in Offers, Whole(o) <= price, Accept(b, o),
           price' = price
    PROVE  HoldInv' /\ ApprovedAboveList'
<1>1. front' = [to |-> b, amount |-> Whole(o), kind |-> "fcfs"]
  BY DEF Accept
<1>2. Whole(o) \in Nat /\ price \in Nat
  BY NegotiationAssumption, WholeNat DEF HolderInv, Typed, ItemTyped
<1> QED
  BY <1>1, <1>2 DEF HoldInv, ApprovedAboveList, NoFront

\* Every branch of negotiate_offer holds the item for a buyer at list or under it, or
\* leaves a hold as it was, or leaves the item unreserved.
LEMMA OfferHold ==
    ASSUME WholeDollars, HolderInv, NEW b \in Buyer, NEW o \in Offers, NegotiateOffer(b, o),
           price' = price
    PROVE  HoldInv' /\ ApprovedAboveList'
<1> DEFINE r == Heard(b, o)
<1>r. Sound(r) /\ Rows(buyers)
  BY HeardSound DEF HolderInv, Typed
<1>w. buyers[b].status = "won" => r.status = "won"
  BY <1>r, HeardStatus
<1>o. Whole(o) = o /\ o \in Nat /\ price \in Nat
  BY NegotiationAssumption DEF WholeDollars, HolderInv, Typed, ItemTyped
<1>1. CASE OfferOnSold(b, o) \/ FcfsTaken(b, o)
  <2>1. Save(b, r) /\ UNCHANGED <<state, bidding, front>>
    BY <1>1, Zenon DEF OfferOnSold, FcfsTaken
  <2> QED
    BY <1>w, <2>1, HoldKept
<1>2. CASE BidLead(b, o) \/ BidOutbid(b, o)
  <2>1. state' = "bidding" /\ bidding' = TRUE
    BY <1>2, Zenon DEF BidLead, BidOutbid
  <2>2. front' = front \/ front' = [to |-> b, amount |-> Whole(o), kind |-> "bid"]
    BY <1>2, Zenon DEF BidLead, BidOutbid
  <2> QED
    BY <2>1, <2>2 DEF HolderInv, HoldInv, ApprovedAboveList, Reserved
<1>3. CASE AcceptAtList(b, o)
  BY <1>3, <1>o, AcceptHold DEF AcceptAtList
<1>4. ASSUME NEW k \in Knobs, AcceptBelowList(b, o, k)
      PROVE  HoldInv' /\ ApprovedAboveList'
  BY <1>4, <1>o, AcceptHold DEF AcceptBelowList, Haggles
<1>5. CASE RepeatOffer(b, o)
  BY <1>5 DEF RepeatOffer, ledger, holding, HolderInv, HoldInv, ApprovedAboveList, Reserved
<1>6. CASE HoldForFloor(b, o)
  <2>1. UNCHANGED holding
    BY <1>6 DEF HoldForFloor
  <2>2. CASE state = "sold"
    BY <1>6, <2>1, <2>2
       DEF HoldForFloor, holding, HolderInv, HoldInv, ApprovedAboveList, Reserved
  <2>3. CASE state # "sold"
    <3>1. Save(b, RecordOffer(Readmitted(buyers[b], o), o, TRUE))
      BY <1>6, <2>3 DEF HoldForFloor
    <3>2. buyers[b].status = "won"
            => RecordOffer(Readmitted(buyers[b], o), o, TRUE).status = "won"
      BY <1>r, HeardStatus
    <3> QED
      BY <2>1, <3>1, <3>2, HoldKept DEF holding
  <2> QED
    BY <2>2, <2>3
<1>7. ASSUME NEW k \in Knobs, HoldFirm(b, o, k)
      PROVE  HoldInv' /\ ApprovedAboveList'
  BY <1>7, <1>w, HoldKept DEF HoldFirm
<1>8. ASSUME NEW k \in Knobs, DeflectLowball(b, o, k)
      PROVE  HoldInv' /\ ApprovedAboveList'
  <2>1. [r EXCEPT !.lowballs = @ + 1].status = r.status
    BY <1>r DEF Sound, BuyerRow
  <2>2. Save(b, [r EXCEPT !.lowballs = @ + 1]) /\ UNCHANGED <<state, bidding, front>>
    BY <1>8, Zenon DEF DeflectLowball
  <2> QED
    BY <1>w, <2>1, <2>2, HoldKept
<1>9. ASSUME NEW k \in Knobs, Disengage(b, o, k)
      PROVE  HoldInv' /\ ApprovedAboveList'
  <2>1. ~bidding /\ UNCHANGED <<state, bidding, front>>
    BY <1>9, Zenon DEF Disengage, Haggles
  <2>2. ~(front.amount > price)
    BY <1>o, <2>1 DEF HolderInv, Typed, HoldTyped, HoldInv, NoFront
  <2> QED
    BY <2>1, <2>2 DEF HolderInv, HoldInv, ApprovedAboveList, Reserved
<1>10. ASSUME NEW k \in Knobs, Counter(b, o, k)
       PROVE  HoldInv' /\ ApprovedAboveList'
  <2> DEFINE named == Whole(NextCounter(r, o, k, EffectiveMin(b)))
             p == [r EXCEPT !.rounds = @ + 1]
             q == [r EXCEPT !.rounds = @ + 1, !.counter = named]
  <2>1. Save(b, q) /\ UNCHANGED <<state, bidding, front>>
    BY <1>10, Zenon DEF Counter
  <2>2. q = [p EXCEPT !.counter = named]
    BY Zenon
  <2>3. p \in BuyerRow /\ p.status = r.status
    BY <1>r DEF Sound, BuyerRow
  <2> HIDE DEF p, q, named
  <2>4. q.status = r.status
    BY <2>2, <2>3 DEF BuyerRow
  <2> QED
    BY <1>w, <2>1, <2>4, HoldKept
<1> QED
  BY <1>1, <1>2, <1>3, <1>4, <1>5, <1>6, <1>7, <1>8, <1>9, <1>10 DEF NegotiateOffer

LEMMA SellerHold ==
    ASSUME HolderInv, NEW b \in Buyer, Withdraw(b) \/ ConfirmBid(b) \/ ConfirmSold(b)
    PROVE  HoldInv' /\ ApprovedAboveList'
<1> USE DEF HolderInv
<1>p. price' = price
  BY Zenon DEF Withdraw, ConfirmBid, ConfirmSold, item
<1>1. CASE Withdraw(b)
  <2>1. CASE Reopen(Gone(b))
    BY <2>1, ReopenHold
  <2>2. CASE front.to # b /\ buyers' = Gone(b) /\ UNCHANGED holding
    <3>1. \A c \in Buyer \ {b} : buyers'[c] = buyers[c]
      BY <2>2 DEF Gone, Typed, Rows
    <3>2. Reserved /\ front.amount > price => front.to \in Buyer \ {b}
      BY <2>2, NegotiationAssumption DEF Typed, HoldTyped, ItemTyped, NoFront
    <3> QED
      BY <1>p, <2>2, <3>1, <3>2 DEF holding, HoldInv, ApprovedAboveList, Reserved
  <2> QED
    BY <1>1, <2>1, <2>2 DEF Withdraw
<1>2. CASE ConfirmBid(b)
  <2>1. buyers'[b].status = "won"
    <3>1. [buyers EXCEPT ![b].status = "won"][b].status = "won"
      BY DEF Typed, Rows, Sound, BuyerRow
    <3>2. buyers'[b] = [buyers EXCEPT ![b].status = "won"][b]
      BY <1>2 DEF ConfirmBid, Others
    <3> QED
      BY <3>1, <3>2
  <2>2. UNCHANGED <<bidding, front>> /\ front.to = b
    BY <1>2 DEF ConfirmBid
  <2>3. front # NoFront
    BY <2>2, NegotiationAssumption DEF NoFront, Nobody
  <2> QED
    BY <1>p, <2>1, <2>2, <2>3 DEF HoldInv, ApprovedAboveList
<1>3. CASE ConfirmSold(b)
  <2>1. state' = "sold" /\ UNCHANGED <<bidding, front>>
    BY <1>3 DEF ConfirmSold
  <2> QED
    BY <1>p, <2>1 DEF HoldInv, ApprovedAboveList, Reserved
<1> QED
  BY <1>1, <1>2, <1>3

LEMMA HolderStep ==
    ASSUME WholeDollars, OneListPrice
    PROVE  HolderInv /\ [Next]_vars => HolderInv'
<1> SUFFICES ASSUME HolderInv, [Next]_vars PROVE HolderInv'
  OBVIOUS
<1>1. Typed'
  BY TypedStep DEF HolderInv
<1>2. price' = price
  BY <1>1, PriceStays DEF HolderInv
<1> SUFFICES HoldInv' /\ ApprovedAboveList'
  BY <1>1 DEF HolderInv
<1>3. CASE UNCHANGED ledger
  BY <1>2, <1>3 DEF ledger, holding, HolderInv, HoldInv, ApprovedAboveList, Reserved
<1>4. CASE Release
  BY <1>4, ReopenHold DEF Release
<1>5. CASE \/ \E f \in Floors, by \in {"default", "seller"} : SetFloor(f, by)
           \/ \E p \in Prices : AdmitPrice(p)
           \/ WritePrice
           \/ \E p \in Offers : FloorGate(p)
  BY <1>3, <1>5, Zenon DEF SetFloor, AdmitPrice, WritePrice, FloorGate
<1> QED
  BY <1>2, <1>3, <1>4, <1>5, OfferHold, SellerHold DEF Next, vars

LEMMA HolderInit == Init => HolderInv
<1> SUFFICES ASSUME Init PROVE HoldInv /\ ApprovedAboveList
  BY TypedInit DEF HolderInv
<1> QED
  BY DEF Init, HoldInv, ApprovedAboveList, Reserved, NoFront

\* Whoever bids, leaves, returns or is released, in whatever number, nobody holds the
\* item above its list price but a buyer the seller confirmed.
THEOREM ApprovedAlways ==
    ASSUME WholeDollars, OneListPrice PROVE Spec => []ApprovedAboveList
<1>1. HolderInv => ApprovedAboveList
  BY DEF HolderInv
<1> QED
  BY <1>1, HolderInit, HolderStep, PTL DEF Spec

\* A rival's offer on a reserved item moves the hold only by leading the bidding.
LEMMA RivalStep ==
    ASSUME WholeDollars, HolderInv, Reserved, ~bidding, Next, Rival
    PROVE  \/ Reserved' /\ front' = front
           \/ answer'.decision = "bid_lead" /\ front'.amount > front.amount
<1>1. PICK b \in Buyer, o \in Offers : NegotiateOffer(b, o)
  BY Silence DEF Rival, NoAnswer
<1>2. answer'.to = b
  <2>1. PICK d, named : Tell(b, d, named)
    BY <1>1, Zenon DEF NegotiateOffer, OfferOnSold, BidLead, BidOutbid, AcceptAtList,
       Accept, FcfsTaken, RepeatOffer, HoldForFloor, AcceptBelowList, HoldFirm,
       DeflectLowball, Disengage, Counter
  <2> QED
    BY <2>1 DEF Tell
<1>3. ~Free(b) /\ state # "sold"
  BY <1>2 DEF Rival, Free, HolderInv, HoldInv, Reserved
<1>4. CASE UNCHANGED <<state, front>>
  BY <1>4 DEF Reserved
<1>5. CASE BidLead(b, o)
  <2>1. front'.amount = o /\ o > price /\ answer'.decision = "bid_lead"
    BY <1>5 DEF BidLead, Tell, WholeDollars
  <2>2. front.amount <= price
    BY NegotiationAssumption
       DEF HolderInv, Typed, ItemTyped, HoldTyped, HoldInv, Reserved
  <2>3. o \in Nat /\ price \in Nat /\ front.amount \in Int
    BY NegotiationAssumption DEF HolderInv, Typed, ItemTyped, HoldTyped, NoFront
  <2> QED
    BY <2>1, <2>2, <2>3
<1>6. CASE BidOutbid(b, o)
  BY <1>6, NegotiationAssumption
     DEF BidOutbid, Bar, HolderInv, Typed, ItemTyped, HoldTyped
<1>7. CASE FcfsTaken(b, o) \/ RepeatOffer(b, o) \/ HoldForFloor(b, o)
  <2>1. UNCHANGED <<state, front>>
    BY <1>7, Zenon DEF FcfsTaken, RepeatOffer, HoldForFloor, ledger, holding
  <2> QED
    BY <1>4, <2>1
<1>8. ~OfferOnSold(b, o) /\ ~AcceptAtList(b, o)
  BY <1>3 DEF OfferOnSold, AcceptAtList
<1>9. \A k \in Knobs :
         /\ ~AcceptBelowList(b, o, k) /\ ~HoldFirm(b, o, k) /\ ~DeflectLowball(b, o, k)
         /\ ~Disengage(b, o, k) /\ ~Counter(b, o, k)
  BY <1>3, Zenon DEF AcceptBelowList, HoldFirm, DeflectLowball, Disengage, Counter, Haggles
<1> QED
  BY <1>1, <1>5, <1>6, <1>7, <1>8, <1>9 DEF NegotiateOffer

\* First come, first served, for any number of rivals: while nobody bids above list, an
\* offer by anyone else never moves the hold.
THEOREM FirstComeFirstServed ==
    ASSUME WholeDollars, OneListPrice PROVE Spec => FcfsHolds
<1>1. HolderInv /\ [Next]_vars
        => [Reserved /\ ~bidding /\ Rival
              => \/ Reserved' /\ front' = front
                 \/ answer'.decision = "bid_lead" /\ front'.amount > front.amount]_vars
  BY RivalStep DEF vars
<1> QED
  BY <1>1, HolderInit, HolderStep, PTL DEF Spec, FcfsHolds
-----------------------------------------------------------------------------
(* The tap on a withdrawal notice, beside every other call on the item.    *)

\* A sequence, of whatever its items are.
IsSeq(s) == s \in Seq({s[n] : n \in DOMAIN s})

LEMMA Appended ==
    ASSUME NEW s, IsSeq(s), NEW x
    PROVE  /\ IsSeq(Append(s, x)) /\ Len(Append(s, x)) = Len(s) + 1 /\ Len(s) \in Nat
           /\ DOMAIN s = 1..Len(s) /\ DOMAIN Append(s, x) = 1..Len(s) + 1
           /\ Append(s, x)[Len(s) + 1] = x
           /\ \A n \in DOMAIN s : Append(s, x)[n] = s[n]
<1> DEFINE S == {s[n] : n \in DOMAIN s} \cup {x}
           t == Append(s, x)
<1>1. s \in Seq(S) /\ x \in S
  <2>1. s \in Seq({s[n] : n \in DOMAIN s})
    BY DEF IsSeq
  <2> QED
    BY <2>1
<1> HIDE DEF S
<1>2. /\ t \in Seq(S) /\ Len(t) = Len(s) + 1 /\ Len(s) \in Nat
      /\ \A n \in 1..Len(s) : t[n] = s[n]
      /\ t[Len(s) + 1] = x /\ DOMAIN s = 1..Len(s)
  BY <1>1, AppendProperties, LenProperties
<1> HIDE DEF t
<1>3. t = [n \in 1..Len(t) |-> t[n]] /\ DOMAIN t = 1..Len(t) /\ Len(t) \in Nat
  BY <1>2, LenProperties
<1>4. t \in [1..Len(t) -> {t[n] : n \in DOMAIN t}]
  BY <1>3
<1>5. IsSeq(t)
  BY <1>3, <1>4, SeqDef DEF IsSeq
<1> QED
  BY <1>2, <1>3, <1>5 DEF t

LEMMA Rewritten ==
    ASSUME NEW s, IsSeq(s), NEW t, DOMAIN t = DOMAIN s, t = [n \in DOMAIN t |-> t[n]]
    PROVE  IsSeq(t) /\ Len(t) = Len(s)
<1>1. s \in Seq({s[n] : n \in DOMAIN s})
  BY DEF IsSeq
<1>2. DOMAIN s = 1..Len(s) /\ Len(s) \in Nat
  BY <1>1, LenProperties
<1>d. DOMAIN t = 1..Len(s)
  BY <1>2
<1>e. t = [n \in 1..Len(s) |-> t[n]]
  BY <1>d
<1>3. t \in [1..Len(s) -> {t[n] : n \in DOMAIN t}]
  BY <1>d, <1>e
<1>4. IsSeq(t)
  <2> DEFINE S == {t[n] : n \in DOMAIN t}
  <2>1. t \in [1..Len(s) -> S] /\ Len(s) \in Nat
    BY <1>2, <1>3
  <2> HIDE DEF S
  <2>2. t \in Seq(S)
    BY <2>1, SeqDef
  <2> QED
    BY <2>2 DEF S, IsSeq
<1>5. DOMAIN t = 1..Len(t) /\ Len(t) \in Nat
  BY <1>4, LenProperties DEF IsSeq
<1> QED
  BY <1>2, <1>4, <1>5

Notices == 1..MaxAsks
Numbers == Nat

IsAsk(x) == x = [to |-> x.to, offer |-> x.offer, sent |-> x.sent] /\ x.to \in Buyer
IsTap(x) == x = [at |-> x.at, ask |-> x.ask, amount |-> x.amount, mine |-> x.mine]

\* A call at work is about a notice there is.
TapTypes ==
    /\ IsSeq(asks) /\ Len(asks) <= MaxAsks /\ \A n \in DOMAIN asks : IsAsk(asks[n])
    /\ tap = [c \in Tapper |-> tap[c]]
    /\ \A c \in Tapper :
          IsTap(tap[c]) /\ (tap[c].at # "idle" => tap[c].ask \in DOMAIN asks)
    /\ reached \in [Notices -> Numbers] /\ deaths \in Numbers /\ raised \in Numbers
    /\ ours # 0 => ours \in DOMAIN asks

LEMMA AsksAreNotices == TapTypes => DOMAIN asks = 1..Len(asks) /\ DOMAIN asks \subseteq Notices
<1> SUFFICES ASSUME TapTypes
             PROVE  DOMAIN asks = 1..Len(asks) /\ DOMAIN asks \subseteq Notices
  OBVIOUS
<1>1. DOMAIN asks = 1..Len(asks) /\ Len(asks) \in Nat
  BY LenProperties DEF TapTypes, IsSeq
<1> QED
  BY <1>1, NextBuyerAssumption DEF TapTypes, Notices

\* What each call that is not a tap's does to what the taps go by: at most one notice
\* more, that nothing was sent for.
Asks(c) ==
    /\ asks' = Append(asks, c) /\ IsAsk(c) /\ c.sent = FALSE /\ Len(asks) < MaxAsks

LEMMA ChosenBuyer ==
    ASSUME NEW bs, BestStanding(bs, Buyer) # {}
    PROVE  (CHOOSE c \in BestStanding(bs, Buyer) : TRUE) \in Buyer
  BY DEF BestStanding

OtherCall ==
    LedgerCall \/ (\E b \in Buyer : BuyerWithdrew(b))
       \/ (\E b \in Buyer, p \in LinkPrices : CreateLink(b, p))

LEMMA OtherCalls ==
    ASSUME OtherCall
    PROVE  UNCHANGED <<tap, reached, deaths, raised>> /\ (asks' = asks \/ \E c : Asks(c))
<1>1. CASE LedgerCall
  BY <1>1 DEF LedgerCall, taps
<1>2. ASSUME NEW b \in Buyer, NEW p \in LinkPrices, CreateLink(b, p)
      PROVE  UNCHANGED <<asks, tap, reached, deaths, raised>>
  BY <1>2 DEF CreateLink
<1>3. ASSUME NEW b \in Buyer, BuyerWithdrew(b), asks' # asks
      PROVE  \E c : Asks(c)
  <2> DEFINE next == BestStanding(Gone(b), Buyer)
             c == CHOOSE c \in next : TRUE
             row == [to |-> c, offer |-> buyers[c].highest, sent |-> FALSE]
  <2>1. next # {} /\ Len(asks) < MaxAsks /\ asks' = Append(asks, row)
    BY <1>3, Zenon DEF BuyerWithdrew
  <2>2. c \in Buyer
    BY <2>1, ChosenBuyer
  <2> HIDE DEF c
  <2>3. IsAsk(row) /\ row.sent = FALSE
    BY <2>2 DEF IsAsk
  <2> QED
    BY <2>1, <2>3 DEF Asks
<1>4. ASSUME NEW b \in Buyer, BuyerWithdrew(b)
      PROVE  UNCHANGED <<tap, reached, deaths, raised>>
  BY <1>4 DEF BuyerWithdrew
<1> QED
  BY <1>1, <1>2, <1>3, <1>4 DEF OtherCall
LEMMA OtherTypes == TapTypes /\ OtherCall /\ KeepOurs => TapTypes'
<1> SUFFICES ASSUME TapTypes, OtherCall, KeepOurs PROVE TapTypes'
  OBVIOUS
<1>1. UNCHANGED <<tap, reached, deaths, raised>> /\ (ours' = ours \/ ours' = 0)
  BY OtherCalls DEF KeepOurs
<1>2. CASE asks' = asks
  BY <1>1, <1>2 DEF TapTypes
<1>3. ASSUME NEW c, Asks(c)
      PROVE  TapTypes'
  <2>1. /\ IsSeq(asks') /\ Len(asks') <= MaxAsks /\ DOMAIN asks \subseteq DOMAIN asks'
        /\ \A n \in DOMAIN asks' : IsAsk(asks'[n])
    BY <1>3, Appended, NextBuyerAssumption DEF TapTypes, Asks
  <2> QED
    BY <1>1, <2>1 DEF TapTypes
<1> QED
  BY <1>2, <1>3, OtherCalls

\* A step of a tap changes that tap's row alone.
LEMMA OneRow ==
    ASSUME TapTypes, NEW c \in Tapper, NEW row, IsTap(row), tap' = [tap EXCEPT ![c] = row]
    PROVE  /\ tap' = [d \in Tapper |-> tap'[d]] /\ tap'[c] = row
           /\ \A d \in Tapper \ {c} : tap'[d] = tap[d]
           /\ \A d \in Tapper : IsTap(tap'[d])
<1>1. tap = [d \in Tapper |-> tap[d]] /\ \A d \in Tapper : IsTap(tap[d])
  BY DEF TapTypes
<1> QED
  BY <1>1

LEMMA RowOf ==
    ASSUME TapTypes, NEW c \in Tapper, NEW at
    PROVE  /\ IsTap([tap[c] EXCEPT !.at = at]) /\ [tap[c] EXCEPT !.at = at].at = at
           /\ [tap[c] EXCEPT !.at = at].ask = tap[c].ask
           /\ [tap[c] EXCEPT !.at = at].mine = tap[c].mine
           /\ IsTap(Idle) /\ Idle.at = "idle"
  BY DEF TapTypes, IsTap, Idle

\* What the steps of a tap do to what the taps go by.
LEMMA TapMoves ==
    ASSUME TapTypes, NEW c \in Tapper, TapStep(c)
    PROVE  \/ \E n \in DOMAIN asks :
                 /\ TapReserve(c, n) /\ tap[c].at = "idle" /\ ~asks[n].sent
                 /\ tap'[c].at = "held" /\ tap'[c].ask = n /\ UNCHANGED <<asks, reached>>
           \/ /\ tap[c].at \in {"held", "minted"} /\ tap'[c].at \in {"minted", "failed"}
              /\ tap'[c].ask = tap[c].ask /\ tap'[c].mine = tap[c].mine
              /\ UNCHANGED <<asks, reached, ours, deaths, raised, holding>>
           \/ /\ TapSend(c) /\ tap[c].at = "minted" /\ tap'[c].at = "sent"
              /\ tap'[c].ask = tap[c].ask
           \/ /\ TapSendRaises(c) /\ tap[c].at = "minted" /\ tap'[c].at = "failed"
              /\ tap'[c].ask = tap[c].ask /\ tap'[c].mine = tap[c].mine
           \/ MarkSent(c) /\ tap[c].at = "sent" /\ tap'[c].at = "idle"
           \/ LetGo(c) /\ tap[c].at = "failed" /\ tap'[c].at = "idle"
           \/ TapDies(c) /\ tap[c].at # "idle" /\ tap'[c].at = "idle"
<1>a. ASSUME NEW at, Step(c, at)
      PROVE  tap'[c].at = at /\ tap'[c].ask = tap[c].ask /\ tap'[c].mine = tap[c].mine
  <2> DEFINE row == [tap[c] EXCEPT !.at = at]
  <2>1. /\ IsTap(row) /\ row.at = at /\ row.ask = tap[c].ask /\ row.mine = tap[c].mine
        /\ tap' = [tap EXCEPT ![c] = row]
    BY <1>a, RowOf DEF Step
  <2> HIDE DEF row
  <2> QED
    BY <2>1, OneRow
<1>b. ASSUME tap' = [tap EXCEPT ![c] = Idle]
      PROVE  tap'[c].at = "idle"
  BY <1>b, RowOf, OneRow
<1>1. ASSUME NEW n \in DOMAIN asks, TapReserve(c, n)
      PROVE  /\ tap[c].at = "idle" /\ ~asks[n].sent
             /\ tap'[c].at = "held" /\ tap'[c].ask = n /\ UNCHANGED <<asks, reached>>
  BY <1>1 DEF TapReserve, TapTypes
<1>2. CASE TapMint(c) \/ TapMintFails(c) \/ TapSendFails(c)
  BY <1>a, <1>2 DEF TapMint, TapMintFails, TapSendFails, ledger
<1>3. CASE TapSend(c)
  BY <1>a, <1>3 DEF TapSend
<1>7. CASE TapSendRaises(c)
  BY <1>a, <1>7 DEF TapSendRaises
<1>4. CASE MarkSent(c)
  BY <1>b, <1>4 DEF MarkSent
<1>5. CASE LetGo(c)
  BY <1>b, <1>5 DEF LetGo
<1>6. CASE TapDies(c)
  BY <1>b, <1>6 DEF TapDies
<1> QED
  BY <1>1, <1>2, <1>3, <1>4, <1>5, <1>6, <1>7 DEF TapStep

LEMMA MarkedAsk ==
    ASSUME NEW a, IsAsk(a), NEW v
    PROVE  IsAsk([a EXCEPT !.sent = v]) /\ [a EXCEPT !.sent = v].sent = v
  BY DEF IsAsk

\* A step of a tap: the row of its call, a notice marked sent, a link more.
LEMMA TapStepTypes ==
    ASSUME TapTypes, NEW c \in Tapper, TapStep(c)
    PROVE  TapTypes' /\ \A d \in Tapper \ {c} : tap'[d] = tap[d]
<1>0. /\ IsSeq(asks) /\ Len(asks) <= MaxAsks /\ DOMAIN asks \subseteq Notices
      /\ \A n \in DOMAIN asks : IsAsk(asks[n])
  BY AsksAreNotices DEF TapTypes
<1>r. PICK row : /\ tap' = [tap EXCEPT ![c] = row] /\ IsTap(row)
                 /\ row.at # "idle" => row.ask \in DOMAIN asks
  <2>1. ASSUME NEW at, Step(c, at), tap[c].at # "idle"
        PROVE  \E row : /\ tap' = [tap EXCEPT ![c] = row] /\ IsTap(row)
                        /\ row.at # "idle" => row.ask \in DOMAIN asks
    <3> DEFINE q == [tap[c] EXCEPT !.at = at]
    <3>1. IsTap(q) /\ q.ask = tap[c].ask /\ tap' = [tap EXCEPT ![c] = q]
      BY <2>1, RowOf DEF Step
    <3>2. tap[c].ask \in DOMAIN asks
      BY <2>1 DEF TapTypes
    <3> HIDE DEF q
    <3> QED
      BY <3>1, <3>2
  <2>2. CASE \/ TapMint(c) \/ TapMintFails(c)
             \/ TapSend(c) \/ TapSendFails(c) \/ TapSendRaises(c)
    <3>1. tap[c].at # "idle" /\ \E at : Step(c, at)
      BY <2>2 DEF TapMint, TapMintFails, TapSend, TapSendFails, TapSendRaises
    <3> QED
      BY <2>1, <3>1
  <2>3. ASSUME tap' = [tap EXCEPT ![c] = Idle]
        PROVE  \E row : /\ tap' = [tap EXCEPT ![c] = row] /\ IsTap(row)
                        /\ row.at # "idle" => row.ask \in DOMAIN asks
    <3>1. IsTap(Idle) /\ Idle.at = "idle"
      BY DEF IsTap, Idle
    <3> QED
      BY <2>3, <3>1
  <2>4. CASE MarkSent(c) \/ LetGo(c) \/ TapDies(c)
    BY <2>3, <2>4 DEF MarkSent, LetGo, TapDies
  <2>5. ASSUME NEW n \in DOMAIN asks, TapReserve(c, n)
        PROVE  \E row : /\ tap' = [tap EXCEPT ![c] = row] /\ IsTap(row)
                        /\ row.at # "idle" => row.ask \in DOMAIN asks
    <3>1. PICK amount, mine :
             tap' = [tap EXCEPT ![c] = [at |-> "held", ask |-> n, amount |-> amount,
                                        mine |-> mine]]
      BY <2>5, Zenon DEF TapReserve
    <3> DEFINE q == [at |-> "held", ask |-> n, amount |-> amount, mine |-> mine]
    <3>2. IsTap(q) /\ q.ask = n
      BY DEF IsTap
    <3>3. tap' = [tap EXCEPT ![c] = q]
      BY <3>1
    <3> HIDE DEF q
    <3> QED
      BY <3>2, <3>3
  <2> QED
    BY <2>2, <2>4, <2>5 DEF TapStep
<1>t. /\ tap' = [d \in Tapper |-> tap'[d]] /\ tap'[c] = row
      /\ \A d \in Tapper \ {c} : tap'[d] = tap[d]
      /\ \A d \in Tapper : /\ IsTap(tap'[d])
                           /\ tap'[d].at # "idle" => tap'[d].ask \in DOMAIN asks
  BY <1>r, OneRow DEF TapTypes
<1>a. /\ IsSeq(asks') /\ Len(asks') <= MaxAsks /\ DOMAIN asks' = DOMAIN asks
      /\ \A n \in DOMAIN asks' : IsAsk(asks'[n])
  <2>1. CASE asks' = asks
    BY <1>0, <2>1
  <2>2. CASE MarkSent(c)
    <3> DEFINE n == tap[c].ask
               ask == [asks[n] EXCEPT !.sent = TRUE]
    <3>1. n \in DOMAIN asks /\ asks' = [asks EXCEPT ![n] = ask]
      BY <2>2 DEF MarkSent, TapTypes
    <3>2. IsAsk(ask)
      BY <1>0, <3>1, MarkedAsk
    <3> HIDE DEF n, ask
    <3>3. DOMAIN asks' = DOMAIN asks /\ asks' = [k \in DOMAIN asks' |-> asks'[k]]
      BY <3>1
    <3>4. \A k \in DOMAIN asks' : IsAsk(asks'[k])
      BY <1>0, <3>1, <3>2
    <3>5. IsSeq(asks') /\ Len(asks') = Len(asks)
      BY <1>0, <3>3, Rewritten, Zenon
    <3> QED
      BY <1>0, <3>3, <3>4, <3>5
  <2>3. asks' = asks \/ MarkSent(c)
    BY Zenon DEF TapStep, TapReserve, TapMint, TapMintFails, TapSend, TapSendFails, TapSendRaises,
       LetGo, TapDies
  <2> QED
    BY <2>1, <2>2, <2>3
<1>n. reached' \in [Notices -> Numbers] /\ deaths' \in Numbers /\ raised' \in Numbers
  <2>0. /\ reached \in [Notices -> Numbers] /\ deaths \in Numbers /\ raised \in Numbers
        /\ \A k \in Numbers : k + 1 \in Numbers
    BY DEF TapTypes, Numbers
  <2>1. CASE UNCHANGED <<reached, deaths, raised>>
    BY <2>0, <2>1
  <2>2. CASE TapSend(c)
    BY <2>0, <2>2 DEF TapSend
  <2>3. CASE TapDies(c)
    BY <2>0, <2>3 DEF TapDies
  <2>4. CASE TapSendRaises(c)
    BY <2>0, <2>4 DEF TapSendRaises
  <2> QED
    BY <2>1, <2>2, <2>3, <2>4, Zenon
       DEF TapStep, TapReserve, TapMint, TapMintFails, TapSendFails, MarkSent, LetGo
<1>o. ours' # 0 => ours' \in DOMAIN asks
  <2>1. ours' \in {0, ours} \cup DOMAIN asks
    BY DEF TapStep, TapReserve, TapMint, TapMintFails, TapSend, TapSendFails, TapSendRaises,
       MarkSent, LetGo, TapDies, KeepOurs
  <2> QED
    BY <2>1 DEF TapTypes
<1> QED
  BY <1>t, <1>a, <1>n, <1>o DEF TapTypes

LEMMA TapTypesInit == NextBuyerInit => TapTypes
<1> SUFFICES ASSUME NextBuyerInit PROVE TapTypes
  OBVIOUS
<1>1. IsSeq(asks) /\ Len(asks) <= MaxAsks /\ DOMAIN asks = {}
  <2>1. asks = <<>>
    BY DEF NextBuyerInit
  <2>2. <<>> \in Seq({<<>>[n] : n \in DOMAIN <<>>}) /\ Len(<<>>) = 0 /\ DOMAIN <<>> = {}
    BY EmptySeq
  <2> QED
    BY <2>1, <2>2, NextBuyerAssumption DEF IsSeq
<1>2. tap = [c \in Tapper |-> tap[c]] /\ \A c \in Tapper : IsTap(tap[c]) /\ tap[c].at = "idle"
  BY DEF NextBuyerInit, Idle, IsTap
<1>3. /\ reached \in [Notices -> Numbers] /\ deaths \in Numbers /\ raised \in Numbers
      /\ ours = 0
  BY DEF NextBuyerInit, Notices, Numbers
<1> QED
  BY <1>1, <1>2, <1>3 DEF TapTypes

LEMMA TapTypesStep == TapTypes /\ [NextBuyerNext]_allVars => TapTypes'
<1> SUFFICES ASSUME TapTypes, [NextBuyerNext]_allVars PROVE TapTypes'
  OBVIOUS
<1>1. CASE UNCHANGED allVars
  BY <1>1 DEF allVars, taps, TapTypes
<1>2. NextBuyerNext => (OtherCall /\ KeepOurs) \/ \E c \in Tapper : TapStep(c)
  BY DEF NextBuyerNext, OtherCall
<1> QED
  BY <1>1, <1>2, OtherTypes, TapStepTypes

-----------------------------------------------------------------------------
(* A hold is never left to nobody's link.                                  *)

\* The hold a tap made stands for the buyer its notice named, and while no tap was
\* killed that tap is still at work on it or its link has gone out.
OursHeld == ours # 0 => Reserved /\ front.to = asks[ours].to

Owned ==
    deaths = 0 /\ ours # 0
      => \/ reached[ours] > 0
         \/ \E c \in Tapper : /\ tap[c].at \in {"held", "minted", "failed"}
                              /\ tap[c].ask = ours /\ tap[c].mine

HoldOwned == TapTypes /\ OursHeld /\ Owned

LEMMA OtherOwned == HoldOwned /\ OtherCall /\ KeepOurs => HoldOwned'
<1> SUFFICES ASSUME HoldOwned, OtherCall, KeepOurs PROVE HoldOwned'
  OBVIOUS
<1> USE DEF HoldOwned
<1>1. TapTypes' /\ UNCHANGED <<tap, reached, deaths, raised>>
  BY OtherTypes, OtherCalls
<1>2. CASE ours' = 0
  BY <1>1, <1>2 DEF OursHeld, Owned
<1>3. CASE ours' # 0
  <2>1. ours' = ours /\ front' = front /\ state' = "reserved_provisional"
    BY <1>3 DEF KeepOurs
  <2>2. asks'[ours] = asks[ours]
    <3>1. ours \in DOMAIN asks /\ IsSeq(asks)
      BY <1>3, <2>1 DEF TapTypes
    <3>2. ASSUME NEW c, Asks(c) PROVE asks'[ours] = asks[ours]
      BY <3>1, <3>2, Appended DEF Asks
    <3> QED
      BY <3>2, OtherCalls
  <2>3. OursHeld'
    BY <1>3, <2>1, <2>2 DEF OursHeld, Reserved
  <2> QED
    BY <1>1, <2>1, <2>3 DEF Owned
<1> QED
  BY <1>2, <1>3

LEMMA TapOwned == HoldOwned /\ (\E c \in Tapper : TapStep(c)) => HoldOwned'
<1> SUFFICES ASSUME HoldOwned, NEW c \in Tapper, TapStep(c) PROVE HoldOwned'
  OBVIOUS
<1> USE DEF HoldOwned
<1>0. TapTypes' /\ \A d \in Tapper \ {c} : tap'[d] = tap[d]
  BY TapStepTypes
<1>d. deaths \in Nat /\ \A n \in Notices : reached[n] \in Nat
  BY DEF TapTypes, Numbers
<1> SUFFICES OursHeld' /\ Owned'
  BY <1>0
<1>1. ASSUME NEW n \in DOMAIN asks, TapReserve(c, n), tap'[c].at = "held", tap'[c].ask = n,
             tap[c].at = "idle", UNCHANGED <<asks, reached>>
      PROVE  OursHeld' /\ Owned'
  <2>1. CASE front.to = asks[n].to /\ state = "reserved_provisional"
    <3>1. UNCHANGED <<holding, ours, deaths>>
      BY <1>1, <2>1 DEF TapReserve, ledger
    <3> QED
      BY <1>0, <1>1, <3>1 DEF OursHeld, Owned, Reserved, holding
  <2>2. CASE ~(front.to = asks[n].to /\ state = "reserved_provisional")
    <3>1. /\ Reserve(asks[n].to, buyers[asks[n].to].highest) /\ ours' = n
          /\ tap' = [tap EXCEPT ![c] = [at |-> "held", ask |-> n,
                                        amount |-> buyers[asks[n].to].highest, mine |-> TRUE]]
      BY <1>1, <2>2, Zenon DEF TapReserve
    <3>2. tap'[c].mine
      BY <3>1 DEF TapTypes
    <3> QED
      BY <1>1, <3>1, <3>2 DEF OursHeld, Owned, Reserved, Reserve
  <2> QED
    BY <2>1, <2>2
<1>2. ASSUME tap[c].at \in {"held", "minted"}, tap'[c].at \in {"minted", "failed"},
             tap'[c].ask = tap[c].ask, tap'[c].mine = tap[c].mine,
             UNCHANGED <<asks, reached, ours, deaths, raised, holding>>
      PROVE  OursHeld' /\ Owned'
  BY <1>0, <1>2 DEF OursHeld, Owned, Reserved, holding
<1>3. CASE (TapSend(c) \/ TapSendRaises(c)) /\ tap[c].at = "minted" /\ tap'[c].at # "idle"
  <2>1. /\ UNCHANGED <<asks, ours, deaths, ledger>>
        /\ reached' = [reached EXCEPT ![tap[c].ask] = @ + 1]
    BY <1>3 DEF TapSend, TapSendRaises
  <2>2. /\ reached \in [Notices -> Nat] /\ tap[c].ask \in Notices
        /\ ours # 0 => ours \in Notices
    BY <1>3, AsksAreNotices DEF TapTypes, Numbers
  <2>3. ours # 0 => /\ reached'[ours] >= reached[ours]
                    /\ (tap[c].ask = ours => reached'[ours] > 0)
    BY <2>1, <2>2
  <2>4. ours # 0 => reached[ours] \in Nat /\ reached'[ours] \in Nat
    BY <2>1, <2>2
  <2>5. Owned'
    <3> SUFFICES ASSUME deaths = 0, ours # 0, ~(reached'[ours] > 0)
                 PROVE  \E d \in Tapper : /\ tap'[d].at \in {"held", "minted", "failed"}
                                          /\ tap'[d].ask = ours /\ tap'[d].mine
      BY <2>1 DEF Owned
    <3>1. ~(reached[ours] > 0) /\ tap[c].ask # ours
      BY <2>3, <2>4
    <3>2. PICK d \in Tapper : /\ tap[d].at \in {"held", "minted", "failed"}
                              /\ tap[d].ask = ours /\ tap[d].mine
      BY <3>1 DEF Owned
    <3> QED
      BY <1>0, <3>1, <3>2
  <2> QED
    BY <2>1, <2>5 DEF OursHeld, Reserved, ledger, holding
<1>4. CASE MarkSent(c) /\ tap[c].at = "sent" /\ tap'[c].at = "idle"
  <2>1. UNCHANGED <<reached, ours, deaths, ledger>>
    BY <1>4 DEF MarkSent
  <2>2. \A n \in DOMAIN asks : asks'[n].to = asks[n].to
    <3>1. asks' = [asks EXCEPT ![tap[c].ask].sent = TRUE]
      BY <1>4 DEF MarkSent
    <3>2. \A n \in DOMAIN asks : IsAsk(asks[n])
      BY DEF TapTypes
    <3> QED
      BY <3>1, <3>2 DEF IsAsk
  <2> QED
    BY <1>0, <1>4, <2>1, <2>2 DEF OursHeld, Owned, Reserved, ledger, holding, TapTypes
<1>5. CASE LetGo(c) /\ tap[c].at = "failed"
  <2>1. KeepOurs /\ UNCHANGED <<asks, reached, deaths>>
    BY <1>5 DEF LetGo
  <2>2. CASE tap[c].mine /\ StillTheirs(c)
    <3>1. state' # "reserved_provisional"
      BY <1>5, <2>2 DEF LetGo, Reopen
    <3>2. ours' = 0
      BY <2>1, <3>1 DEF KeepOurs
    <3> QED
      BY <3>2 DEF OursHeld, Owned
  <2>3. CASE ~(tap[c].mine /\ StillTheirs(c))
    <3>1. UNCHANGED holding
      BY <1>5, <2>3 DEF LetGo, ledger
    <3>2. ours' = ours
      BY <2>1, <3>1 DEF KeepOurs, holding, OursHeld, Reserved
    <3>3. ours # 0 => ~(tap[c].ask = ours /\ tap[c].mine)
      BY <2>3 DEF StillTheirs, To, OursHeld, Reserved
    <3>4. OursHeld'
      BY <2>1, <3>1, <3>2 DEF OursHeld, Reserved, holding
    <3>5. Owned'
      BY <1>0, <2>1, <3>2, <3>3 DEF Owned
    <3> QED
      BY <3>4, <3>5
  <2> QED
    BY <2>2, <2>3
<1>6. CASE TapDies(c)
  <2>1. UNCHANGED <<ledger, asks, ours>> /\ deaths' = deaths + 1
    BY <1>6 DEF TapDies
  <2>2. deaths' # 0
    BY <1>d, <2>1
  <2> QED
    BY <2>1, <2>2 DEF OursHeld, Owned, Reserved, ledger, holding
<1> QED
  BY <1>1, <1>2, <1>3, <1>4, <1>5, <1>6, TapMoves

LEMMA HoldOwnedInit == NextBuyerInit => HoldOwned
<1> SUFFICES ASSUME NextBuyerInit PROVE OursHeld /\ Owned
  BY TapTypesInit DEF HoldOwned
<1> QED
  BY DEF NextBuyerInit, OursHeld, Owned

LEMMA HoldOwnedStep == HoldOwned /\ [NextBuyerNext]_allVars => HoldOwned'
<1> SUFFICES ASSUME HoldOwned, [NextBuyerNext]_allVars PROVE HoldOwned'
  OBVIOUS
<1>1. CASE UNCHANGED allVars
  BY <1>1, TapTypesStep
     DEF allVars, taps, vars, ledger, holding, HoldOwned, OursHeld, Owned, Reserved
<1>2. NextBuyerNext => (OtherCall /\ KeepOurs) \/ \E c \in Tapper : TapStep(c)
  BY DEF NextBuyerNext, OtherCall
<1> QED
  BY <1>1, <1>2, OtherOwned, TapOwned

\* With any number of taps at once, whatever else is called on the item between their
\* steps, a tap that fails leaves the item held for nobody: a hold a tap made stands,
\* once no tap runs and none was killed, only for a link that may have gone out.
THEOREM HeldForALink == NextBuyerSpec => []NobodysHold
<1>1. HoldOwned => NobodysHold
  BY DEF HoldOwned, OursHeld, Owned, NobodysHold, Quiet
<1> QED
  BY <1>1, HoldOwnedInit, HoldOwnedStep, PTL DEF NextBuyerSpec

-----------------------------------------------------------------------------
(* A link goes out once, and a tap takes the item from nobody.             *)

\* One call of the tap at a time, as one pass runs them.
OneTapper == \A c, d \in Tapper : c = d

Marked(n) == n \in DOMAIN asks /\ asks[n].sent

Accidents == deaths + raised

\* A notice that is not marked sent cost no more links than taps were killed and sends
\* raised with the link out, but for the one a tap has just sent; and no tap works on a
\* notice marked sent.
Counted ==
    /\ \A n \in Notices : reached[n] <= 1 + Accidents
    /\ \A n \in Notices :
          ~Marked(n) /\ (\A c \in Tapper : tap[c].at = "sent" => tap[c].ask # n)
             => reached[n] <= Accidents
    /\ \A c \in Tapper : tap[c].at # "idle" => ~Marked(tap[c].ask)

CountInv == TapTypes /\ Counted

LEMMA OtherCounted == CountInv /\ OtherCall /\ KeepOurs => CountInv'
<1> SUFFICES ASSUME CountInv, OtherCall, KeepOurs PROVE CountInv'
  OBVIOUS
<1>1. TapTypes' /\ UNCHANGED <<tap, reached, deaths, raised>>
  BY OtherTypes, OtherCalls DEF CountInv
<1>2. \A n : Marked(n)' <=> Marked(n)
  <2>1. CASE asks' = asks
    BY <2>1 DEF Marked
  <2>2. ASSUME NEW c, Asks(c), NEW n PROVE Marked(n)' <=> Marked(n)
    BY <2>2, Appended DEF Asks, Marked, CountInv, TapTypes
  <2> QED
    BY <2>1, <2>2, OtherCalls
<1>3. Counted'
  BY <1>1, <1>2 DEF CountInv, Counted, Accidents
<1> QED
  BY <1>1, <1>3 DEF CountInv

LEMMA TapCounted ==
    ASSUME OneTapper PROVE CountInv /\ (\E c \in Tapper : TapStep(c)) => CountInv'
<1> SUFFICES ASSUME CountInv, NEW c \in Tapper, TapStep(c) PROVE CountInv'
  OBVIOUS
<1> USE DEF CountInv
<1>0. TapTypes' /\ \A d \in Tapper : d = c
  BY TapStepTypes DEF OneTapper
<1>d. /\ deaths \in Nat /\ raised \in Nat /\ Accidents \in Nat
      /\ \A n \in Notices : reached[n] \in Nat
  BY DEF TapTypes, Numbers, Accidents
<1>n. DOMAIN asks \subseteq Notices /\ (tap[c].at # "idle" => tap[c].ask \in DOMAIN asks)
  BY AsksAreNotices DEF TapTypes
<1> SUFFICES Counted'
  BY <1>0
<1>1. ASSUME NEW n \in DOMAIN asks, TapReserve(c, n), ~asks[n].sent, tap'[c].at = "held",
             tap'[c].ask = n, tap[c].at = "idle", UNCHANGED <<asks, reached>>
      PROVE  Counted'
  <2>1. UNCHANGED Accidents
    BY <1>1 DEF TapReserve, Accidents
  <2> QED
    BY <1>0, <1>1, <2>1 DEF Counted, Marked
<1>2. ASSUME tap[c].at \in {"held", "minted"}, tap'[c].at \in {"minted", "failed"},
             tap'[c].ask = tap[c].ask, UNCHANGED <<asks, reached, deaths, raised>>
      PROVE  Counted'
  BY <1>0, <1>2 DEF Counted, Marked, Accidents
<1>3. CASE TapSend(c) /\ tap[c].at = "minted" /\ tap'[c].at = "sent"
           /\ tap'[c].ask = tap[c].ask
  <2> DEFINE n == tap[c].ask
  <2>1. UNCHANGED <<asks, Accidents>> /\ reached' = [reached EXCEPT ![n] = @ + 1]
    BY <1>3 DEF TapSend, Accidents
  <2>2. reached[n] <= Accidents /\ ~Marked(n) /\ n \in Notices
    BY <1>0, <1>3, <1>n DEF Counted
  <2>3. /\ reached'[n] = reached[n] + 1
        /\ \A m \in Notices \ {n} : reached'[m] = reached[m]
    BY <2>1, <2>2 DEF TapTypes
  <2>4. \A m \in Notices : reached'[m] <= 1 + Accidents'
    BY <1>d, <2>1, <2>2, <2>3 DEF Counted
  <2>5. \A m \in Notices : Marked(m)' <=> Marked(m)
    BY <2>1 DEF Marked
  <2>6. \A m \in Notices :
           ~Marked(m)' /\ (\A d \in Tapper : tap'[d].at = "sent" => tap'[d].ask # m)
             => reached'[m] <= Accidents'
    <3> SUFFICES ASSUME NEW m \in Notices, ~Marked(m)',
                        \A d \in Tapper : tap'[d].at = "sent" => tap'[d].ask # m
                 PROVE  reached'[m] <= Accidents'
      OBVIOUS
    <3>1. m # n /\ ~Marked(m)
      BY <1>3, <2>5
    <3>2. \A d \in Tapper : tap[d].at # "sent"
      BY <1>0, <1>3
    <3> QED
      BY <2>1, <2>3, <3>1, <3>2 DEF Counted
  <2>7. (\A d \in Tapper : tap[d].at # "idle" => ~Marked(tap[d].ask))'
    <3>1. ~(n \in DOMAIN asks' /\ asks'[n].sent)
      BY <2>1, <2>2 DEF Marked
    <3> QED
      BY <1>0, <1>3, <3>1 DEF Marked
  <2> QED
    BY <2>4, <2>6, <2>7 DEF Counted
<1>7. CASE TapSendRaises(c) /\ tap[c].at = "minted" /\ tap'[c].at = "failed"
           /\ tap'[c].ask = tap[c].ask
  <2> DEFINE n == tap[c].ask
  <2>1. /\ UNCHANGED <<asks, deaths>> /\ raised' = raised + 1
        /\ reached' = [reached EXCEPT ![n] = @ + 1]
    BY <1>7 DEF TapSendRaises
  <2>2. Accidents' = Accidents + 1
    BY <1>d, <2>1 DEF Accidents
  <2>3. n \in Notices /\ ~Marked(n) /\ \A m \in Notices : Marked(m)' <=> Marked(m)
    BY <1>7, <1>n, <2>1 DEF Counted, Marked
  <2>4. reached[n] <= Accidents
    BY <1>0, <1>7, <2>3 DEF Counted
  <2>5. /\ reached'[n] = reached[n] + 1
        /\ \A m \in Notices \ {n} : reached'[m] = reached[m]
    BY <2>1, <2>3 DEF TapTypes
  <2>6. \A m \in Notices : reached'[m] <= Accidents' /\ reached'[m] <= 1 + Accidents'
    BY <1>d, <2>2, <2>4, <2>5 DEF Counted
  <2>7. (\A d \in Tapper : tap[d].at # "idle" => ~Marked(tap[d].ask))'
    BY <1>0, <1>7, <2>1, <2>3 DEF Marked
  <2> QED
    BY <2>6, <2>7 DEF Counted
<1>4. CASE MarkSent(c) /\ tap[c].at = "sent" /\ tap'[c].at = "idle"
  <2>0. PICK n : n = tap[c].ask
    OBVIOUS
  <2>1. /\ UNCHANGED <<reached, Accidents>> /\ asks' = [asks EXCEPT ![n].sent = TRUE]
        /\ n \in DOMAIN asks
    BY <1>4, <1>n, <2>0 DEF MarkSent, Accidents
  <2>2. Marked(n)'
    <3> DEFINE ask == [asks[n] EXCEPT !.sent = TRUE]
    <3>1. ask.sent = TRUE /\ asks' = [asks EXCEPT ![n] = ask]
      BY <2>1, MarkedAsk DEF TapTypes
    <3> HIDE DEF ask
    <3> QED
      BY <2>1, <3>1 DEF Marked
  <2>3. \A m \in Notices \ {n} : Marked(m)' <=> Marked(m)
    BY <2>1 DEF Marked
  <2>4. \A m \in Notices : ~Marked(m)' => reached'[m] <= Accidents'
    <3> SUFFICES ASSUME NEW m \in Notices, ~Marked(m)' PROVE reached'[m] <= Accidents'
      OBVIOUS
    <3>1. m # n /\ ~Marked(m)
      BY <2>2, <2>3
    <3>2. \A d \in Tapper : tap[d].ask # m
      BY <1>0, <2>0, <3>1
    <3> QED
      BY <2>1, <3>1, <3>2 DEF Counted
  <2> QED
    BY <1>0, <1>4, <2>1, <2>4 DEF Counted
<1>5. CASE LetGo(c) /\ tap[c].at = "failed" /\ tap'[c].at = "idle"
  <2>1. UNCHANGED <<asks, reached, Accidents>>
    BY <1>5 DEF LetGo, Accidents
  <2> QED
    BY <1>0, <1>5, <2>1 DEF Counted, Marked
<1>6. CASE TapDies(c) /\ tap'[c].at = "idle"
  <2>1. UNCHANGED <<asks, reached>> /\ Accidents' = Accidents + 1
    BY <1>6, <1>d DEF TapDies, Accidents
  <2>2. \A m \in Notices : reached'[m] <= Accidents' /\ reached'[m] <= 1 + Accidents'
    BY <1>d, <2>1 DEF Counted
  <2> QED
    BY <1>0, <1>6, <2>2 DEF Counted
<1> QED
  BY <1>1, <1>2, <1>3, <1>4, <1>5, <1>6, <1>7, TapMoves

LEMMA CountInit == NextBuyerInit => CountInv
<1> SUFFICES ASSUME NextBuyerInit PROVE Counted
  BY TapTypesInit DEF CountInv
<1> QED
  BY DEF NextBuyerInit, Counted, Notices, Idle, Accidents

LEMMA CountStep == ASSUME OneTapper PROVE CountInv /\ [NextBuyerNext]_allVars => CountInv'
<1> SUFFICES ASSUME CountInv, [NextBuyerNext]_allVars PROVE CountInv'
  OBVIOUS
<1>1. CASE UNCHANGED allVars
  BY <1>1, TapTypesStep DEF allVars, taps, CountInv, Counted, Marked, Accidents
<1>2. NextBuyerNext => (OtherCall /\ KeepOurs) \/ \E c \in Tapper : TapStep(c)
  BY DEF NextBuyerNext, OtherCall
<1> QED
  BY <1>1, <1>2, OtherCounted, TapCounted

\* One tap at a time, however often the seller taps a notice and whatever becomes of the
\* item between the steps, its link goes out once, and once more for each tap killed and
\* each send that raised with the link out.
THEOREM LinkGoesOnce == ASSUME OneTapper PROVE NextBuyerSpec => []LinkedOnce
<1>1. CountInv => LinkedOnce
  BY DEF CountInv, Counted, LinkedOnce, Notices, Accidents, TapTypes, Numbers
<1> QED
  BY <1>1, CountInit, CountStep, PTL DEF NextBuyerSpec

\* Only the hold a tap makes or undoes moves the item, from nobody or from the buyer the
\* notice named.
LEMMA TapTakesStep ==
    ASSUME TapTypes, NextBuyerNext, NEW c \in Tapper, tap'[c] # tap[c], holding' # holding
    PROVE  LET n == IF tap[c].at = "idle" THEN tap'[c].ask ELSE tap[c].ask
           IN  state # "sold" /\ front.to \in {Nobody, asks[n].to}
<1>1. TapStep(c)
  <2>1. ~OtherCall
    BY OtherCalls
  <2>2. PICK d \in Tapper : TapStep(d)
    BY <2>1 DEF NextBuyerNext, OtherCall
  <2> QED
    BY <2>2, TapStepTypes
<1>2. ASSUME NEW n \in DOMAIN asks, TapReserve(c, n), tap'[c].ask = n, tap[c].at = "idle"
      PROVE  state # "sold" /\ front.to \in {Nobody, asks[n].to}
  BY <1>2 DEF TapReserve, StaleTap, NoFront
<1>3. CASE LetGo(c) /\ tap[c].at = "failed"
  <2>1. StillTheirs(c)
    BY <1>3 DEF LetGo, ledger
  <2> QED
    BY <1>3, <2>1 DEF StillTheirs, To
<1>4. CASE TapSend(c) \/ TapSendRaises(c) \/ MarkSent(c) \/ TapDies(c)
  BY <1>4 DEF TapSend, TapSendRaises, MarkSent, TapDies, ledger
<1> QED
  BY <1>1, <1>2, <1>3, <1>4, TapMoves

\* However many taps run at once, were killed or are stale, a tap moves the hold only to
\* or from the buyer its notice named, and never that of a sold item.
THEOREM TakenFromNobody == NextBuyerSpec => TapTakesNothing
<1>1. TapTypes /\ [NextBuyerNext]_allVars
        => [\A c \in Tapper :
              tap'[c] # tap[c] /\ holding' # holding
                => LET n == IF tap[c].at = "idle" THEN tap'[c].ask ELSE tap[c].ask
                   IN  state # "sold" /\ front.to \in {Nobody, asks[n].to}]_allVars
  BY TapTakesStep
<1> QED
  BY <1>1, TapTypesInit, TapTypesStep, PTL DEF NextBuyerSpec, TapTakesNothing

-----------------------------------------------------------------------------
(* Who holds the item, with taps at work.                                  *)

\* Until somebody bids above list no buyer on an unsold item offered more than it, so a
\* tap has no more than that to hold the item at, first come first served.
BidsBid == state # "sold" /\ ~bidding => \A b \in Buyer : buyers[b].highest <= price

BidInv == HolderInv /\ BidsBid

LEMMA RecordedHighest ==
    ASSUME NEW r, Sound(r), NEW o \in Offers, Whole(o) = o, NEW held \in BOOLEAN,
           NEW p \in Nat, o <= p, r.highest <= p
    PROVE  RecordOffer(Readmitted(r, o), o, held).highest <= p
<1>1. /\ Readmitted(r, o) \in BuyerRow /\ Readmitted(r, o).highest <= p
      /\ o \in Nat
  BY NegotiationAssumption DEF Readmitted, Sound, BuyerRow, Statuses, NotStanding
<1> HIDE DEF Readmitted
<1> DEFINE m == Readmitted(r, o)
<1>2. m \in BuyerRow /\ m.highest <= p
  BY <1>1
<1> HIDE DEF m
<1>3. RecordOffer(m, o, held).highest <= p
  BY <1>1, <1>2 DEF RecordOffer, BuyerRow, Larger
<1> QED
  BY <1>3 DEF m

\* The row of b after the offer o, as far as what they offered goes.
Offered(b, o) ==
    \E r : \E held \in BOOLEAN :
        /\ Save(b, r)
        /\ r.highest = RecordOffer(Readmitted(buyers[b], o), o, held).highest

\* What an offer does to the highest each buyer offered.
LEMMA OfferHighest ==
    ASSUME Typed, NEW b \in Buyer, NEW o \in Offers, NegotiateOffer(b, o)
    PROVE  \/ bidding' = TRUE \/ state' = "sold"
           \/ UNCHANGED <<state, bidding, buyers>>
           \/ /\ state # "sold" /\ bidding' = bidding /\ o <= price
              /\ Offered(b, o)
<1> DEFINE r == Heard(b, o)
<1>o. o \in Nat /\ price \in Nat
  BY NegotiationAssumption DEF Typed, ItemTyped
<1>r. r \in BuyerRow /\ r = RecordOffer(Readmitted(buyers[b], o), o, FALSE)
  BY HeardSound DEF Typed, Sound, Heard
<1> HIDE DEF r
<1>q. ASSUME NEW q, q.highest = r.highest, Save(b, q), state # "sold", bidding' = bidding,
             o <= price
      PROVE  Offered(b, o)
  <2>1. q.highest = RecordOffer(Readmitted(buyers[b], o), o, FALSE).highest
    BY <1>r, <1>q
  <2> QED
    BY <1>q, <2>1 DEF Offered
<1>1. CASE OfferOnSold(b, o) \/ BidLead(b, o) \/ BidOutbid(b, o) \/ RepeatOffer(b, o)
  BY <1>1 DEF OfferOnSold, BidLead, BidOutbid, RepeatOffer, ledger, holding
<1>2. ASSUME Accept(b, o), state # "sold", o <= price
      PROVE  /\ bidding' = bidding
             /\ Offered(b, o)
  <2> DEFINE q == [r EXCEPT !.status = "front_runner"]
  <2>1. Save(b, q) /\ bidding' = bidding
    BY <1>2, Zenon DEF Accept, r
  <2>2. q.highest = r.highest
    BY <1>r DEF BuyerRow
  <2> HIDE DEF q
  <2> QED
    BY <1>2, <1>q, <2>1, <2>2
<1>3. CASE AcceptAtList(b, o)
  <2>1. Accept(b, o) /\ state # "sold" /\ o = price
    BY <1>3, Zenon DEF AcceptAtList
  <2> QED
    BY <1>2, <1>o, <2>1
<1>4. CASE FcfsTaken(b, o)
  <2>1. Save(b, r) /\ state # "sold" /\ bidding' = bidding /\ o <= price
    BY <1>4, Zenon DEF FcfsTaken, r
  <2> QED
    BY <1>q, <2>1
<1>5. CASE HoldForFloor(b, o)
  <2>1. UNCHANGED holding /\ o < price
    BY <1>5 DEF HoldForFloor
  <2>2. CASE state = "sold"
    BY <2>1, <2>2 DEF holding
  <2>3. CASE state # "sold"
    <3>1. Save(b, RecordOffer(Readmitted(buyers[b], o), o, TRUE))
      BY <1>5, <2>3, Zenon DEF HoldForFloor
    <3>2. o <= price
      BY <1>o, <2>1
    <3>3. Offered(b, o)
      BY <3>1 DEF Offered
    <3> QED
      BY <2>1, <2>3, <3>2, <3>3 DEF holding
  <2> QED
    BY <2>2, <2>3
<1>6. ASSUME NEW k \in Knobs,
             \/ AcceptBelowList(b, o, k) \/ HoldFirm(b, o, k)
             \/ DeflectLowball(b, o, k) \/ Disengage(b, o, k) \/ Counter(b, o, k)
      PROVE  /\ state # "sold" /\ bidding' = bidding /\ o <= price
             /\ Offered(b, o)
  <2>1. state # "sold" /\ o < price
    BY <1>6, Zenon
       DEF AcceptBelowList, HoldFirm, DeflectLowball, Disengage, Counter, Haggles
  <2>2. o <= price
    BY <1>o, <2>1
  <2>3. CASE AcceptBelowList(b, o, k)
    <3>1. Accept(b, o)
      BY <2>3, Zenon DEF AcceptBelowList
    <3> QED
      BY <1>2, <2>1, <2>2, <3>1
  <2>4. CASE ~AcceptBelowList(b, o, k)
    <3>1. bidding' = bidding
      BY <1>6, <2>4, Zenon DEF HoldFirm, DeflectLowball, Disengage, Counter
    <3>2. \E q : Save(b, q) /\ q.highest = r.highest
      <4> DEFINE named == Whole(NextCounter(r, o, k, EffectiveMin(b)))
                 p == [r EXCEPT !.rounds = @ + 1]
                 q3 == [r EXCEPT !.rounds = @ + 1, !.counter = named]
                 q1 == [r EXCEPT !.lowballs = @ + 1]
                 q2 == [r EXCEPT !.status = "passed"]
      <4>1. Save(b, r) \/ Save(b, q1) \/ Save(b, q2) \/ Save(b, q3)
        BY <1>6, <2>4, Zenon DEF HoldFirm, DeflectLowball, Disengage, Counter, r
      <4>2. q1.highest = r.highest /\ q2.highest = r.highest
        BY <1>r DEF BuyerRow
      <4>3. /\ p.highest = r.highest
            /\ DOMAIN p = DOMAIN r /\ "counter" \in DOMAIN r
        BY <1>r DEF BuyerRow
      <4>4. q3 = [p EXCEPT !.counter = named]
        BY Zenon
      <4> HIDE DEF q1, q2, q3, p, named
      <4>5. q3.highest = r.highest
        BY <4>3, <4>4 DEF BuyerRow
      <4> QED
        BY <4>1, <4>2, <4>5
    <3> QED
      BY <1>q, <2>1, <2>2, <3>1, <3>2
  <2> QED
    BY <2>3, <2>4
<1> QED
  BY <1>1, <1>2, <1>3, <1>4, <1>5, <1>6, Zenon DEF NegotiateOffer

\* What a status set, and a row given back, do to what was offered: nothing.
LEMMA StatusHighest ==
    ASSUME NEW r, Sound(r), NEW st \in Statuses
    PROVE  [r EXCEPT !.status = st].highest = r.highest
  BY DEF Sound, BuyerRow

LEMMA RowsHighest ==
    ASSUME NEW bs, Rows(bs), NEW b \in Buyer, NEW st \in Statuses, NEW S
    PROVE  \A c \in Buyer : /\ [bs EXCEPT ![b].status = st][c].highest = bs[c].highest
                            /\ Others(bs, b, st)[c].highest = bs[c].highest
                            /\ Unheld(bs, S)[c].highest = bs[c].highest
<1> SUFFICES ASSUME NEW c \in Buyer
             PROVE  /\ [bs EXCEPT ![b].status = st][c].highest = bs[c].highest
                    /\ Others(bs, b, st)[c].highest = bs[c].highest
                    /\ Unheld(bs, S)[c].highest = bs[c].highest
  OBVIOUS
<1>1. /\ Sound(bs[c]) /\ bs = [d \in Buyer |-> bs[d]]
      /\ "active" \in Statuses
  BY DEF Rows, Statuses
<1>2. [bs EXCEPT ![b].status = st][c].highest = bs[c].highest
  <2> DEFINE row == [bs[b] EXCEPT !.status = st]
  <2>1. row.highest = bs[b].highest
    BY StatusHighest DEF Rows
  <2>2. [bs EXCEPT ![b].status = st] = [bs EXCEPT ![b] = row]
    OBVIOUS
  <2> HIDE DEF row
  <2> QED
    BY <1>1, <2>1, <2>2
<1>3. Others(bs, b, st)[c] \in {bs[c], [bs[c] EXCEPT !.status = st]}
  BY DEF Others
<1>4. Unheld(bs, S)[c] \in {bs[c], [bs[c] EXCEPT !.status = "active"]}
  BY DEF Unheld
<1> QED
  BY <1>1, <1>2, <1>3, <1>4, StatusHighest

LEMMA LedgerBids ==
    ASSUME WholeDollars, ~AfterSale, BidInv, Next, price' = price
    PROVE  BidsBid'
<1> USE DEF BidInv, HolderInv
<1>n. price \in Nat /\ Rows(buyers)
  BY NegotiationAssumption DEF Typed, ItemTyped
<1>k. ASSUME state # "sold", bidding' = bidding,
             \A c \in Buyer : buyers'[c].highest = buyers[c].highest
      PROVE  BidsBid'
  BY <1>k DEF BidsBid
<1>1. ASSUME NEW b \in Buyer, NEW o \in Offers, NegotiateOffer(b, o)
      PROVE  BidsBid'
  <2>1. CASE bidding' = TRUE \/ state' = "sold"
    BY <2>1 DEF BidsBid
  <2>2. CASE UNCHANGED <<state, bidding, buyers>>
    BY <2>2 DEF BidsBid
  <2>3. ASSUME state # "sold", bidding' = bidding, ~bidding, o <= price, Offered(b, o)
        PROVE  BidsBid'
    <3>1. PICK r : \E held \in BOOLEAN :
             /\ Save(b, r)
             /\ r.highest = RecordOffer(Readmitted(buyers[b], o), o, held).highest
      BY <2>3 DEF Offered
    <3>2. Sound(buyers[b]) /\ buyers[b].highest <= price /\ Whole(o) = o
      BY <1>n, <2>3 DEF Rows, BidsBid, WholeDollars
    <3>3. r.highest <= price /\ Save(b, r)
      BY <1>n, <2>3, <3>1, <3>2, RecordedHighest
    <3>4. \A c \in Buyer : buyers'[c] = IF c = b THEN r ELSE buyers[c]
      BY <1>n, <3>3 DEF Save, Rows
    <3> QED
      BY <2>3, <3>3, <3>4 DEF BidsBid
  <2>4. CASE bidding /\ bidding' = bidding
    BY <2>4 DEF BidsBid
  <2> QED
    BY <1>1, <2>1, <2>2, <2>3, <2>4, OfferHighest
<1>2. ASSUME NEW b \in Buyer, Withdraw(b)
      PROVE  BidsBid'
  <2>1. state # "sold" /\ buyers' = Gone(b) /\ bidding' = bidding
    BY <1>2 DEF Withdraw, Reopen, holding
  <2> QED
    BY <1>k, <1>n, <2>1, RowsHighest DEF Gone, Statuses, NotStanding
<1>3. ASSUME NEW b \in Buyer, ConfirmBid(b)
      PROVE  BidsBid'
  <2> DEFINE won == [buyers EXCEPT ![b].status = "won"]
  <2>1. state # "sold" /\ buyers' = Others(won, b, "outbid") /\ bidding' = bidding
    BY <1>3 DEF ConfirmBid
  <2>2. "won" \in Statuses /\ "outbid" \in Statuses
    BY DEF Statuses
  <2>3. Rows(won) /\ \A c \in Buyer : won[c].highest = buyers[c].highest
    BY <1>n, <2>2, StatusSound, RowsHighest DEF Rows
  <2> HIDE DEF won
  <2>4. \A c \in Buyer : Others(won, b, "outbid")[c].highest = won[c].highest
    BY <2>2, <2>3, RowsHighest
  <2> QED
    BY <1>k, <2>1, <2>3, <2>4
<1>4. ASSUME NEW b \in Buyer, ConfirmSold(b)
      PROVE  BidsBid'
  BY <1>4 DEF ConfirmSold, BidsBid
<1>5. CASE Release
  <2>1. state # "sold" /\ buyers' = Unheld(buyers, Buyer) /\ bidding' = bidding
    BY <1>5 DEF Release, Reopen
  <2>2. \A c \in Buyer : buyers'[c].highest = buyers[c].highest
    <3> SUFFICES ASSUME NEW c \in Buyer PROVE buyers'[c].highest = buyers[c].highest
      OBVIOUS
    <3> QED
      BY <1>n, <2>1, RowsHighest DEF Statuses
  <2> QED
    BY <1>k, <2>1, <2>2
<1>6. CASE UNCHANGED ledger
  BY <1>6 DEF ledger, holding, BidsBid
<1>7. CASE \/ \E f \in Floors, by \in {"default", "seller"} : SetFloor(f, by)
           \/ \E p \in Prices : AdmitPrice(p)
           \/ WritePrice
           \/ \E p \in Offers : FloorGate(p)
  BY <1>6, <1>7, Zenon DEF SetFloor, AdmitPrice, WritePrice, FloorGate
<1> QED
  BY <1>1, <1>2, <1>3, <1>4, <1>5, <1>7 DEF Next

LEMMA OtherBids ==
    ASSUME WholeDollars, OneListPrice, ~AfterSale
    PROVE  BidInv /\ OtherCall => BidInv'
<1> SUFFICES ASSUME BidInv, OtherCall PROVE BidInv'
  OBVIOUS
<1>1. ASSUME Next PROVE BidInv'
  <2>1. HolderInv'
    BY <1>1, HolderStep DEF BidInv
  <2>2. price' = price
    BY <2>1, PriceStays DEF BidInv, HolderInv
  <2> QED
    BY <1>1, <2>1, <2>2, LedgerBids DEF BidInv
<1>2. CASE LedgerCall \/ \E b \in Buyer : BuyerWithdrew(b)
  BY <1>1, <1>2, Zenon DEF LedgerCall, BuyerWithdrew, Next
<1>3. ASSUME NEW b \in Buyer, NEW p \in LinkPrices, CreateLink(b, p)
      PROVE  BidInv'
  <2>1. UNCHANGED <<price, ledger, pricing>> /\ Silent /\ FloorGate(p)
    BY <1>3 DEF CreateLink, FloorGate
  <2>2. ItemTyped'
    BY <2>1, NegotiationAssumption DEF FloorGate, ItemTyped, BidInv, HolderInv, Typed
  <2>3. HoldTyped' /\ Rows(buyers') /\ AnswerTyped' /\ HoldInv' /\ ApprovedAboveList' /\ BidsBid'
    BY <2>1, SilentTyped
       DEF ledger, holding, BidInv, HolderInv, Typed, HoldTyped, HoldInv, ApprovedAboveList,
           Reserved, BidsBid
  <2> QED
    BY <2>2, <2>3 DEF BidInv, HolderInv, Typed
<1> QED
  BY <1>2, <1>3 DEF OtherCall

\* A tap holds the item at list or under it, or for a bidder the seller thereby confirms.
LEMMA ReserveBids ==
    ASSUME BidInv, NEW b \in Buyer, state # "sold",
           Reserve(b, buyers[b].highest), UNCHANGED item
    PROVE  HoldTyped' /\ Rows(buyers') /\ HoldInv' /\ ApprovedAboveList' /\ BidsBid'
<1> DEFINE amount == buyers[b].highest
           isBid  == bidding /\ amount > price
           status == IF isBid THEN "won" ELSE "front_runner"
           row    == [buyers EXCEPT ![b].status = status]
<1>n. /\ price \in Nat /\ Rows(buyers) /\ bidding \in BOOLEAN /\ amount \in Nat
      /\ price' = price
  BY NegotiationAssumption
     DEF BidInv, HolderInv, Typed, ItemTyped, HoldTyped, Rows, Sound, BuyerRow, item
<1>1. /\ state' = "reserved_provisional" /\ bidding' = bidding
      /\ front' = [to |-> b, amount |-> amount, kind |-> IF isBid THEN "bid" ELSE "fcfs"]
      /\ buyers' = IF isBid THEN Others(row, b, "outbid") ELSE row
  BY DEF Reserve
<1>2. status \in Statuses /\ "outbid" \in Statuses /\ (isBid => status = "won")
  BY DEF Statuses
<1> HIDE DEF status
<1>3. /\ Rows(row) /\ row[b].status = status
      /\ \A c \in Buyer : row[c].highest = buyers[c].highest
  <2>1. Rows(row) /\ \A c \in Buyer : row[c].highest = buyers[c].highest
    BY <1>n, <1>2, StatusSound, RowsHighest DEF Rows
  <2>2. row[b].status = status
    BY <1>n DEF Rows, Sound, BuyerRow
  <2> QED
    BY <2>1, <2>2
<1> HIDE DEF row
<1>4. /\ Rows(buyers') /\ (isBid => buyers'[b].status = "won")
      /\ \A c \in Buyer : buyers'[c].highest = buyers[c].highest
  <2>1. Rows(Others(row, b, "outbid")) /\ Others(row, b, "outbid")[b] = row[b]
    BY <1>2, <1>3, StatusSound DEF Others, Rows
  <2>2. \A c \in Buyer : Others(row, b, "outbid")[c].highest = row[c].highest
    BY <1>2, <1>3, RowsHighest
  <2> QED
    BY <1>1, <1>2, <1>3, <2>1, <2>2
<1> HIDE DEF amount
<1>5. HoldTyped'
  BY <1>n, <1>1 DEF HoldTyped
<1>6. ~isBid => amount <= price
  BY <1>n DEF BidInv, BidsBid, amount
<1>7. HoldInv'
  BY <1>n, <1>1, <1>6, NegotiationAssumption DEF HoldInv, NoFront, Nobody
<1>8. ApprovedAboveList'
  BY <1>n, <1>1, <1>4, <1>6 DEF ApprovedAboveList
<1>9. BidsBid'
  BY <1>n, <1>1, <1>4 DEF BidInv, BidsBid
<1> QED
  BY <1>4, <1>5, <1>7, <1>8, <1>9

LEMMA TapBids ==
    BidInv /\ TapTypes /\ (\E c \in Tapper : TapStep(c)) => BidInv'
<1> SUFFICES ASSUME BidInv, TapTypes, NEW c \in Tapper, TapStep(c) PROVE BidInv'
  OBVIOUS
<1>1. UNCHANGED <<item, pricing>> /\ Silent
  BY Zenon DEF TapStep, TapReserve, TapMint, TapMintFails, TapSend, TapSendFails,
     TapSendRaises, MarkSent, LetGo, TapDies
<1>2. ItemTyped' /\ AnswerTyped' /\ price' = price
  BY <1>1, SilentTyped DEF BidInv, HolderInv, Typed, ItemTyped, item
<1> SUFFICES HoldTyped' /\ Rows(buyers') /\ HoldInv' /\ ApprovedAboveList' /\ BidsBid'
  BY <1>2 DEF BidInv, HolderInv, Typed
<1>3. CASE UNCHANGED ledger
  BY <1>2, <1>3
     DEF ledger, holding, BidInv, HolderInv, Typed, HoldTyped, HoldInv, ApprovedAboveList,
         Reserved, BidsBid
<1>4. ASSUME NEW n \in DOMAIN asks, TapReserve(c, n)
      PROVE  HoldTyped' /\ Rows(buyers') /\ HoldInv' /\ ApprovedAboveList' /\ BidsBid'
  <2>1. asks[n].to \in Buyer /\ state # "sold"
    BY <1>4 DEF TapReserve, StaleTap, TapTypes, IsAsk
  <2>2. UNCHANGED ledger \/ Reserve(asks[n].to, buyers[asks[n].to].highest)
    BY <1>4, Zenon DEF TapReserve
  <2> QED
    BY <1>1, <1>3, <2>1, <2>2, ReserveBids
<1>5. CASE LetGo(c) /\ ~UNCHANGED ledger
  <2>1. Reopen(Unheld(buyers, {To(c)})) /\ state = "reserved_provisional"
    BY <1>5, Zenon DEF LetGo, StillTheirs
  <2>2. Rows(Unheld(buyers, {To(c)}))
    BY StatusSound DEF BidInv, HolderInv, Typed, Rows, Unheld, Statuses
  <2>3. HoldTyped' /\ Rows(buyers') /\ HoldInv' /\ ApprovedAboveList'
    BY <2>1, <2>2, ReopenTyped, ReopenHold DEF BidInv, HolderInv, Typed
  <2>4. BidsBid'
    <3>1. bidding' = bidding /\ buyers' = Unheld(buyers, {To(c)})
      BY <2>1 DEF Reopen
    <3>2. \A b \in Buyer : buyers'[b].highest = buyers[b].highest
      <4> SUFFICES ASSUME NEW b \in Buyer PROVE buyers'[b].highest = buyers[b].highest
        OBVIOUS
      <4> QED
        BY <3>1, RowsHighest DEF BidInv, HolderInv, Typed, Statuses
    <3> QED
      BY <1>2, <2>1, <3>1, <3>2 DEF BidInv, BidsBid
  <2> QED
    BY <2>3, <2>4
<1>6. UNCHANGED ledger \/ LetGo(c) \/ \E n \in DOMAIN asks : TapReserve(c, n)
  BY Zenon DEF TapStep, TapMint, TapMintFails, TapSend, TapSendFails, TapSendRaises, MarkSent,
     TapDies
<1> QED
  BY <1>3, <1>4, <1>5, <1>6

LEMMA BidInit == NextBuyerInit => BidInv
<1> SUFFICES ASSUME NextBuyerInit PROVE BidsBid
  BY HolderInit DEF BidInv, NextBuyerInit
<1>1. price \in Nat /\ buyers = [b \in Buyer |-> Blank]
  BY NegotiationAssumption DEF NextBuyerInit, Init
<1>2. \A b \in Buyer : buyers[b].highest = 0
  BY <1>1 DEF Blank
<1>3. 0 <= price
  BY <1>1
<1>4. \A b \in Buyer : buyers[b].highest <= price
  BY <1>2, <1>3, Zenon
<1> QED
  BY <1>4, Zenon DEF BidsBid

\* With taps running beside every other call on the item, at one list price in whole
\* dollars and with nothing released or confirmed once sold, nobody holds the item above
\* its list price but a buyer the seller confirmed.
THEOREM ApprovedBesideTaps ==
    ASSUME WholeDollars, OneListPrice, ~AfterSale
    PROVE  NextBuyerSpec => []ApprovedAboveList
<1>1. BidInv /\ TapTypes /\ [NextBuyerNext]_allVars => (BidInv /\ TapTypes)'
  <2> SUFFICES ASSUME BidInv, TapTypes, [NextBuyerNext]_allVars PROVE BidInv'
    BY TapTypesStep
  <2>1. CASE UNCHANGED allVars
    <3>1. [Next]_vars /\ UNCHANGED <<state, bidding, buyers, price>>
      BY <2>1 DEF allVars, vars, item, ledger, holding
    <3>2. HolderInv'
      BY <3>1, HolderStep DEF BidInv
    <3> QED
      BY <3>1, <3>2 DEF BidInv, BidsBid
  <2>2. NextBuyerNext => OtherCall \/ \E c \in Tapper : TapStep(c)
    BY DEF NextBuyerNext, OtherCall
  <2> QED
    BY <2>1, <2>2, OtherBids, TapBids
<1>2. BidInv => ApprovedAboveList
  BY DEF BidInv, HolderInv
<1> QED
  BY <1>1, <1>2, BidInit, TapTypesInit, PTL DEF NextBuyerSpec
-----------------------------------------------------------------------------
(* What the engine keeps from one buyer for the sake of another, and from  *)
(* all of them for the seller's.                                           *)

LEMMA LeastOf ==
    ASSUME NEW T, T \subseteq Nat, T # {}
    PROVE  \E x \in T : \A y \in T : x <= y
<1> DEFINE below == {ss \in Nat \X Nat : ss[1] < ss[2]}
<1>1. IsWellFoundedOn(below, Nat)
  BY NatLessThanWellFounded DEF OpToRel
<1>2. PICK x \in T : \A y \in T : <<y, x>> \notin below
  BY <1>1, WFMin
<1>3. \A y \in T : ~(y < x)
  BY <1>2
<1> QED
  BY <1>3

\* Amounts and thread ids are numbers the database can hold.
Bounded == \E m \in Nat : \A x \in Buyer \cup Offers : x <= m

\* Nobody offered more than m, and no counter is negative.
Capped(m) == \A b \in Buyer : buyers[b].highest <= m /\ buyers[b].counter >= 0

CapInv(m) == Typed /\ FloorInv /\ Capped(m)

\* What an offer writes: the amount as the highest, or a counter from the floor up.
Entered(b, o) ==
    \E r : /\ Save(b, r)
           /\ r.highest = buyers[b].highest \/ r.highest = Whole(o)
           /\ r.counter = buyers[b].counter \/ r.counter >= floor

LEMMA HeardEntry ==
    ASSUME NEW r, Sound(r), NEW o \in Offers, NEW held \in BOOLEAN
    PROVE  /\ RecordOffer(Readmitted(r, o), o, held).highest \in {r.highest, Whole(o)}
           /\ RecordOffer(Readmitted(r, o), o, held).counter = r.counter
           /\ RecordOffer(Readmitted(r, o), o, held).last = o
<1> DEFINE m == Readmitted(r, o)
<1>1. m \in BuyerRow /\ m.highest \in {r.highest, Whole(o)} /\ m.counter = r.counter
  BY NegotiationAssumption, WholeNat DEF Readmitted, Sound, BuyerRow, Statuses, NotStanding
<1> HIDE DEF m
<1>2. /\ RecordOffer(m, o, held).highest \in {m.highest, Whole(o)}
      /\ RecordOffer(m, o, held).counter = m.counter
      /\ RecordOffer(m, o, held).last = o
  BY <1>1, NegotiationAssumption, WholeNat DEF RecordOffer, BuyerRow, Larger
<1> QED
  BY <1>1, <1>2 DEF m

LEMMA OfferEnters ==
    ASSUME Typed, NEW b \in Buyer, NEW o \in Offers, NegotiateOffer(b, o)
    PROVE  buyers' = buyers \/ Entered(b, o)
<1> DEFINE r == Heard(b, o)
<1>r. /\ r \in BuyerRow /\ r.highest \in {buyers[b].highest, Whole(o)}
      /\ r.counter = buyers[b].counter
  <2>1. Sound(buyers[b])
    BY DEF Typed, Rows
  <2> QED
    BY <2>1, HeardSound, HeardEntry DEF Typed, Sound, Heard
<1> HIDE DEF r
<1>q. ASSUME NEW q, Save(b, q), q.highest = r.highest,
             q.counter = r.counter \/ q.counter >= floor
      PROVE  Entered(b, o)
  BY <1>r, <1>q DEF Entered
<1>s. ASSUME NEW st, Save(b, [r EXCEPT !.status = st])
      PROVE  Entered(b, o)
  <2>1. /\ [r EXCEPT !.status = st].highest = r.highest
        /\ [r EXCEPT !.status = st].counter = r.counter
    BY <1>r DEF BuyerRow
  <2> QED
    BY <1>q, <1>s, <2>1
<1>1. CASE \/ OfferOnSold(b, o) \/ BidOutbid(b, o) \/ FcfsTaken(b, o)
           \/ \E k \in Knobs : HoldFirm(b, o, k)
  <2>1. Save(b, r)
    BY <1>1, Zenon DEF OfferOnSold, BidOutbid, FcfsTaken, HoldFirm, r
  <2> QED
    BY <1>q, <2>1
<1>2. CASE \/ BidLead(b, o) \/ AcceptAtList(b, o)
           \/ \E k \in Knobs : AcceptBelowList(b, o, k) \/ Disengage(b, o, k)
  <2>1. \E st : Save(b, [r EXCEPT !.status = st])
    BY <1>2, Zenon DEF BidLead, AcceptAtList, AcceptBelowList, Accept, Disengage, r
  <2> QED
    BY <1>s, <2>1
<1>3. CASE RepeatOffer(b, o)
  BY <1>3 DEF RepeatOffer, ledger
<1>4. CASE HoldForFloor(b, o)
  <2>1. buyers' = buyers \/ Save(b, RecordOffer(Readmitted(buyers[b], o), o, TRUE))
    BY <1>4, Zenon DEF HoldForFloor
  <2>2. Sound(buyers[b])
    BY DEF Typed, Rows
  <2> DEFINE q == RecordOffer(Readmitted(buyers[b], o), o, TRUE)
  <2>3. q.highest \in {buyers[b].highest, Whole(o)} /\ q.counter = buyers[b].counter
    BY <2>2, HeardEntry
  <2> HIDE DEF q
  <2>4. buyers' = buyers \/ Save(b, q)
    BY <2>1 DEF q
  <2> QED
    BY <2>3, <2>4 DEF Entered
<1>5. ASSUME NEW k \in Knobs, DeflectLowball(b, o, k)
      PROVE  Entered(b, o)
  <2> DEFINE q == [r EXCEPT !.lowballs = @ + 1]
  <2>1. Save(b, q)
    BY <1>5, Zenon DEF DeflectLowball, r
  <2>2. q.highest = r.highest /\ q.counter = r.counter
    BY <1>r DEF BuyerRow
  <2> HIDE DEF q
  <2> QED
    BY <1>q, <2>1, <2>2
<1>6. ASSUME NEW k \in Knobs, Counter(b, o, k)
      PROVE  Entered(b, o)
  <2> DEFINE named == Whole(NextCounter(r, o, k, EffectiveMin(b)))
             p == [r EXCEPT !.rounds = @ + 1]
             q == [r EXCEPT !.rounds = @ + 1, !.counter = named]
  <2>1. Save(b, q) /\ named >= floor
    BY <1>6, Zenon DEF Counter, Emits, r
  <2>2. q = [p EXCEPT !.counter = named]
    BY Zenon
  <2>3. p.highest = r.highest /\ DOMAIN p = DOMAIN r /\ {"counter", "highest"} \subseteq DOMAIN r
    BY <1>r DEF BuyerRow
  <2> HIDE DEF p, q, named
  <2>4. q.highest = r.highest /\ q.counter = named
    BY <2>2, <2>3
  <2> QED
    BY <1>q, <2>1, <2>4
<1> QED
  BY <1>1, <1>2, <1>3, <1>4, <1>5, <1>6, Zenon DEF NegotiateOffer

\* No step but an offer touches what was offered or countered.
LEMMA StatusOnly ==
    ASSUME NEW bs, Rows(bs), NEW b \in Buyer, NEW st \in Statuses, NEW S
    PROVE  \A c \in Buyer :
              /\ [bs EXCEPT ![b].status = st][c].counter = bs[c].counter
              /\ Others(bs, b, st)[c].counter = bs[c].counter
              /\ Unheld(bs, S)[c].counter = bs[c].counter
<1> SUFFICES ASSUME NEW c \in Buyer
             PROVE  /\ [bs EXCEPT ![b].status = st][c].counter = bs[c].counter
                    /\ Others(bs, b, st)[c].counter = bs[c].counter
                    /\ Unheld(bs, S)[c].counter = bs[c].counter
  OBVIOUS
<1>0. ASSUME NEW r, Sound(r), NEW x \in Statuses
      PROVE  [r EXCEPT !.status = x].counter = r.counter
  BY <1>0 DEF Sound, BuyerRow
<1>1. Sound(bs[c]) /\ Sound(bs[b]) /\ bs = [d \in Buyer |-> bs[d]] /\ "active" \in Statuses
  BY DEF Rows, Statuses
<1>2. [bs EXCEPT ![b].status = st][c].counter = bs[c].counter
  <2> DEFINE row == [bs[b] EXCEPT !.status = st]
  <2>1. row.counter = bs[b].counter
    BY <1>0, <1>1
  <2>2. [bs EXCEPT ![b].status = st] = [bs EXCEPT ![b] = row]
    OBVIOUS
  <2> HIDE DEF row
  <2> QED
    BY <1>1, <2>1, <2>2
<1>3. Others(bs, b, st)[c] \in {bs[c], [bs[c] EXCEPT !.status = st]}
  BY DEF Others
<1>4. Unheld(bs, S)[c] \in {bs[c], [bs[c] EXCEPT !.status = "active"]}
  BY DEF Unheld
<1> QED
  BY <1>0, <1>1, <1>2, <1>3, <1>4

LEMMA CapStep ==
    ASSUME NEW m \in Nat, \A x \in Buyer \cup Offers : x <= m
    PROVE  CapInv(m) /\ [Next]_vars => CapInv(m)'
<1> SUFFICES ASSUME CapInv(m), [Next]_vars PROVE Capped(m)'
  BY TypedStep, FloorInvStep DEF CapInv
<1> USE DEF CapInv
<1>n. Rows(buyers) /\ Capped(m)
  BY DEF Typed
<1>k. ASSUME \A c \in Buyer : /\ buyers'[c].highest = buyers[c].highest
                              /\ buyers'[c].counter = buyers[c].counter
      PROVE  Capped(m)'
  BY <1>n, <1>k DEF Capped
<1>1. ASSUME NEW b \in Buyer, NEW o \in Offers, NegotiateOffer(b, o)
      PROVE  Capped(m)'
  <2>1. CASE buyers' = buyers
    BY <1>n, <2>1 DEF Capped
  <2>2. CASE Entered(b, o)
    <3>1. PICK r : /\ Save(b, r)
                   /\ r.highest = buyers[b].highest \/ r.highest = Whole(o)
                   /\ r.counter = buyers[b].counter \/ r.counter >= floor
      BY <2>2 DEF Entered
    <3>2. Whole(o) <= m
      <4>1. o \in Nat /\ o <= m /\ Unit \in Nat \ {0}
        BY NegotiationAssumption
      <4> QED
        BY <4>1, SMT DEF Whole
    <3>3. floor \in Nat
      BY DEF FloorInv
    <3>r. Sound(r)
      <4>1. Rows(buyers')
        BY <1>1, OfferTyped DEF Typed
      <4>2. buyers'[b] = r
        BY <1>n, <3>1 DEF Save, Rows
      <4> QED
        BY <4>1, <4>2 DEF Rows
    <3>4. r.highest <= m /\ r.counter >= 0
      BY <1>n, <3>1, <3>2, <3>3, <3>r DEF Capped, Sound, BuyerRow
    <3>5. \A c \in Buyer : buyers'[c] = IF c = b THEN r ELSE buyers[c]
      BY <1>n, <3>1 DEF Save, Rows
    <3> QED
      BY <1>n, <3>4, <3>5 DEF Capped
  <2> QED
    BY <1>1, <2>1, <2>2, OfferEnters
<1>2. ASSUME NEW b \in Buyer, Withdraw(b)
      PROVE  Capped(m)'
  <2>1. buyers' = Gone(b)
    BY <1>2 DEF Withdraw, Reopen, holding
  <2> QED
    BY <1>k, <1>n, <2>1, RowsHighest, StatusOnly DEF Gone, Statuses, NotStanding
<1>3. ASSUME NEW b \in Buyer, ConfirmBid(b)
      PROVE  Capped(m)'
  <2> DEFINE won == [buyers EXCEPT ![b].status = "won"]
  <2>1. buyers' = Others(won, b, "outbid")
    BY <1>3 DEF ConfirmBid
  <2>2. "won" \in Statuses /\ "outbid" \in Statuses
    BY DEF Statuses
  <2>3. Rows(won) /\ \A c \in Buyer : /\ won[c].highest = buyers[c].highest
                                      /\ won[c].counter = buyers[c].counter
    BY <1>n, <2>2, StatusSound, RowsHighest, StatusOnly DEF Rows
  <2> HIDE DEF won
  <2>4. \A c \in Buyer : /\ Others(won, b, "outbid")[c].highest = won[c].highest
                         /\ Others(won, b, "outbid")[c].counter = won[c].counter
    BY <2>2, <2>3, RowsHighest, StatusOnly
  <2> QED
    BY <1>k, <2>1, <2>3, <2>4
<1>4. ASSUME NEW b \in Buyer, ConfirmSold(b)
      PROVE  Capped(m)'
  <2>1. buyers' = Others(buyers, b, "lost") /\ "lost" \in Statuses
    BY <1>4 DEF ConfirmSold, Statuses, NotStanding
  <2>2. \A c \in Buyer : /\ Others(buyers, b, "lost")[c].highest = buyers[c].highest
                         /\ Others(buyers, b, "lost")[c].counter = buyers[c].counter
    BY <1>n, <2>1, RowsHighest, StatusOnly
  <2> QED
    BY <1>k, <2>1, <2>2
<1>5. CASE Release
  <2>1. buyers' = Unheld(buyers, Buyer)
    BY <1>5 DEF Release, Reopen
  <2>2. \A c \in Buyer : /\ buyers'[c].highest = buyers[c].highest
                         /\ buyers'[c].counter = buyers[c].counter
    <3> SUFFICES ASSUME NEW c \in Buyer
                 PROVE  /\ buyers'[c].highest = buyers[c].highest
                        /\ buyers'[c].counter = buyers[c].counter
      OBVIOUS
    <3> QED
      BY <1>n, <2>1, RowsHighest, StatusOnly DEF Statuses
  <2> QED
    BY <1>k, <2>2
<1>6. CASE buyers' = buyers
  BY <1>n, <1>6 DEF Capped
<1>7. CASE \/ \E f \in Floors, by \in {"default", "seller"} : SetFloor(f, by)
           \/ \E p \in Prices : AdmitPrice(p)
           \/ WritePrice
           \/ \E p \in Offers : FloorGate(p)
  BY <1>6, <1>7, Zenon DEF SetFloor, AdmitPrice, WritePrice, FloorGate, ledger
<1> QED
  BY <1>1, <1>2, <1>3, <1>4, <1>5, <1>6, <1>7 DEF Next, vars, ledger

LEMMA CapInit == ASSUME NEW m \in Nat PROVE Init => CapInv(m)
<1> SUFFICES ASSUME Init PROVE Capped(m)
  BY TypedInit, FloorInvInit DEF CapInv
<1>1. buyers = [b \in Buyer |-> Blank]
  BY DEF Init
<1>2. \A b \in Buyer : buyers[b].highest = 0 /\ buyers[b].counter = 0
  BY <1>1 DEF Blank
<1>3. 0 <= m /\ 0 >= 0
  OBVIOUS
<1>4. \A b \in Buyer : buyers[b].highest <= m /\ buyers[b].counter >= 0
  BY <1>2, <1>3, Zenon
<1> QED
  BY <1>4, Zenon DEF Capped

LEMMA GreatestOf ==
    ASSUME NEW S, S # {}, NEW h, NEW m \in Nat, \A d \in S : h[d] \in Nat /\ h[d] <= m
    PROVE  \E d \in S : \A e \in S : h[e] <= h[d]
<1> DEFINE T == {m - h[d] : d \in S}
<1>1. T \subseteq Nat /\ T # {}
  OBVIOUS
<1> HIDE DEF T
<1>2. PICK x \in T : \A y \in T : x <= y
  BY <1>1, LeastOf
<1> USE DEF T
<1>3. PICK d \in S : x = m - h[d]
  BY <1>2
<1>4. ASSUME NEW e \in S PROVE h[e] <= h[d]
  <2>1. m - h[d] <= m - h[e]
    BY <1>2, <1>3
  <2> HIDE DEF T
  <2> QED
    BY <2>1
<1> QED
  BY <1>4

\* The best of the rivals is no less than any of them who stands.
LEMMA RivalIsCounted ==
    ASSUME NEW m \in Nat, \A x \in Buyer \cup Offers : x <= m, CapInv(m),
           NEW b \in Buyer, NEW c \in Buyer \ {b}, Stands(buyers[c]), buyers[c].highest > 0
    PROVE  OtherBest(b) \in Nat /\ OtherBest(b) >= buyers[c].highest
<1> DEFINE S == {d \in Buyer \ {b} : Stands(buyers[d]) /\ buyers[d].highest > 0}
           best == BestStanding(buyers, Buyer \ {b})
<1>n. \A d \in Buyer : /\ buyers[d].highest \in Nat /\ buyers[d].highest <= m
                       /\ d \in Nat /\ d <= m
  BY NegotiationAssumption DEF CapInv, Capped, Typed, Rows, Sound, BuyerRow
<1> DEFINE h == [d \in Buyer |-> buyers[d].highest]
           id == [d \in Buyer |-> d]
<1>1. PICK d1 \in S : \A d \in S : buyers[d].highest <= buyers[d1].highest
  <2>1. S # {} /\ \A d \in S : h[d] = buyers[d].highest /\ h[d] \in Nat /\ h[d] <= m
    BY <1>n
  <2> HIDE DEF h, S
  <2>2. PICK d1 \in S : \A d \in S : h[d] <= h[d1]
    BY <2>1, GreatestOf
  <2> QED
    BY <2>1, <2>2
<1> DEFINE E == {d \in S : buyers[d].highest = buyers[d1].highest}
<1>2. PICK d2 \in E : \A d \in E : d <= d2
  <2>1. E # {} /\ \A d \in E : id[d] = d /\ id[d] \in Nat /\ id[d] <= m
    BY <1>n, <1>1
  <2> HIDE DEF id, E
  <2>2. PICK d2 \in E : \A d \in E : id[d] <= id[d2]
    BY <2>1, GreatestOf
  <2> QED
    BY <2>1, <2>2
<1>3. d2 \in best
  <2> SUFFICES ASSUME NEW d \in (Buyer \ {b}) \ {d2}, Stands(buyers[d]),
                      ~(buyers[d].highest < buyers[d2].highest)
               PROVE  buyers[d].highest = buyers[d2].highest /\ d < d2
    BY <1>2 DEF BestStanding
  <2>1. buyers[d2].highest > 0 /\ buyers[d2].highest = buyers[d1].highest
    BY <1>2
  <2>2. d \in S
    BY <1>n, <2>1
  <2>3. d \in E
    BY <1>1, <1>n, <2>1, <2>2
  <2> QED
    BY <1>2, <1>n, <2>1, <2>3
<1> DEFINE e == CHOOSE d \in best : TRUE
<1>4. e \in best /\ OtherBest(b) = buyers[e].highest
  BY <1>3 DEF OtherBest
<1> HIDE DEF e
<1>5. /\ e \in Buyer
      /\ \/ c = e \/ buyers[c].highest < buyers[e].highest
         \/ buyers[c].highest = buyers[e].highest
  BY <1>4 DEF BestStanding
<1> QED
  BY <1>4, <1>5, <1>n

\* What is accepted below list is no less than the least the seller takes.
LEMMA AcceptedIsEnough ==
    ASSUME Typed, NEW b \in Buyer, NEW o \in Offers, NEW k \in Knobs, AcceptBelowList(b, o, k)
    PROVE  o >= EffectiveMin(b) /\ o < price
<1> DEFINE r == Heard(b, o)
           min == EffectiveMin(b)
<1>1. /\ Haggles(b, o)
      /\ Meets(r, o, min) \/ NextCounter(r, o, k, min) <= o
  BY Zenon DEF AcceptBelowList
<1>2. Sound(r) /\ min \in Int /\ o \in Nat /\ price \in Nat /\ floor \in Nat /\ k.step \in Nat
  BY HeardSound, MinInt, NegotiationAssumption DEF Typed, ItemTyped
<1>3. Shown(r) \in Int
  BY <1>2 DEF Shown, Sound, BuyerRow
<1> HIDE DEF r, min
<1>4. CASE Meets(r, o, min)
  BY <1>1, <1>4 DEF Meets, Haggles, min
<1>5. CASE NextCounter(r, o, k, min) <= o
  <2>1. k.step * (r.rounds + 1) \in Int
    BY <1>2 DEF Sound, BuyerRow
  <2>2. Walked(r, k, min) >= min /\ Walked(r, k, min) \in Int
    BY <1>2, <1>3, <2>1 DEF Walked, Larger, Smaller
  <2>3. NextCounter(r, o, k, min) >= min /\ NextCounter(r, o, k, min) \in Int
    BY <1>2, <1>3, <1>5, <2>2 DEF NextCounter, Smaller
  <2>4. o >= min
    BY <1>2, <1>5, <2>3
  <2> QED
    BY <1>1, <2>4 DEF Haggles, min
<1> QED
  BY <1>1, <1>4, <1>5

\* A decision that holds the item is one of the two that accept.
LEMMA Accepts ==
    ASSUME NEW b \in Buyer, NEW o \in Offers, NegotiateOffer(b, o),
           answer'.decision = "accept_fcfs"
    PROVE  AcceptAtList(b, o) \/ \E k \in Knobs : AcceptBelowList(b, o, k)
<1>1. ASSUME NEW d, NEW named, Tell(b, d, named)
      PROVE  d = "accept_fcfs"
  BY <1>1 DEF Tell
<1>2. \A named :
         /\ ~Tell(b, "sold", named) /\ ~Tell(b, "bid_lead", named)
         /\ ~Tell(b, "bid_outbid", named) /\ ~Tell(b, "fcfs_taken", named)
         /\ ~Tell(b, "hold_firm", named) /\ ~Tell(b, "deflect_lowball", named)
         /\ ~Tell(b, "disengage", named) /\ ~Tell(b, "counter", named)
         /\ ~Tell(b, "repeat_offer", named) /\ ~Tell(b, "needs_floor", named)
  BY <1>1
<1>3. /\ ~OfferOnSold(b, o) /\ ~BidLead(b, o) /\ ~BidOutbid(b, o) /\ ~FcfsTaken(b, o)
      /\ ~RepeatOffer(b, o) /\ ~HoldForFloor(b, o)
      /\ \A k \in Knobs : /\ ~HoldFirm(b, o, k) /\ ~DeflectLowball(b, o, k)
                          /\ ~Disengage(b, o, k) /\ ~Counter(b, o, k)
  BY <1>2, Zenon DEF OfferOnSold, BidLead, BidOutbid, FcfsTaken, RepeatOffer, HoldForFloor,
     HoldFirm, DeflectLowball, Disengage, Counter
<1> QED
  BY <1>3, Zenon DEF NegotiateOffer

LEMMA RivalsStep ==
    ASSUME WholeDollars, NEW m \in Nat, \A x \in Buyer \cup Offers : x <= m, CapInv(m),
           Next, answer'.decision = "accept_fcfs", answer'.price < price,
           NEW c \in Buyer \ {answer'.to}, Stands(buyers[c])
    PROVE  buyers[c].highest < answer'.price
<1>1. PICK b \in Buyer : \E o \in Offers : NegotiateOffer(b, o)
  BY Silence DEF NoAnswer
<1>2. PICK o \in Offers : NegotiateOffer(b, o)
  BY <1>1
<1>n. /\ o \in Nat \ {0} /\ price \in Nat /\ floor \in Nat /\ Unit \in Nat \ {0}
      /\ buyers[c].highest \in Nat /\ Whole(o) = o /\ Whole(price) = price
  BY NegotiationAssumption DEF CapInv, Typed, ItemTyped, Rows, Sound, BuyerRow, WholeDollars
<1>3. answer'.to = b /\ answer'.price = o
  <2>1. Accept(b, o)
    BY <1>2, Accepts, Zenon DEF AcceptAtList, AcceptBelowList
  <2> QED
    BY <1>n, <2>1 DEF Accept, Tell
<1>4. PICK k \in Knobs : AcceptBelowList(b, o, k)
  BY <1>2, <1>3, <1>n, Accepts DEF AcceptAtList
<1>5. o >= EffectiveMin(b) /\ o < price
  BY <1>4, AcceptedIsEnough DEF CapInv
<1>6. CASE buyers[c].highest > 0
  <2>1. OtherBest(b) \in Nat /\ OtherBest(b) >= buyers[c].highest
    BY <1>3, <1>6, RivalIsCounted
  <2>2. EffectiveMin(b) = Larger(floor, Smaller(price, OtherBest(b) + Unit))
    BY <1>6, <1>n, <2>1 DEF EffectiveMin
  <2>3. o >= OtherBest(b) + Unit
    BY <1>5, <1>n, <2>1, <2>2 DEF Larger, Smaller
  <2> QED
    BY <1>3, <1>n, <2>1, <2>3
<1>7. CASE buyers[c].highest = 0
  BY <1>3, <1>n, <1>7
<1> QED
  BY <1>6, <1>7, <1>n

\* Of any number of buyers, with any history of offers, withdrawals and returns, none is
\* given the item below list under, or at, what another who still stands has offered.
THEOREM RivalsAreBeaten == ASSUME WholeDollars, Bounded PROVE Spec => NeverUnderRival
<1>1. PICK m \in Nat : \A x \in Buyer \cup Offers : x <= m
  BY DEF Bounded
<1>2. CapInv(m) /\ [Next]_vars
        => [answer'.decision = "accept_fcfs" /\ answer'.price < price
              => \A c \in Buyer \ {answer'.to} :
                    Stands(buyers[c]) => buyers[c].highest < answer'.price]_vars
  BY <1>1, RivalsStep DEF vars
<1>3. Init => CapInv(m)
  BY CapInit
<1>4. CapInv(m) /\ [Next]_vars => CapInv(m)'
  BY <1>1, CapStep
<1> QED
  BY <1>2, <1>3, <1>4, PTL DEF Spec, NeverUnderRival

\* Everything is counted in whole dollars, and a counter steps by at least one.
DollarSteps == Unit = 1 /\ \A k \in Knobs : k.step > 0

\* The three decisions that may tell a buyer below it the floor.
LEMMA Haggled ==
    ASSUME Next, answer'.decision \in {"counter", "hold_firm", "disengage"}
    PROVE  \E b \in Buyer : \E o \in Offers : \E k \in Knobs :
              HoldFirm(b, o, k) \/ Disengage(b, o, k) \/ Counter(b, o, k)
<1>1. PICK b \in Buyer : \E o \in Offers : NegotiateOffer(b, o)
  BY Silence DEF NoAnswer
<1>2. PICK o \in Offers : NegotiateOffer(b, o)
  BY <1>1
<1>3. \A d \in {"sold", "bid_lead", "bid_outbid", "accept_fcfs", "fcfs_taken",
                "deflect_lowball", "repeat_offer", "needs_floor"} :
         \A named : ~Tell(b, d, named)
  BY DEF Tell
<1>4. \A named :
         /\ ~Tell(b, "sold", named) /\ ~Tell(b, "bid_lead", named)
         /\ ~Tell(b, "bid_outbid", named) /\ ~Tell(b, "fcfs_taken", named)
         /\ ~Tell(b, "accept_fcfs", named) /\ ~Tell(b, "deflect_lowball", named)
         /\ ~Tell(b, "repeat_offer", named) /\ ~Tell(b, "needs_floor", named)
  BY <1>3
<1>5. /\ ~OfferOnSold(b, o) /\ ~BidLead(b, o) /\ ~BidOutbid(b, o) /\ ~FcfsTaken(b, o)
      /\ ~RepeatOffer(b, o) /\ ~HoldForFloor(b, o) /\ ~AcceptAtList(b, o)
      /\ \A k \in Knobs : ~AcceptBelowList(b, o, k) /\ ~DeflectLowball(b, o, k)
  BY <1>4, Zenon DEF OfferOnSold, BidLead, BidOutbid, FcfsTaken, RepeatOffer, HoldForFloor,
     AcceptAtList, AcceptBelowList, Accept, DeflectLowball
<1> QED
  BY <1>2, <1>5, Zenon DEF NegotiateOffer

\* A buyer shown no more than the floor was countered with that, or the floor is the
\* list price.
LEMMA ShownFloor ==
    ASSUME NEW m \in Nat, CapInv(m), NEW b \in Buyer, NEW o \in Offers,
           Shown(Heard(b, o)) <= floor
    PROVE  floor = price \/ buyers[b].counter \in 1..floor
<1>1. Sound(buyers[b]) /\ Heard(b, o).counter = buyers[b].counter
  BY HeardEntry DEF CapInv, Typed, Rows, Heard
<1>2. /\ price \in Nat /\ floor \in Nat /\ floor <= price
      /\ buyers[b].counter \in Int /\ buyers[b].counter >= 0
  BY <1>1, NegotiationAssumption DEF CapInv, FloorInv, Capped, Sound, BuyerRow
<1>3. CASE buyers[b].counter = 0
  BY <1>1, <1>2, <1>3 DEF Shown
<1>4. CASE buyers[b].counter # 0
  BY <1>1, <1>2, <1>4 DEF Shown
<1> QED
  BY <1>3, <1>4

LEMMA FloorStep ==
    ASSUME DollarSteps, NEW m \in Nat, CapInv(m), Next,
           answer'.decision \in {"counter", "hold_firm", "disengage"},
           answer'.price = floor, buyers'[answer'.to].last < floor
    PROVE  floor = price \/ buyers[answer'.to].counter \in 1..floor
<1>1. PICK b \in Buyer : \E o \in Offers : \E k \in Knobs :
              HoldFirm(b, o, k) \/ Disengage(b, o, k) \/ Counter(b, o, k)
  BY Haggled
<1>2. PICK o \in Offers : \E k \in Knobs :
              HoldFirm(b, o, k) \/ Disengage(b, o, k) \/ Counter(b, o, k)
  BY <1>1
<1>3. PICK k \in Knobs : HoldFirm(b, o, k) \/ Disengage(b, o, k) \/ Counter(b, o, k)
  BY <1>2
<1> DEFINE r == Heard(b, o)
           min == EffectiveMin(b)
<1>n. /\ Sound(r) /\ min \in Int /\ o \in Nat \ {0} /\ price \in Nat /\ floor \in Nat
      /\ k.step \in Nat \ {0} /\ \A x \in Int : Whole(x) = x
  <2>1. Sound(r) /\ min \in Int
    BY HeardSound, MinInt DEF CapInv, Typed
  <2>2. o \in Nat \ {0} /\ price \in Nat /\ floor \in Nat /\ k.step \in Nat \ {0}
    BY NegotiationAssumption DEF CapInv, Typed, ItemTyped, DollarSteps
  <2>3. \A x \in Int : Whole(x) = x
    BY SMT DEF Whole, DollarSteps
  <2> QED
    BY <2>1, <2>2, <2>3
<1>s. Shown(r) \in Int /\ min >= floor
  <2>1. Shown(r) \in Int
    BY <1>n DEF Shown, Sound, BuyerRow
  <2>2. min >= floor
    BY MinInt DEF CapInv, Typed
  <2> QED
    BY <2>1, <2>2
<1>q. Shown(r) <= floor => floor = price \/ buyers[b].counter \in 1..floor
  BY ShownFloor
<1>5. CASE HoldFirm(b, o, k)
  <2>1. Tell(b, "hold_firm", Whole(Larger(Shown(r), min)))
    BY <1>5, Zenon DEF HoldFirm
  <2> HIDE DEF r, min
  <2>2. answer'.to = b /\ answer'.price = Larger(Shown(r), min)
    BY <1>n, <1>s, <2>1 DEF Tell, Larger
  <2>3. Shown(r) <= floor
    BY <1>n, <1>s, <2>2 DEF Larger
  <2> QED
    BY <1>q, <2>2, <2>3
<1>6. CASE Disengage(b, o, k)
  <2>1. Tell(b, "disengage", Whole(Shown(r)))
    BY <1>6, Zenon DEF Disengage
  <2> HIDE DEF r, min
  <2>2. answer'.to = b /\ answer'.price = Shown(r)
    BY <1>n, <1>s, <2>1 DEF Tell
  <2>3. Shown(r) <= floor
    BY <1>n, <1>s, <2>2
  <2> QED
    BY <1>q, <2>2, <2>3
<1>7. CASE Counter(b, o, k)
  <2> DEFINE next == NextCounter(r, o, k, min)
             row == [r EXCEPT !.rounds = @ + 1, !.counter = Whole(next)]
  <2>1. Tell(b, "counter", Whole(next)) /\ Save(b, row)
    BY <1>7, Zenon DEF Counter
  <2>2. next \in Int
    BY <1>n, CounterInt DEF CapInv, Typed
  <2>3. buyers'[b].last = o
    <3> DEFINE p == [r EXCEPT !.rounds = @ + 1]
               named == Whole(next)
               q == [r EXCEPT !.rounds = @ + 1, !.counter = named]
    <3>1. Save(b, q)
      BY <2>1
    <3>2. q = [p EXCEPT !.counter = named]
      BY Zenon
    <3>3. r.last = o
      BY HeardEntry DEF CapInv, Typed, Rows, Heard
    <3>4. p.last = o /\ DOMAIN p = DOMAIN r /\ {"counter", "last"} \subseteq DOMAIN r
      BY <1>n, <3>3 DEF Sound, BuyerRow
    <3> HIDE DEF p, q, named
    <3>5. q.last = o
      BY <3>2, <3>4
    <3> QED
      BY <3>1, <3>5 DEF Save, CapInv, Typed, Rows
  <2> HIDE DEF r, min, next
  <2>4. answer'.to = b /\ answer'.price = next
    BY <1>n, <2>1, <2>2 DEF Tell
  <2>5. o < floor /\ next = floor
    BY <2>3, <2>4
  <2>6. k.step * (r.rounds + 1) \in Int
    BY <1>n DEF Sound, BuyerRow
  <2>7. Walked(r, k, min) \in Int /\ Walked(r, k, min) >= floor
    BY <1>n, <1>s, <2>6 DEF Walked, Larger, Smaller
  <2>8. Shown(r) <= floor
    BY <1>n, <1>s, <2>5, <2>7 DEF NextCounter, Smaller, next
  <2> QED
    BY <1>q, <2>4, <2>8
<1> QED
  BY <1>3, <1>5, <1>6, <1>7

\* In whole dollars, whatever the seller does to the floor and the price between offers,
\* a buyer below the floor is never named it, but as the list price or where they had
\* been named no more before it was raised.
THEOREM FloorStaysPrivate == ASSUME DollarSteps, Bounded PROVE Spec => FloorNeverNamed
<1>1. PICK m \in Nat : \A x \in Buyer \cup Offers : x <= m
  BY DEF Bounded
<1>2. CapInv(m) /\ [Next]_vars
        => [answer'.decision \in {"counter", "hold_firm", "disengage"}
            /\ answer'.price = floor /\ buyers'[answer'.to].last < floor
              => floor = price \/ buyers[answer'.to].counter \in 1..floor]_vars
  BY FloorStep DEF vars
<1>3. Init => CapInv(m)
  BY CapInit
<1>4. CapInv(m) /\ [Next]_vars => CapInv(m)'
  BY <1>1, CapStep
<1> QED
  BY <1>2, <1>3, <1>4, PTL DEF Spec, FloorNeverNamed
=============================================================================
