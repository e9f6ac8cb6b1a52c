------------------------------ MODULE NextBuyer ------------------------------
(***************************************************************************)
(* The seller's tap on a buyer-backed-out notice, composed with the ledger *)
(* it acts on.  A withdrawal asks whether to sell to the next buyer; the   *)
(* tap (tools/negotiate.py, sell_to_next_buyer) holds the item for them,   *)
(* mints a checkout link, sends it and records that it went, or lets the   *)
(* hold go.  Each of these is a step of its own, between which every other *)
(* call on the item may come, and after any of which the process may die.  *)
(***************************************************************************)
EXTENDS Negotiation, Sequences

CONSTANTS
    Tapper,         \* the calls of sell_to_next_buyer that may run at once
    LinkPrices,     \* the prices a reply may ask a checkout link for
    MaxAsks,        \* bound: the notices that ask about a next buyer
    MaxSends,       \* bound: the times one notice's link is sent
    MaxAccidents    \* bound: the taps killed and the sends that raise with the link out

ASSUME NextBuyerAssumption ==
    /\ LinkPrices \subseteq Nat \ {0} /\ MaxAsks \in Nat /\ MaxSends \in Nat
    /\ MaxAccidents \in Nat

VARIABLES
    asks,           \* the rows of next_buyer_asks, by notice
    links,          \* the rows of checkouts, as <<buyer, price>>
    tap,            \* what each call of the tap is about to do
    reached,        \* history: how often the link of each notice may have gone out
    ours,           \* history: the notice whose tap made the hold that stands, or 0
    deaths,         \* the taps killed so far
    raised          \* the sends that raised after the page took the link so far

taps    == <<asks, links, tap, reached, deaths, raised>>
allVars == <<vars, taps, ours>>

Idle == [at |-> "idle", ask |-> 0, amount |-> 0, mine |-> FALSE]

NextBuyerInit ==
    /\ Init
    /\ asks = <<>> /\ links = {}
    /\ tap = [c \in Tapper |-> Idle]
    /\ reached = [n \in 1..MaxAsks |-> 0]
    /\ ours = 0 /\ deaths = 0 /\ raised = 0

\* A hold stays a tap's until it moves or ends.
KeepOurs == ours' = IF front' = front /\ state' = "reserved_provisional" THEN ours ELSE 0

-----------------------------------------------------------------------------
(* The ledger's calls that write the asks and the links too.               *)

\* The seller is told of a buyer who had an offer or a link; when the item was theirs
\* to give up, the notice asks about the next one.
BuyerWithdrew(b) ==
    LET next == BestStanding(Gone(b), Buyer)
        told == \/ buyers[b].status # "none" /\ Stands(buyers[b])
                \/ \E l \in links : l[1] = b
        asked == front.to = b /\ told /\ next # {}
    IN  /\ Withdraw(b)
        /\ asked => Len(asks) < MaxAsks
        /\ asks' = IF asked
                   THEN LET c == CHOOSE c \in next : TRUE
                        IN  Append(asks, [to |-> c, offer |-> buyers[c].highest,
                                          sent |-> FALSE])
                   ELSE asks
        /\ UNCHANGED <<links, tap, reached, deaths, raised>>

\* carousell_ai_create_checkout_link: one link for a buyer and a price, past the floor
\* gate, or the rail refuses.
CreateLink(b, p) ==
    /\ <<b, p>> \notin links /\ buyers[b].status # "withdrew"
    /\ FloorGate(p)
    /\ links' \in {links, links \cup {<<b, p>>}}
    /\ UNCHANGED <<asks, tap, reached, deaths, raised>>

LedgerCall ==
    /\ \/ \E b \in Buyer, o \in Offers : NegotiateOffer(b, o)
       \/ \E b \in Buyer : ConfirmBid(b) \/ ConfirmSold(b)
       \/ Release
       \/ \E f \in Floors, by \in {"default", "seller"} : SetFloor(f, by)
    /\ UNCHANGED taps

-----------------------------------------------------------------------------
(* The tap.                                                                *)

To(c) == asks[tap[c].ask].to

Step(c, at) == tap' = [tap EXCEPT ![c].at = at]

\* Why the buyer a notice named can no longer have the item.
StaleTap(ask) ==
    \/ state = "sold"
    \/ ~Stands(buyers[ask.to])
    \/ front # NoFront /\ front.to # ask.to
    \/ buyers[ask.to].highest < ask.offer

\* The hold a tap makes: a confirmed bid when it is one.
Reserve(b, amount) ==
    LET isBid == bidding /\ amount > price
        row   == [buyers EXCEPT ![b].status = IF isBid THEN "won" ELSE "front_runner"]
    IN  /\ state' = "reserved_provisional"
        /\ front' = [to |-> b, amount |-> amount, kind |-> IF isBid THEN "bid" ELSE "fcfs"]
        /\ buyers' = IF isBid THEN Others(row, b, "outbid") ELSE row
        /\ UNCHANGED bidding

TapReserve(c, n) ==
    LET b      == asks[n].to
        held   == front.to = b /\ state = "reserved_provisional"
        amount == IF held THEN front.amount ELSE buyers[b].highest
    IN  /\ tap[c].at = "idle" /\ ~asks[n].sent /\ ~StaleTap(asks[n])
        /\ tap' = [tap EXCEPT ![c] = [at |-> "held", ask |-> n, amount |-> amount,
                                      mine |-> ~held]]
        /\ IF held THEN UNCHANGED ledger /\ ours' = ours
                   ELSE Reserve(b, amount) /\ ours' = n
        /\ Silent
        /\ UNCHANGED <<item, pricing, asks, links, reached, deaths, raised>>

\* A link already issued is handed out again; a new one is not minted for a buyer who
\* has withdrawn.  The floor is not read.
TapMint(c) ==
    /\ tap[c].at = "held"
    /\ <<To(c), tap[c].amount>> \in links \/ buyers[To(c)].status # "withdrew"
    /\ links' = links \cup {<<To(c), tap[c].amount>>}
    /\ Step(c, "minted") /\ Silent
    /\ UNCHANGED <<item, ledger, pricing, asks, reached, ours, deaths, raised>>

\* Mutant: a link that cannot be minted ends the tap with the hold in place.
TapMintFailsHeld(c) ==
    /\ tap[c].at = "held" /\ <<To(c), tap[c].amount>> \notin links
    /\ tap' = [tap EXCEPT ![c] = Idle] /\ Silent
    /\ UNCHANGED <<item, ledger, pricing, asks, links, reached, ours, deaths, raised>>

TapMintFails(c) ==
    /\ tap[c].at = "held" /\ <<To(c), tap[c].amount>> \notin links
    /\ Step(c, "failed") /\ Silent
    /\ UNCHANGED <<item, ledger, pricing, asks, links, reached, ours, deaths, raised>>

\* Sent, or typed and not read back.
TapSend(c) ==
    /\ tap[c].at = "minted" /\ reached[tap[c].ask] < MaxSends
    /\ reached' = [reached EXCEPT ![tap[c].ask] = @ + 1]
    /\ Step(c, "sent") /\ Silent
    /\ UNCHANGED <<item, ledger, pricing, asks, links, ours, deaths, raised>>

\* Refused, blocked, or failed before the page took it: the link did not go out.
TapSendFails(c) ==
    /\ tap[c].at = "minted"
    /\ Step(c, "failed") /\ Silent
    /\ UNCHANGED <<item, ledger, pricing, asks, links, reached, ours, deaths, raised>>

\* The call that presses send raises although the page took the link.  The sink's
\* handler reads that as never attempted, the intent stays pending, and the tap is told
\* send_failed: it goes on to let go, with the link out.
TapSendRaises(c) ==
    /\ tap[c].at = "minted" /\ reached[tap[c].ask] < MaxSends
    /\ deaths + raised < MaxAccidents
    /\ reached' = [reached EXCEPT ![tap[c].ask] = @ + 1]
    /\ raised' = raised + 1
    /\ Step(c, "failed") /\ Silent
    /\ UNCHANGED <<item, ledger, pricing, asks, links, ours, deaths>>

\* Mutant: only a link that was read back is recorded as sent.
MarkConfirmed(c) ==
    /\ tap[c].at = "sent"
    /\ \E sure \in BOOLEAN : asks' = [asks EXCEPT ![tap[c].ask].sent = sure]
    /\ tap' = [tap EXCEPT ![c] = Idle] /\ Silent
    /\ UNCHANGED <<item, ledger, pricing, links, reached, ours, deaths, raised>>

MarkSent(c) ==
    /\ tap[c].at = "sent"
    /\ asks' = [asks EXCEPT ![tap[c].ask].sent = TRUE]
    /\ tap' = [tap EXCEPT ![c] = Idle] /\ Silent
    /\ UNCHANGED <<item, ledger, pricing, links, reached, ours, deaths, raised>>

\* Mutant: the hold is undone whoever has it by now.
StillAnyones(c) == state = "reserved_provisional"

StillTheirs(c) == front.to = To(c) /\ state = "reserved_provisional"

\* A hold this call made is undone, if the item is still held for that buyer.
LetGo(c) ==
    /\ tap[c].at = "failed"
    /\ IF tap[c].mine /\ StillTheirs(c)
       THEN Reopen(Unheld(buyers, {To(c)})) ELSE UNCHANGED ledger
    /\ tap' = [tap EXCEPT ![c] = Idle] /\ Silent
    /\ KeepOurs
    /\ UNCHANGED <<item, pricing, asks, links, reached, deaths, raised>>

\* The pass running the tap is killed.
TapDies(c) ==
    /\ tap[c].at # "idle" /\ deaths + raised < MaxAccidents
    /\ deaths' = deaths + 1
    /\ tap' = [tap EXCEPT ![c] = Idle] /\ Silent
    /\ UNCHANGED <<item, ledger, pricing, asks, links, reached, ours, raised>>

TapStep(c) ==
    \/ \E n \in DOMAIN asks : TapReserve(c, n)
    \/ TapMint(c) \/ TapMintFails(c) \/ TapSend(c) \/ TapSendFails(c) \/ TapSendRaises(c)
    \/ MarkSent(c) \/ LetGo(c) \/ TapDies(c)

NextBuyerNext ==
    \/ (LedgerCall \/ (\E b \in Buyer : BuyerWithdrew(b))
          \/ (\E b \in Buyer, p \in LinkPrices : CreateLink(b, p))) /\ KeepOurs
    \/ \E c \in Tapper : TapStep(c)

NextBuyerSpec == NextBuyerInit /\ [][NextBuyerNext]_allVars

-----------------------------------------------------------------------------
(* Properties, for one tap at a time.                                      *)

Quiet == \A c \in Tapper : tap[c].at = "idle"

\* "A failed tap never leaves the item reserved for nobody's link": while no tap is
\* running and none was killed, a hold a tap made stands only for a link that may have
\* reached its buyer.
NobodysHold == Reserved /\ ours # 0 /\ Quiet /\ deaths = 0 => reached[ours] > 0

\* "Never sent twice, since the one thing worse than an unconfirmed link is the same
\* link twice": however often the seller taps the notice, every link after the first was
\* paid for by a tap killed before it could record the one before, or by a send that
\* raised although the page had taken it and so was answered as not sent.
LinkedOnce == \A n \in 1..MaxAsks : reached[n] <= 1 + deaths + raised

\* A tap, however stale its notice and however many taps before it were killed, takes
\* the item from nobody: it moves the hold only to or from the buyer the notice named,
\* and never of a sold item.
TapTakesNothing ==
    [][\A c \in Tapper :
          tap'[c] # tap[c] /\ holding' # holding
             => LET n == IF tap[c].at = "idle" THEN tap'[c].ask ELSE tap[c].ask
                IN  state # "sold" /\ front.to \in {Nobody, asks[n].to}]_allVars
=============================================================================
