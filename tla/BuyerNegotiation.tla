------------------------- MODULE BuyerNegotiation -------------------------
(***************************************************************************)
(* The buy-side ledger of one want: what was offered to every seller the   *)
(* want is pursued with, and the deal it ends in.  Each action is one      *)
(* transaction of store/negotiation.py, but that a call reads the budget   *)
(* in a transaction of its own before it opens the ledger (ReadBudget), so *)
(* that a correction of the budget may come between the two.               *)
(*                                                                         *)
(* Amounts count the smallest coin, Coins of them to the dollar: the       *)
(* engine works in dollars and truncates, asks and budgets need not be     *)
(* whole.                                                                  *)
(***************************************************************************)
EXTENDS Integers

CONSTANTS
    Shop,           \* the sellers' threads the want is pursued on
    Asks,           \* what sellers list and ask for
    Budgets,        \* the records set_budget may write, their source apart
    ByHand,         \* what the user may have offered before, by themselves
    Coins,          \* coins to the dollar
    Call            \* the calls that may be under way at once

ASSUME BuyerAssumption ==
    /\ Asks \subseteq Nat \ {0} /\ ByHand \subseteq Nat
    /\ Coins \in Nat \ {0}
    /\ Budgets \subseteq [max : Nat, target : Nat \ {0}, step : Nat \ {0}, rounds : Nat \ {0},
                          num : Nat, den : Nat \ {0}]
    /\ \A b \in Budgets : b.target <= b.max /\ b.max >= Coins

VARIABLES
    budget,         \* the row of budgets, without its source
    budgetBy,       \* budgets.source, "none" while there is no row
    want,           \* buyer_negotiations: its state and the thread it is committed to
    shops,          \* the rows of buyer_negotiation_sellers
    read,           \* the budget each call under way has read
    told,           \* what the last call answered
    promised        \* history: the sellers whose price was taken, and not taken back

purchase == <<budget, budgetBy, want, shops>>
buyVars  == <<purchase, read, told, promised>>

NoBudget == [max |-> 0, target |-> 0, step |-> 0, rounds |-> 0, num |-> 0, den |-> 1]
Nothing  == -1                          \* no offer, no price
NoShop   == [status |-> "none", last |-> Nothing, rounds |-> 0]
NoWord   == [to |-> Nothing, decision |-> "none", price |-> Nothing]

Ended == {"walked", "lost"}

BuyInit ==
    /\ budget = NoBudget /\ budgetBy = "none"
    /\ want = [state |-> "shopping", thread |-> Nothing]
    /\ shops = [s \in Shop |-> NoShop]
    /\ read = [c \in Call |-> NoBudget]
    /\ told = NoWord /\ promised = {}

-----------------------------------------------------------------------------
(* The engine's arithmetic.                                                *)

Dollars(x) == (x \div Coins) * Coins
Most(x, y)  == IF x >= y THEN x ELSE y
Least(x, y) == IF x <= y THEN x ELSE y

\* round(x / y) to whole dollars, a half to the even one.
Rounded(x, y) ==
    LET q == x \div (y * Coins)
        r == 2 * (x % (y * Coins))
    IN  Coins * (IF r > y * Coins \/ (r = y * Coins /\ q % 2 = 1) THEN q + 1 ELSE q)

\* The opening offer: a share of the list price, no more than the target or the budget.
Opening(listed, b) ==
    LET share == Rounded(b.num * listed, b.den)
        near  == IF b.target * b.den < b.num * listed THEN Rounded(b.target, 1) ELSE share
    IN  Most(Coins, Least(near, b.max))

\* A row as a call meets it.
Entered(s) == [shops[s] EXCEPT !.status = IF @ = "none" THEN "negotiating" ELSE @]

\* The seller asks no more than we offered.
Met(r, p) == r.last # Nothing /\ p <= r.last

\* Mutant: a counter forgets what was offered before.
NearAskForgetful(r, p, b) == Least(Most(b.target, p - b.step * Coins), b.max)

\* The counter to an ask within the budget, and to one above it.
NearAsk(r, p, b) ==
    Least(Most(Most(b.target, p - b.step * Coins), r.last), b.max)

Climb(r, p, b) ==
    LET base == IF r.last = Nothing THEN 0 ELSE r.last
    IN  Least(Least(base + b.step * Coins * (r.rounds + 1), b.max - Coins), p - Coins)

HasRounds(r, b) == r.rounds < b.rounds

Takes(r, p, b) ==
    \/ Met(r, p)
    \/ p <= b.target
    \/ p <= b.max /\ ~(HasRounds(r, b) /\ NearAsk(r, p, b) < p)

\* Mutant: a number above the budget is let through.
WithinAnyway(x, b) == TRUE

\* guard: what is named is within the budget, or the call fails and writes nothing.
Within(x, b) == x <= b.max

-----------------------------------------------------------------------------
(* What the calls share.                                                   *)

Save1(s, r) == shops' = [shops EXCEPT ![s] = r]

Say(s, decision, x) ==
    /\ told' = [to |-> s, decision |-> decision, price |-> x]
    /\ promised' = IF decision = "accept" THEN promised \cup {s} ELSE promised \ {s}

\* A call that has read a budget ends.
Ends(c) == read' = [read EXCEPT ![c] = NoBudget]

Quiet == told' = NoWord /\ UNCHANGED promised

Names(c, s, decision, x, r) ==
    /\ Within(x, read[c])
    /\ Save1(s, r) /\ Say(s, decision, x)
    /\ UNCHANGED want

Pending(r) == [r EXCEPT !.status = "deal_pending"]

-----------------------------------------------------------------------------
(* The calls.                                                              *)

\* set_budget: a default does not replace what the buyer set, nor does the buyer's own
\* without force.
SetBudget(b, by, force) ==
    /\ budgetBy = "buyer" => by = "buyer" /\ force
    /\ budget' = b /\ budgetBy' = by
    /\ Quiet /\ UNCHANGED <<want, shops, read>>

\* _budget_for_engine, in a transaction before the call's own.
ReadBudget(c) ==
    /\ read[c] = NoBudget /\ budgetBy # "none"
    /\ read' = [read EXCEPT ![c] = budget]
    /\ Quiet /\ UNCHANGED purchase

\* buyer_negotiate_seed: a thread the user began, with what they offered, if anything.
Seed(s, x, n) ==
    /\ Save1(s, [Entered(s) EXCEPT
                   !.last = IF x = Nothing THEN @ ELSE Dollars(x),
                   !.rounds = Most(@, n),
                   !.status = "negotiating"])
    /\ Quiet /\ UNCHANGED <<budget, budgetBy, want, read>>

\* buyer_negotiate_open takes the listing as it is, or makes the opening offer.
OpenTakes(c, s, p) ==
    /\ p <= read[c].max /\ Opening(p, read[c]) >= p
    /\ Names(c, s, "accept", Dollars(p), Pending(Entered(s)))

OpenOffers(c, s, p) ==
    LET x == Opening(p, read[c])
    IN  /\ ~(p <= read[c].max /\ x >= p)
        /\ Names(c, s, "opening_offer", x, [Entered(s) EXCEPT !.last = x])

\* buyer_negotiate_reply: the want is bought elsewhere; the ask is taken; countered;
\* too high and rounds are spent; or too high and the next offer is no higher.
StandDown(s) ==
    /\ want.state = "committed" /\ want.thread # s
    /\ Save1(s, Entered(s)) /\ Say(s, "stand_down", Nothing)
    /\ UNCHANGED want

StillOurs(s) == ~(want.state = "committed" /\ want.thread # s)

ReplyTakes(c, s, p) ==
    /\ StillOurs(s) /\ Takes(Entered(s), p, read[c])
    /\ Names(c, s, "accept", Dollars(p), Pending(Entered(s)))

Counters(c, s, x) ==
    Names(c, s, "counter", Dollars(x),
          [Entered(s) EXCEPT !.last = Dollars(x), !.rounds = @ + 1])

CounterNear(c, s, p) ==
    /\ StillOurs(s) /\ ~Takes(Entered(s), p, read[c]) /\ p <= read[c].max
    /\ Counters(c, s, NearAsk(Entered(s), p, read[c]))

TooHigh(c, s, p) ==
    StillOurs(s) /\ ~Met(Entered(s), p) /\ p > read[c].max

WalksAway(c, s, p) ==
    /\ TooHigh(c, s, p) /\ ~HasRounds(Entered(s), read[c])
    /\ Save1(s, [Entered(s) EXCEPT !.status = "walked"])
    /\ Say(s, "walk_away", Nothing)
    /\ UNCHANGED want

CounterHigh(c, s, p) ==
    LET x == Climb(Entered(s), p, read[c])
    IN  /\ TooHigh(c, s, p) /\ HasRounds(Entered(s), read[c])
        /\ shops[s].last # Nothing => x > shops[s].last
        /\ Counters(c, s, x)

HoldsOffer(c, s, p) ==
    /\ TooHigh(c, s, p) /\ HasRounds(Entered(s), read[c])
    /\ shops[s].last # Nothing /\ Climb(Entered(s), p, read[c]) <= shops[s].last
    /\ Names(c, s, "hold", Dollars(shops[s].last), Entered(s))

Reply(c, s, p) ==
    \/ StandDown(s) \/ ReplyTakes(c, s, p) \/ CounterNear(c, s, p)
    \/ WalksAway(c, s, p) \/ CounterHigh(c, s, p) \/ HoldsOffer(c, s, p)

\* Mutant: only sellers still being haggled with are closed.
ClosedHagglers(s) == {t \in Shop \ {s} : shops[t].status = "negotiating"}

\* The siblings an accepted deal closes.
Closed(s) == {t \in Shop \ {s} : shops[t].status \notin Ended \cup {"none"}}

\* buyer_negotiate_accept: whatever the want and the thread were before.  The deal price it
\* returns, which nothing compares with the budget, goes to the agent and not to a seller.
CommitTo(c, s) ==
    /\ shops[s].status # "none"
    /\ want' = [state |-> "committed", thread |-> s]
    /\ shops' = [t \in Shop |->
                    CASE t = s           -> [shops[t] EXCEPT !.status = "committed"]
                      [] t \in Closed(s) -> [shops[t] EXCEPT !.status = "lost"]
                      [] OTHER           -> shops[t]]
    /\ told' = [to |-> s, decision |-> "committed", price |-> Nothing]
    /\ promised' = {s}

\* What a call that has read the budget may go on to.
Speaks(c) ==
    /\ read[c] # NoBudget
    /\ \/ \E s \in Shop, p \in Asks :
            OpenTakes(c, s, p) \/ OpenOffers(c, s, p) \/ Reply(c, s, p)
       \/ \E s \in Shop : CommitTo(c, s)
    /\ Ends(c)
    /\ UNCHANGED <<budget, budgetBy>>

\* buyer_negotiate_walk.
Walk(s) ==
    /\ shops[s].status # "none"
    /\ Save1(s, [shops[s] EXCEPT !.status = "walked"])
    /\ Say(s, "walked", Nothing)
    /\ UNCHANGED <<budget, budgetBy, want, read>>

BuyNext ==
    \/ \E b \in Budgets, by \in {"default", "buyer"}, force \in BOOLEAN : SetBudget(b, by, force)
    \/ \E c \in Call : ReadBudget(c) \/ Speaks(c)
    \/ \E s \in Shop, x \in ByHand \cup {Nothing}, n \in {0, 1} : Seed(s, x, n)
    \/ \E s \in Shop : Walk(s)

BuySpec == BuyInit /\ [][BuyNext]_buyVars

-----------------------------------------------------------------------------
(* Properties.                                                             *)

ShopRow ==
    [status : {"none", "negotiating", "deal_pending", "committed"} \cup Ended,
     last : Int, rounds : Nat]

BuyTypeOK ==
    /\ budget \in Budgets \cup {NoBudget} /\ budgetBy \in {"none", "default", "buyer"}
    /\ budgetBy = "none" <=> budget = NoBudget
    /\ want \in [state : {"shopping", "committed"}, thread : Shop \cup {Nothing}]
    /\ shops \in [Shop -> ShopRow]
    /\ read \in [Call -> Budgets \cup {NoBudget}]
    /\ promised \subseteq Shop

\* A number a seller is told is within the buyer's budget, whatever the user offered by
\* hand before and however the budget was corrected since; only a call that had read
\* the budget before a correction may still go by it.
BudgetHolds ==
    [][told'.price # Nothing =>
          \/ told'.price <= budget.max
          \/ \E c \in Call : read[c] \notin {NoBudget, budget} /\ read'[c] = NoBudget]_buyVars

\* While a price is haggled over, no seller is told a number below one they were told,
\* or the user told them: no correction of the budget or of the rounds walks an offer
\* back.  (Opening the thread anew does, and taking a price is not a number of ours.)
OffersClimb ==
    [][told'.decision \in {"counter", "hold"}
          => told'.price >= Dollars(shops[told'.to].last)]_buyVars

\* When the want is committed to one seller, every other one whose price was taken is
\* closed with it, so that no two sellers wait for the same buyer: whether the thread
\* was lost, walked from, seeded or even committed to in between.
PromisedAreTold ==
    [][told'.decision = "committed"
          => \A s \in promised \ {told'.to} : shops'[s].status = "lost"]_buyVars
=============================================================================
