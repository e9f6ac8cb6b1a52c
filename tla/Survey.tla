------------------------------- MODULE Survey -------------------------------
(***************************************************************************)
(* What the seller already had on the marketplace: the look the fan-out    *)
(* waits for (browser/survey.py), the ask it ends in and its answer        *)
(* (store/survey.py, tools/survey.py), and the adoption of what the seller *)
(* says yes to, with the carousell.ai listing it is owed                   *)
(* (browser/adopt.py).  The listing is the first of posts, put up by hand; *)
(* the seller lists nothing in conversation while it is being adopted.     *)
(***************************************************************************)
EXTENDS Thing

CONSTANTS
    Looks,          \* SURVEY_MAX_ATTEMPTS
    AdoptTries,     \* ADOPT_MAX_ATTEMPTS
    RailTries       \* RAIL_MAX_ATTEMPTS

ASSUME SurveyAssumption == {Looks, AdoptTries, RailTries} \subseteq Nat \ {0}

VARIABLES
    survey,     \* the row of market_surveys
    disc,       \* the row of discovered_listings, "none" before it
    adopt       \* where the adoption is, and the carousell.ai pass it started

surveyVars == <<survey, disc, adopt>>

NoDisc == [st |-> "none", tries |-> 0, relist |-> FALSE, rail |-> "none", railTries |-> 0]
NoAdopt == [at |-> "idle", pass |-> "none"]
Surveyable == kind # "craigslist"
Hand == 1

\* Mutant of Looked: an abandoned look is a look.
LookedEnough == Surveyable => survey.state \in {"done", "abandoned"} /\ disc.st # "pending"

\* looked_first: a market that can be surveyed has been, and its ask is answered.
Looked == Surveyable => survey.state = "done" /\ disc.st # "pending"

\* already_listed_by_hand: every row counts, whatever the seller said of it.
There == disc.st # "none"

-----------------------------------------------------------------------------
(* The look and the ask.                                                   *)

\* request_market_survey: the sign-in and the fan-out both ask, and only the first is kept.
RequestSurvey ==
    /\ Surveyable /\ survey.state = "none"
    /\ survey' = [state |-> "due", tries |-> 0]
    /\ UNCHANGED <<thing, disc, adopt>>

\* _unserved: a look that could not be served, and the last of them.
Unserved ==
    /\ survey.state = "due" /\ adopt.at = "idle"
    /\ survey' = [state |-> IF survey.tries + 1 >= Looks THEN "abandoned" ELSE "due",
                  tries |-> survey.tries + 1]
    /\ UNCHANGED <<thing, disc, adopt>>

\* _survey: the seller's page is read whole.  A listing the item carries is known; one of an
\* item that is nowhere on this marketplace is that item's; any other is asked about.  What it
\* finds of a thing already sold is left out.
Look ==
    /\ survey.state = "due" /\ adopt.at = "idle"
    /\ survey' = [survey EXCEPT !.state = "done"]
    /\ LET seen == {p \in Posts : posts[p].up = "up" /\ item.url # p} IN
       IF seen = {} \/ disc.st # "none" \/ item.sold THEN UNCHANGED <<item, disc>>
       ELSE IF item.known /\ ~Listed
       THEN /\ \E p \in seen : item' = RecordUrl(p)
            /\ UNCHANGED disc
       ELSE disc' = [NoDisc EXCEPT !.st = "pending"] /\ UNCHANGED item
    /\ UNCHANGED <<kind, posts, want, adopt>>

\* decide_discovered_listings: a yes reaches what is asked, a no also what is not yet adopted.
Accept ==
    /\ disc.st = "pending"
    /\ \E relist \in BOOLEAN : disc' = [disc EXCEPT !.st = "accepted", !.relist = relist]
    /\ UNCHANGED <<thing, survey, adopt>>

Decline ==
    /\ disc.st \in {"pending", "accepted"}
    /\ disc' = [disc EXCEPT !.st = "declined"]
    /\ UNCHANGED <<thing, survey, adopt>>

\* _retry_rail_publish
RetryRail ==
    /\ disc.st = "adopted" /\ disc.rail = "failed"
    /\ disc' = [disc EXCEPT !.rail = "owed", !.railTries = 0]
    /\ UNCHANGED <<thing, survey, adopt>>

\* expire_stale_decisions
Expire ==
    /\ disc.st = "pending" /\ disc' = [disc EXCEPT !.st = "expired"]
    /\ UNCHANGED <<thing, survey, adopt>>

\* reopen_market_survey: asked for again, the rows of the earlier look go, adopted ones stay.
Reopen ==
    /\ Surveyable /\ survey' = [state |-> "due", tries |-> 0]
    /\ disc' = IF disc.st = "adopted" THEN disc ELSE NoDisc
    /\ UNCHANGED <<thing, adopt>>

-----------------------------------------------------------------------------
(* A yes becomes an item.                                                  *)

\* Mutant of Adopts: the item is written whatever the seller said meanwhile.
AdoptsAnyway(next, owed) ==
    /\ item' = next
    /\ disc' = [disc EXCEPT !.st = "adopted", !.rail = IF owed THEN "owed" ELSE "none"]

\* adopt_discovered_listing: the row is adopted with the item that carries its URL, in one
\* transaction, and only where it is still accepted.
Adopts(next, owed) ==
    IF disc.st = "accepted"
    THEN /\ item' = next
         /\ disc' = [disc EXCEPT !.st = "adopted", !.rail = IF owed THEN "owed" ELSE "none"]
    ELSE UNCHANGED <<item, disc>>

\* _adopt_one: an item that carries this listing, or is the same thing, is linked.
AdoptLinks ==
    /\ disc.st = "accepted" /\ adopt.at = "idle" /\ disc.tries < AdoptTries
    /\ item.known /\ (item.url = Hand \/ (~Listed /\ ~item.sold))
    /\ Adopts(RecordUrl(Hand), disc.relist /\ ~item.rail)
    /\ UNCHANGED <<kind, posts, want, survey, adopt>>

\* Its page is read, which takes a while.
AdoptReads ==
    /\ disc.st = "accepted" /\ adopt.at = "idle" /\ disc.tries < AdoptTries /\ ~item.known
    /\ adopt' = [adopt EXCEPT !.at = "reading"]
    /\ UNCHANGED <<thing, survey, disc>>

\* The item is made from what the page says; without photographs it is not relisted.
AdoptWrites ==
    /\ adopt.at = "reading" /\ posts[Hand].up = "up"
    /\ \E photos \in BOOLEAN :
         Adopts([item EXCEPT !.known = TRUE, !.url = Hand, !.rec = posts[Hand].shows],
                disc.relist /\ photos)
    /\ adopt' = [adopt EXCEPT !.at = "idle"]
    /\ UNCHANGED <<kind, posts, want, survey>>

\* fail_discovered_listing, which does not look at where the row is: no longer for sale, or no
\* price to be read, or retired at its last attempt.
AdoptFails ==
    /\ \/ adopt.at = "reading"
       \/ disc.st = "accepted" /\ adopt.at = "idle" /\ disc.tries >= AdoptTries
    /\ disc' = IF disc.st = "none" THEN disc ELSE [disc EXCEPT !.st = "failed"]
    /\ adopt' = [adopt EXCEPT !.at = "idle"]
    /\ UNCHANGED <<thing, survey>>

\* _retry_or_fail: the page would not read.
AdoptRetries ==
    /\ adopt.at = "reading"
    /\ adopt' = [adopt EXCEPT !.at = "idle"]
    /\ disc' = IF disc.st = "none" THEN disc
               ELSE IF disc.tries + 1 >= AdoptTries
               THEN [disc EXCEPT !.st = "failed", !.tries = @ + 1]
               ELSE [disc EXCEPT !.tries = @ + 1]
    /\ UNCHANGED <<thing, survey>>

-----------------------------------------------------------------------------
(* The carousell.ai listing an adopted one is owed.                        *)

\* _enqueue_owed: the item is there already; or it can never be listed there; or its pass is
\* queued, once no other publish is in flight.
RailIsThere ==
    /\ disc.rail = "owed" /\ item.rail
    /\ disc' = [disc EXCEPT !.rail = "done"]
    /\ UNCHANGED <<thing, survey, adopt>>

RailRefused ==
    /\ disc.rail = "owed" /\ ~item.rail
    /\ disc' = [disc EXCEPT !.rail = "failed"]
    /\ UNCHANGED <<thing, survey, adopt>>

RailEnqueues(inFlight) ==
    /\ disc.rail = "owed" /\ ~item.rail /\ ~inFlight
    /\ adopt.at = "idle" /\ adopt.pass \in {"none", "ended"}
    /\ adopt' = [at |-> "queueing", pass |-> "running"]
    /\ UNCHANGED <<thing, survey, disc>>

\* set_rail_publish_queued, a transaction of its own.
RailQueued ==
    /\ adopt.at = "queueing" /\ adopt' = [adopt EXCEPT !.at = "idle"]
    /\ disc' = [disc EXCEPT !.rail = "queued", !.railTries = @ + 1]
    /\ UNCHANGED <<thing, survey>>

\* The pass lists the item on carousell.ai, or ends without.
RailPassEnds ==
    /\ adopt.pass = "running" /\ adopt' = [adopt EXCEPT !.pass = "ended"]
    /\ \E listed \in BOOLEAN : item' = [item EXCEPT !.rail = item.rail \/ listed]
    /\ UNCHANGED <<kind, posts, want, survey, disc>>

\* _settle_queued: by the URL and never by the pass's exit code.
SettleRail ==
    /\ disc.rail = "queued" /\ adopt.pass = "ended" /\ adopt.at = "idle"
    /\ disc' = [disc EXCEPT !.rail = IF item.rail THEN "done"
                                     ELSE IF disc.railTries < RailTries THEN "owed" ELSE "failed"]
    /\ UNCHANGED <<thing, survey, adopt>>

SurveyTypes ==
    /\ survey \in [state : {"none", "due", "done", "abandoned"}, tries : 0..Looks]
    /\ disc \in [st : {"none", "pending", "accepted", "declined", "expired", "adopted", "failed"},
                 tries : 0..AdoptTries, relist : BOOLEAN, railTries : 0..RailTries,
                 rail : {"none", "owed", "queued", "done", "failed"}]
    /\ adopt \in [at : {"idle", "reading", "queueing"}, pass : {"none", "running", "ended"}]
=============================================================================
