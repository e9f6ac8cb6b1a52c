---------------------------- MODULE MarketWatch ----------------------------
(***************************************************************************)
(* One marketplace and the lanes that look at it: the doorbell that hears  *)
(* it ring (browser/doorbell.py), the read lane that visits it             *)
(* (browser/inbox.py), the block that stops both when the marketplace says *)
(* so (store/browser.py, browser/blindness.py), and the connect lane that  *)
(* serves the seller's taps on Sign in and Check again                     *)
(* (browser/connect.py).  The page is external: it may be signed out,      *)
(* walled, unreadable or gone at any look.  Clocks are steps: a reaction   *)
(* time, a back-off or a block's window passes when its action is taken.   *)
(* What the seller is told of a spell that stops nothing (a long           *)
(* blindness, a browser that is away) is left out.                         *)
(***************************************************************************)
EXTENDS Integers, FiniteSets

CONSTANTS
    Threads,        \* conversations in the marketplace's list
    Walls,          \* the walls that stop a marketplace: a checkpoint, an automation check
    MaxSaid,        \* bound: the messages of one buyer
    BlindAfter,     \* config browser_blind_after
    Attempts,       \* RING_VISIT_ATTEMPTS
    SweepEvery,     \* config inbox_full_sweep_every
    MaxTurns,       \* bound: the deaths of the daemon, and the taps on Sign in and Check again
    MaxStrikes      \* bound: the walls met

ASSUME WatchAssumption ==
    /\ IsFiniteSet(Threads)
    /\ Walls \cap {"none", "refused", "logged_out", "logged_in", "verify", "unknown"} = {}
    /\ {BlindAfter, Attempts, SweepEvery} \subseteq Nat \ {0}
    /\ {MaxSaid, MaxTurns, MaxStrikes} \subseteq Nat

VARIABLES
    kind,       \* "timer": read every few minutes; "ring": policed, read when it rings
    said,       \* the messages each buyer has sent
    stored,     \* those the thread's rows hold
    stat,       \* the thread's status, "none" before its row
    ring,       \* each message's notification, from Chrome's log to its answer
    visit,      \* where the read lane is
    mem,        \* what the lanes keep in process
    block,      \* the row of market_blocks
    tap,        \* market_connect_requests, and where the connect lane is
    held,       \* who keeps the read lane out: "busy", a pass or a hold on the tab; "paused"
    crashes, taps

people == <<said, stat>>
bounds == <<crashes, taps>>
vars == <<kind, said, stored, stat, ring, visit, mem, block, tap, held, bounds>>

Messages == Threads \X (1..MaxSaid)
NoVisit == [at |-> "idle", began |-> {}, rows |-> {}, sweep |-> FALSE,
            failed |-> FALSE, passed |-> {}]
Fresh == [heard |-> FALSE, refused |-> 0, out |-> 0, misses |-> 0, resting |-> FALSE, tick |-> 0]
NoBlock == [cause |-> "none", live |-> FALSE, strikes |-> 0, told |-> FALSE]
NoTap == [asked |-> FALSE, at |-> "idle", found |-> "none"]

\* A marketplace met for the first time.
Init ==
    /\ kind \in {"timer", "ring"}
    /\ said = [t \in Threads |-> 0] /\ stored = [t \in Threads |-> 0]
    /\ stat = [t \in Threads |-> "none"]
    /\ ring = [m \in Messages |-> "none"]
    /\ visit = NoVisit /\ mem = Fresh /\ block = NoBlock /\ tap = NoTap
    /\ held = "no" /\ crashes = 0 /\ taps = 0

-----------------------------------------------------------------------------
(* The buyers, the seller, the clocks.                                     *)

\* A message may be shown as a notification, or not.
BuyerWrites(t) ==
    /\ said[t] < MaxSaid
    /\ said' = [said EXCEPT ![t] = @ + 1]
    /\ \E shown \in {"none"} \cup (IF kind = "ring" THEN {"shown"} ELSE {}) :
         ring' = [ring EXCEPT ![<<t, said[t] + 1>>] = shown]
    /\ UNCHANGED <<kind, stored, stat, visit, mem, block, tap, held, bounds>>

\* A thread begins, or ceases, to wait on the seller.
Escalates(t) ==
    /\ stat[t] # "none"
    /\ stat' = [stat EXCEPT ![t] = IF @ = "active" THEN "escalated" ELSE "active"]
    /\ UNCHANGED <<kind, said, stored, ring, visit, mem, block, tap, held, bounds>>

\* request_market_connect: a newer tap replaces the one that waits.
Taps ==
    /\ crashes + taps < MaxTurns
    /\ taps' = taps + 1
    /\ tap' = [tap EXCEPT !.asked = TRUE]
    /\ UNCHANGED <<kind, people, stored, ring, visit, mem, block, held, crashes>>

\* browser_busy: a pass is enqueued or settles, a hold is taken, given back or expires; or the
\* seller pauses the lanes, the connect lane excepted.
Hold(by) ==
    /\ held = "no" /\ held' = by
    /\ UNCHANGED <<kind, people, stored, ring, visit, mem, block, tap, bounds>>

LetGo ==
    /\ held # "no" /\ held' = "no"
    /\ UNCHANGED <<kind, people, stored, ring, visit, mem, block, tap, bounds>>

\* The reaction time a ring is given has passed.
ComesDue(m) ==
    /\ ring[m] = "heard"
    /\ ring' = [ring EXCEPT ![m] = "due"]
    /\ UNCHANGED <<kind, people, stored, visit, mem, block, tap, held, bounds>>

RetryIsUp ==
    /\ mem.resting
    /\ mem' = [mem EXCEPT !.resting = FALSE]
    /\ UNCHANGED <<kind, people, stored, ring, visit, block, tap, held, bounds>>

\* Its row stays, with its strikes and its telling.  One for a signed-out session has no window.
Expires ==
    /\ block.live /\ block.cause # "logged_out"
    /\ block' = [block EXCEPT !.live = FALSE]
    /\ UNCHANGED <<kind, people, stored, ring, visit, mem, tap, held, bounds>>

\* The daemon dies and comes back: rows stay, and what the lanes kept in process is gone.
Dies ==
    /\ crashes + taps < MaxTurns
    /\ crashes' = crashes + 1
    /\ visit' = NoVisit /\ mem' = Fresh
    /\ tap' = [NoTap EXCEPT !.asked = tap.asked]
    /\ UNCHANGED <<kind, people, stored, ring, block, held, taps>>

-----------------------------------------------------------------------------
(* Telling the seller, and stopping.                                       *)

\* block_market: the same cause again is a strike; another cause is another incident, untold.
BlockMarket(cause) ==
    /\ block.strikes < MaxStrikes
    /\ block' = [cause |-> cause, live |-> TRUE, strikes |-> block.strikes + 1,
                 told |-> block.told /\ block.cause = cause]

\* report_market_block_once, in a transaction of its own.
Untold == block.cause # "none" /\ ~block.told

ReportBlockOnce ==
    block' = IF Untold THEN [block EXCEPT !.told = TRUE] ELSE block

-----------------------------------------------------------------------------
(* The doorbell.                                                           *)

Shown == {m \in Messages : ring[m] = "shown"}

\* One look.  What was shown before the first of this process may be too old to answer.
DoorbellHears ==
    /\ kind = "ring" /\ held # "paused"
    /\ \E stale \in {{}} \cup (IF mem.heard THEN {} ELSE {Shown}) :
         ring' = [m \in Messages |-> IF m \notin Shown THEN ring[m]
                                     ELSE IF m \in stale THEN "answered" ELSE "heard"]
    /\ mem' = [mem EXCEPT !.heard = TRUE]
    /\ UNCHANGED <<kind, people, stored, visit, block, tap, held, bounds>>

-----------------------------------------------------------------------------
(* A visit.                                                                *)

Owed == \E m \in Messages : ring[m] = "due"
Due == ~block.live /\ (kind = "ring" => ~mem.resting /\ Owed)
Ticks == visit.at = "idle" /\ tap.at # "look" /\ held = "no" /\ Due

InboxLane ==
    /\ Ticks
    /\ visit' = [NoVisit EXCEPT !.at = "open",
                   !.began = {m \in Messages : ring[m] \in {"heard", "due"}}]
    /\ UNCHANGED <<kind, people, stored, ring, mem, block, tap, held, bounds>>

\* Mutant: whatever has rung by the end of the visit counts as read for.
SettleVisit_All(m, clean) ==
    LET misses == IF clean THEN 0 ELSE m.misses + 1
        over   == clean \/ misses >= Attempts
    IN  /\ visit' = NoVisit
        /\ IF kind = "timer" THEN mem' = m /\ UNCHANGED ring
           ELSE /\ mem' = [m EXCEPT !.misses = IF over THEN 0 ELSE misses, !.resting = ~over]
                /\ ring' = [r \in Messages |->
                     IF over /\ ring[r] \in {"heard", "due"} THEN "answered" ELSE ring[r]]

\* Mutant: a visit that could not read is tried again for good.
SettleVisit_Forever(m, clean) ==
    /\ visit' = NoVisit
    /\ IF kind = "timer" THEN mem' = m /\ UNCHANGED ring
       ELSE /\ mem' = [m EXCEPT !.resting = ~clean]
            /\ ring' = [r \in Messages |->
                 IF clean /\ r \in visit.began /\ ring[r] \in {"heard", "due"}
                 THEN "answered" ELSE ring[r]]

\* _settle_visit, in the finally of every visit a ring asked for: what had been heard before it
\* began is answered by a visit that read all it opened, and let go by the last that could not.
SettleVisit(m, clean) ==
    LET misses == IF clean THEN 0 ELSE m.misses + 1
        over   == clean \/ misses >= Attempts
    IN  /\ visit' = NoVisit
        /\ IF kind = "timer" THEN mem' = m /\ UNCHANGED ring
           ELSE /\ mem' = [m EXCEPT !.misses = IF over THEN 0 ELSE misses, !.resting = ~over]
                /\ ring' = [r \in Messages |->
                     IF over /\ r \in visit.began /\ ring[r] \in {"heard", "due"}
                     THEN "answered" ELSE ring[r]]

\* _block_market begins: the row first, the telling after it.
Stops(m, cause) ==
    /\ BlockMarket(cause)
    /\ mem' = m /\ visit' = [visit EXCEPT !.at = "tell"]
    /\ UNCHANGED <<stored, ring>>

TellStopped ==
    /\ visit.at = "tell"
    /\ ReportBlockOnce
    /\ SettleVisit(mem, FALSE)
    /\ UNCHANGED <<kind, people, stored, tap, held, bounds>>

\* _count_blind: refusals in a row stop a policed market, no other blindness does.
CountBlind(m, refusal) ==
    LET k == IF refusal /\ kind = "ring" THEN m.refused + 1 ELSE m.refused
    IN  IF refusal /\ k >= BlindAfter THEN Stops([m EXCEPT !.refused = 0], "refused")
        ELSE /\ SettleVisit([m EXCEPT !.refused = k], FALSE)
             /\ UNCHANGED <<stored, block>>

GivesUp(m) == SettleVisit(m, FALSE) /\ UNCHANGED <<stored, block>>

\* A load past the allowance, the browser gone or our side of it, a page that will not load: at
\* any of the visit's loads.
VisitFails ==
    /\ visit.at \in {"open", "list", "read"}
    /\ CountBlind(mem, FALSE)
    /\ UNCHANGED <<kind, people, tap, held, bounds>>

\* The login probe and the wall check of the page just opened.
SignedOut ==
    /\ visit.at = "open"
    /\ IF kind = "ring"
       THEN IF mem.out + 1 >= 2 THEN Stops([mem EXCEPT !.out = 0], "logged_out")
                                ELSE GivesUp([mem EXCEPT !.out = @ + 1])
       ELSE GivesUp(mem)
    /\ UNCHANGED <<kind, people, tap, held, bounds>>

\* A state nobody could tell leaves the counters as they are.
SignedIn(state) ==
    /\ visit.at = "open"
    /\ mem' = IF state = "logged_in" THEN [mem EXCEPT !.out = 0] ELSE mem
    /\ visit' = [visit EXCEPT !.at = "list"]
    /\ UNCHANGED <<kind, people, stored, ring, block, tap, held, bounds>>

\* A wall seen by its own check, by a list read that failed on it, or in the list's answer.
Walled ==
    /\ visit.at = "list"
    /\ \E wall \in Walls, m \in {mem, [mem EXCEPT !.refused = 0]} :
         Stops(m, wall)
    /\ UNCHANGED <<kind, people, tap, held, bounds>>

\* The list abstained: refused, or for a reason the seller can do something about.
ListUnreadable ==
    /\ visit.at = "list"
    /\ \E refusal \in BOOLEAN : CountBlind(mem, refusal)
    /\ UNCHANGED <<kind, people, tap, held, bounds>>

\* The list: a row for every conversation that holds a message.
ListRead ==
    LET tick == IF kind = "timer" THEN (mem.tick + 1) % SweepEvery ELSE 0
    IN  /\ visit.at = "list"
        /\ mem' = [mem EXCEPT !.refused = 0, !.tick = tick]
        /\ visit' = [visit EXCEPT !.at = "read", !.sweep = kind = "timer" /\ tick = 0,
                                  !.rows = {<<t, said[t]>> : t \in {u \in Threads : said[u] > 0}}]
        /\ UNCHANGED <<kind, people, stored, ring, block, tap, held, bounds>>

\* The next conversation.  One of ours that is new is adopted; one that waits on the seller is
\* passed over; one whose preview is the message stored last is skipped unless it is a sweep.
CanSkip(t, n) == stat[t] = "active" /\ ~visit.sweep /\ stored[t] > 0 /\ stored[t] = n

PassOver(t, n) ==
    /\ visit.at = "read" /\ <<t, n>> \in visit.rows
    /\ stat[t] = "escalated" \/ CanSkip(t, n)
    /\ visit' = [visit EXCEPT !.rows = @ \ {<<t, n>>},
                              !.passed = IF stat[t] = "escalated" THEN @ \cup {t} ELSE @]
    /\ UNCHANGED <<kind, people, stored, ring, mem, block, tap, held, bounds>>

ReadThread(t, n) ==
    /\ visit.at = "read" /\ <<t, n>> \in visit.rows
    /\ stat[t] # "escalated" /\ ~CanSkip(t, n)
    /\ stat' = [stat EXCEPT ![t] = "active"]
    /\ \E unreadable \in BOOLEAN :
         /\ stored' = IF unreadable THEN stored ELSE [stored EXCEPT ![t] = said[t]]
         /\ visit' = [visit EXCEPT !.rows = @ \ {<<t, n>>}, !.failed = @ \/ unreadable]
    /\ UNCHANGED <<kind, said, ring, mem, block, tap, held, bounds>>

\* _clear_blind: all it opened was read.
AllClear == SettleVisit(mem, TRUE) /\ UNCHANGED <<stored, block>>

VisitEnds ==
    /\ visit.at = "read" /\ visit.rows = {}
    /\ IF visit.failed THEN CountBlind(mem, FALSE) ELSE AllClear
    /\ UNCHANGED <<kind, people, tap, held, bounds>>

-----------------------------------------------------------------------------
(* The connect lane: one tab, held exclusively across the look.            *)

TapOnly == UNCHANGED <<kind, people, stored, ring, visit, mem, held, bounds>>
Served == [NoTap EXCEPT !.asked = tap.asked]

\* Waiting behind a pass or a hold; at last the request is too old.
TapGoesStale ==
    /\ tap.at = "idle" /\ tap.asked /\ held = "busy"
    /\ tap' = NoTap
    /\ TapOnly /\ UNCHANGED <<block>>

\* open_and_probe, with the tab to itself.
Probe ==
    /\ tap.at = "idle" /\ tap.asked /\ held # "busy" /\ visit.at \in {"idle", "tell"}
    /\ tap' = [tap EXCEPT !.at = "look"]
    /\ TapOnly /\ UNCHANGED <<block>>

\* Our side of the browser is gone, and the request waits for the next tick.
ProbeDetached ==
    /\ tap.at = "look" /\ crashes < MaxTurns
    /\ crashes' = crashes + 1
    /\ tap' = Served
    /\ UNCHANGED <<kind, people, stored, ring, visit, mem, block, held, taps>>

ProbeFails ==
    /\ tap.at = "look"
    /\ tap' = NoTap
    /\ TapOnly /\ UNCHANGED <<block>>

\* The market's row is deleted, whichever tap it is from by now.
Probed ==
    /\ tap.at = "look"
    /\ \E found \in Walls \cup {"verify", "logged_in", "logged_out", "unknown"} :
         tap' = [asked |-> FALSE, at |-> "serve", found |-> found]
    /\ TapOnly /\ UNCHANGED <<block>>

\* _settle_block: a wall that still stands renews the block.
StillWalled ==
    /\ tap.at = "serve" /\ tap.found \in Walls
    /\ BlockMarket(tap.found)
    /\ tap' = [tap EXCEPT !.at = "tell", !.found = "none"]
    /\ TapOnly

TapTold ==
    /\ tap.at = "tell"
    /\ ReportBlockOnce
    /\ tap' = Served
    /\ TapOnly

\* Clean and signed in: the only look that clears a block.
Unblocks ==
    /\ tap.at = "serve" /\ tap.found = "logged_in" /\ block.live
    /\ block' = NoBlock
    /\ tap' = Served
    /\ TapOnly

\* Signed in, or the sign-in page is open, or nothing was proved.
Reports ==
    /\ tap.at = "serve" /\ tap.found \notin Walls
    /\ block.live => tap.found # "logged_in"
    /\ tap' = Served
    /\ TapOnly /\ UNCHANGED <<block>>

-----------------------------------------------------------------------------

Visiting ==
    \/ InboxLane \/ TellStopped \/ VisitFails \/ SignedOut \/ Walled \/ ListUnreadable
    \/ ListRead \/ VisitEnds
    \/ \E state \in {"logged_in", "unknown"} : SignedIn(state)
    \/ \E t \in Threads, n \in 1..MaxSaid : PassOver(t, n) \/ ReadThread(t, n)

Connecting ==
    \/ TapGoesStale \/ Probe \/ ProbeDetached \/ ProbeFails \/ Probed \/ StillWalled \/ TapTold \/ Unblocks
    \/ Reports

Next ==
    \/ Visiting \/ Connecting \/ DoorbellHears \/ Taps
    \/ \E t \in Threads : BuyerWrites(t) \/ Escalates(t)
    \/ \E m \in Messages : ComesDue(m)
    \/ Hold("busy") \/ Hold("paused") \/ LetGo \/ RetryIsUp \/ Expires \/ Dies

Spec == Init /\ [][Next]_vars

\* The lanes get their turns, again and again whenever neither a pause, a pass nor a hold is in
\* the way, and none of those lasts for ever; clocks run.
Fairness ==
    /\ SF_vars(InboxLane) /\ WF_vars(Visiting /\ ~InboxLane) /\ WF_vars(Connecting /\ ~Probe)
    /\ SF_vars(DoorbellHears)
    /\ WF_vars(LetGo) /\ WF_vars(RetryIsUp)
    /\ \A m \in Messages : WF_vars(ComesDue(m))

FairSpec == Spec /\ Fairness
-----------------------------------------------------------------------------
(* Properties.                                                             *)

TypeOK ==
    /\ kind \in {"timer", "ring"}
    /\ said \in [Threads -> 0..MaxSaid] /\ stored \in [Threads -> 0..MaxSaid]
    /\ stat \in [Threads -> {"none", "active", "escalated"}]
    /\ ring \in [Messages -> {"none", "shown", "heard", "due", "answered"}]
    /\ visit.at \in {"idle", "open", "list", "read", "tell"} /\ visit.rows \subseteq Messages
    /\ mem.refused \in 0..BlindAfter /\ mem.misses \in 0..Attempts
    /\ block.strikes \in 0..MaxStrikes
    /\ tap.at \in {"idle", "look", "serve", "tell"}
    /\ held \in {"no", "busy", "paused"}

\* A ring is spent only on a look at what rang: when it is answered its message is stored, or
\* its thread waits on the seller and was passed over, or it is let go by the last of the visits
\* it is given.  A message that lands while the list is being read keeps a ring of its own, across
\* walls, blind reads and restarts (_settle_visit, answer_rings, record_rings).
AnsweredWasRead ==
    [][\A m \in Messages :
         ring[m] \in {"heard", "due"} /\ ring'[m] = "answered" =>
           \/ stored[m[1]] >= m[2]
           \/ m[1] \in visit.passed
           \/ mem.misses + 1 >= Attempts]_vars

\* A ring that is due does not stay owed: it is answered or let go, or the market is stopped,
\* though visits fail and the daemon dies (_due_markets, RING_RETRY_SEC, RING_VISIT_ATTEMPTS).
RingIsVisited ==
    \A m \in Messages : ring[m] = "due" ~> ring[m] = "answered" \/ block.live
=============================================================================
