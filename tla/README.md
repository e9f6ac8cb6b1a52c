# Sellee in TLA+

Sellee is a daemon that sells (and buys) second-hand items for one person. It
reads buyers' messages from marketplaces it drives through a browser and from an
email rail, and talks to the seller over a chat channel; agent passes decide what
to say and call *tools*, and the tools write to SQLite through store methods that
are each one `BEGIN IMMEDIATE` transaction. What is hard in it comes from three
facts: a message typed into a page may or may not have arrived; the callers that
act on one conversation, item or listing (passes, the seller's session, background
lanes, a tap on an old notice) do not wait for each other; and the daemon may die
between any two transactions, with only rows left.

This directory models the parts that carry that logic, checks each on small
instances with TLC, and proves most of what is checked for every value of the
constants with TLAPS.

Paths are relative to `src/src/sellee/` unless they begin with `src/`, `docs/` or
`tests/`.

1. [Components](#components)
2. [Modules](#modules)
3. [Runs](#runs)
4. [Where code and text disagree](#where-code-and-text-disagree)
5. [Proofs](#proofs)
6. [What is only model-checked](#what-is-only-model-checked)
7. [What is not modelled](#what-is-not-modelled)
8. [Plan](#plan)

## Components

| Component | Sources | State it keeps | Modelled in |
|---|---|---|---|
| Send bracket | `store/send.py`, `tools/reply.py`, `browser/sink.py`, `store/escalations.py` | `outbound_intents`, thread status and cursor, escalations; `_SENDING` in memory | `SendBracket`, `SendPromise` |
| Sell-side negotiation | `engines/negotiate.py`, `store/negotiation.py`, `tools/negotiate.py` | item state, floor, list price, front runner, a row per buyer | `Negotiation` |
| Next buyer, checkout | `store/negotiation.py`, `tools/negotiate.py`, `tools/checkout.py` | asks (notices), links, the hold | `NextBuyer` (partly) |
| Buy-side negotiation | `engines/buyer_negotiate.py`, `tools/buyer.py` | a want, its budget, a row per seller's thread | `BuyerNegotiation` |
| Inbox read lane | `browser/inbox.py`, `browser/reconcile.py` | messages, threads, `verify_attempts` | `SendBracket`, `MarketWatch` (partly) |
| Reply and channel passes | `store/passes.py`, `passes.py`, `store/channel.py` | passes, claims, deadlines; processes | `PassQueue`, `SellerDesk` |
| Scheduler | `scheduler.py` | due times, `running` flags, back-off | `TaskLoop` |
| Email rail | `rail/inbox.py`, `rail/sink.py`, `rail/client.py`, `rail/mail_stream.py` | cursor, relay messages, send ids | `MailRail`, `MailPromise` |
| Rail registration | `rail/registration.py`, `rail/provision.py` | mail cursor; account | `MailRail` (its mail stream; set-up is not) |
| Read-lane health | `browser/blindness.py`, `browser/doorbell.py`, `store/browser.py`, `browser/connect.py` | blind counters, blocks, strikes, rings, requests | `MarketWatch` (partly) |
| Listing revisions | `store/revisions.py`, `revise.py`, `browser/editor.py` | edits owed to a marketplace | `Revisions` |
| Cross-listing | `crosslist.py`, `craigslist_posts.py`, `browser/publisher.py`, `browser/craigslist_publisher.py` | publish rows | `CrossPost`, `PostDrive` (partly) |
| Survey and adoption | `browser/survey.py`, `browser/adopt.py`, `store/survey.py` | surveys, discovered listings | `Survey` |
| Channel | `channel/outbound.py`, `channel/presence.py`, `channel/fastpaths.py`, `channel/manager.py` | notices, inbox, indicator | `SellerDesk`, `ChannelWire`, `SettingsLedger` (partly) |
| Channel providers | `channel/telegram/*`, `channel/discord/*`, `channel/connect.py` | the channel row, token, offset | `ChannelWire` (partly) |
| Settings | `settings.py`, `store/settings.py` | proposals, changes, value in force | `SettingsLedger` |
| Browser driver | `browser/client.py`, `daemon.py` (factory) | clients, servers, the holder | `Keeper` |
| Items, photos, wants | `store/items.py`, `store/wants.py` | single rows | `Thing`, `Negotiation` (price, floor, listings) |
| Installer and update, supervisor | `installer/update.py`, `installer/materialize.py`, `supervisor.py`, `migrations/__init__.py`, `setup_cli.py` (layout and start) | `versions/`, the `current` symlink, the job and its worker, the database's schema and its snapshots | `Update` (partly) |
| Account pacing, scam, shipping, pointer, typing engines, HTTP server, events, skills | | | not modelled, see below |

How they interact: tools call store methods (transactions) and sinks (a page or
the rail). Lanes are threads of the daemon, tasks of one scheduler, and share the
browser behind one client's mutex. A pass is a subprocess that calls tools over
HTTP, so a tool call is a thread of the daemon too and may outlive the pass that
made it. Lanes talk to each other through rows only. An update is a command outside the
daemon: it stops the supervisor's job, swaps the code and waits for a heartbeat.

What makes them correct, in the code's own words or ours:

- *Bracket*: a reply recorded as sent was taken by the page, and one recorded as
  not sent was not; at most one send of a conversation is in doubt, nothing is
  said over it, and the doubt ends; the cursor passes only what the sender could
  read; an open question silences its thread.
- *Ledgers*: no decision names a price below the floor, and the floor is never
  told; a buyer never gets the item under a rival's standing offer; nobody holds
  it above list without the seller; no number named to a seller is above the
  budget, and offers only climb; those who were promised are told.
- *Tap*: it leaves no hold for a link nobody has, sends its link once as far as it
  can tell, and takes the item from nobody.
- *Desk*: only the pass in hand begins anything; every word of the seller's is answered or
  written off aloud; typing is shown for somebody; waiting buyers are served.
- *Wire*: only the seller is bound; what the bound seller says is stored before it
  can be lost; a bot greets once.
- *Rail*: nothing listed goes unread, a reply shows once and is counted as sent
  only when it is.
- *Watch*: a ring is answered by a read that could have seen its message; one that
  is due is visited.
- *Listings*: one listing of a thing; an edit is made or owed or the seller told; a
  no is a no. *Drive*: "nothing happened" is said only where nothing did; what goes
  up is what was asked.
- *Settings*: a yes in the chat applies what the seller was last asked.
- *Keeper*: a task has one run; no closed server comes back, a lane inside its
  bracket has lock, client and tab to itself, a wedged server is replaced.
- *Update*: there is code to run at every step an update may die at; one that fails
  leaves the old code running on a database it can read, with every row written before.

PROJECT.json lists under `hazards` where in the code each of these is at risk, and
which property watches it.

## Modules

| Module | Role |
|---|---|
| `SendPromise`, `SendBracket`, `SendBracketProofs` | the abstract fate of a reply; the bracket, which implements it; proofs |
| `Negotiation`, `NextBuyer`, `NegotiationProofs` | one item's ledger; the tap beside every call on it; proofs about both |
| `BuyerNegotiation` | one want's ledger |
| `PassQueue`, `SellerDesk`, `DeskProofs` | the queue of passes; the people it answers; proofs |
| `ChannelWire`, `WireProofs` | binding and hearing the seller; proofs |
| `MailPromise`, `MailRail`, `RailProofs` | the abstract fate of an email; the rail, which implements it; proofs |
| `MarketWatch` | one marketplace and the lanes that look at it |
| `Thing`, `CrossPost`, `Revisions`, `Survey`, `Listings`, `ListingsProofs` | one thing's row and posts; the three lanes on it; their composition; proofs |
| `PostDrive`, `SettingsLedger`, `Update`, `ApartProofs` | one drive of a form; one setting; the commands that replace the code; proofs about them, about `BuyerNegotiation` and about `MarketWatch` |
| `TaskLoop`, `Keeper`, `KeeperProofs` | the scheduler; the browser factory and its lanes, which are its tasks; proofs |
| `MC*` | values of the constants, views, the worlds of a run, the sentences that violation runs refute |

`Listings` composes `CrossPost`, `Revisions` and `Survey` over the variables of
`Thing`; `NextBuyer` extends `Negotiation` and lets each of its actions come between
two steps of a tap; `SellerDesk` extends `PassQueue`; `Keeper` extends `TaskLoop`,
and every step of it is a step or a stutter of the scheduler (lemma `StepTurns`).
`SendBracket` and `MailRail` instantiate their promises with a refinement mapping.

### SendBracket

One intent stands for one call of `send_reply` that reaches the reserve.

| Variable(s) | Code |
|---|---|
| `stat`, `escFrom`, `heldFrom` | `threads.status`, `escalated_from_status`, `held_from_status` |
| `ask` | the kind of the open escalation of the thread, if any |
| `inbound`, `cursor` | number of recorded messages; the reply cursor as a message number, 0 for NULL |
| `status`, `tries`, `age`, `pinned` | `outbound_intents` (`unborn` is no row yet), `verify_attempts`, time since `created_at` |
| `pc`, `job`, `named`, `given` | the locals of a `send_reply` call; `pc` in `InFlight` is membership of `_SENDING` |
| `lock`, `todo` | the browser mutex; the lane's list from `unsettled_intents` |
| pass variables | the claim of a running reply pass and its watermark |
| `page`, `taken` | external: what the marketplace shows, and what it ever accepted |
| `seen` | how far the sender of an intent could have read (history) |

In the order a reply takes them: `Admit` (status read once), `Reserve` or
`ReserveRefused`, `TakeBrowser`, `SendFails` / `PageTakes` / `CommitRaises`,
`Mark`, `VerifyFound` / `VerifyUnfound`, `Commit`. Beside them the inbox lane
(`Lane*`), the sweep, the seller's and the passes' calls (`Escalate`, `ResolveAsk`,
`Reactivate`, `Close`, `Hold`, `Release`, `RecordManual`), the pass claim, `Land`
(the page shows a message, or never does), `Tick` and `Crash`.

Texts are members of a set (equal or not is all the code asks); the pacing verdict
is a refusal at the reserve; the tail a lane reads may miss any bubble
(`TAIL_BUBBLES`); sends that open a thread are left out. `MaxFaults` bounds the
browser calls that raise after their effect, `MaxCrashes` the deaths of the daemon.

### Negotiation, NextBuyer

One action per transaction; `NegotiateOffer(b, o)` is the disjunction of the
engine's branches, each with its guard and the store's whole transition. Amounts
are coins, `Unit` to the dollar, since the engine truncates to whole dollars and
prices need not be. Buyers are numbered in id order, which is how ties break. Of a
buyer's offers only the last is read again, so a row keeps that one.
`BelowFloorError` rolls back: no step. A price change is `AdmitPrice` and
`WritePrice`, as `update_live_listing` reads the ledger in one transaction and
writes the item in another. `answer` is the last decision, for the properties that
speak of what a buyer is told. Firmness is chosen anew for each offer.

A tap of `NextBuyer` is `TapReserve` (`_stale_tap` and the hold, one transaction),
`TapMint` / `TapMintFails`, `TapSend` / `TapSendFails` / `TapSendRaises`, `MarkSent`,
or `LetGo`; any action of the ledger may come between two of them but price changes,
which are left to `Negotiation`. `TapSendRaises` is a press of *send* that raises
although the page took the link (`CommitRaises` of `SendBracket`): the tap is answered
`send_failed` and lets go, as it does when nothing was sent. `ours` says which ask the
present hold was made for, `reached` how often its link may have gone out, `deaths`
how many taps were killed and `raised` how many sends raised so; `MaxAccidents` bounds
the two together, `MaxSends` the sends of one link. `AfterSale`
says whether releases and confirmations may come on a sold item, as the code lets
them.

### BuyerNegotiation

`ReadBudget` is the transaction in which a call reads the budget; `Open`, the answers
to an ask, `TakeAsk`, `CommitTo`, `Walk`, offers by hand and corrections of the
budget are one transaction each. `CommitTo` tells a seller nothing: the `deal_price`
it returns, the price agreed or the last one offered, goes to the agent, and no budget
is held against it (`store/negotiation.py:758-760`); `BudgetHolds` is about what
sellers are told. Amounts are coins, `Coins` to the dollar.

### PassQueue, SellerDesk

`PassQueue` has a row per pass and the process it runs: enqueue, claim, start, end,
deadline, pause, stop, kill of the daemon and the stale sweep. The end of a run is
two steps, as in `run_pass`: the row is settled, then the `finally` revokes the token
(`FinishPass`, `RevokeToken`). The token is read once, as a request comes in
(`LetIn`); a call let in is in `calls` until it does its one thing, and does it
whatever has become by then of its process, row or token. Calls that change nothing
are not followed, a pass has one at a time, and `MaxCalls` bounds those at work at
once; a daemon that goes down takes them along. `SellerDesk` adds what
passes are for: the seller's messages (`channel_inbox`: queued, claimed, answered,
written off), the buyers waiting for a reply pass, the notices and the typing
indicator, with receiving, routing, the fold and the delivery as actions of their
own. A notice is delivered and then marked, in two steps. What a call does is one step
here (an intent written and committed, or left; `SendBracket` takes it apart), and the
cursor then stands where the claim of its pass ended. Sends by the seller's own
session are not counted.

### ChannelWire

The connect call (arm a nonce, register, greet), the one channel row, the manager's
provider, the Telegram poller with its long poll in flight (`PollAsks`,
`RegisterMenu` / `MenuFails`, `PollAnswered`, `ApplyAwaiting` / `ApplyBound`,
`PollGreets`), Discord's session and latch. A bound poll whose menu is not registered
asks for nothing until it is, and the hash is stamped on whatever row there is by
then. External: Telegram keeps a bot's updates until a poll asks past them; Discord
delivers to an open session or not at all. A nonce is known by its age, and one that
has lapsed or been replaced may be known to anybody.

### MailRail

A behaviour has threads of buyers or of registrations. The lane pages what changed
since the cursor, reads each thread, gives one up after `Attempts`; a send is the
call's attempts, the lane's retry, the read-back and the sweep. bazaar is external:
it keeps each thread in order, stores a send once per id, and may refuse, fail, or
answer to nobody. What makes it refuse a retry is a fact about the thread that stays:
its buyer is blocked, or the registration's address is used no more (`Blocks`); the
other refusals the code knows (`rail/sink.py:28-38`) are of a request no sender here
makes, or of an account that is taken away, and are made on a first attempt only. The refinement mapping reads a reply's fate off `status` and the
letter stored.

### MarketWatch

The doorbell hears a ring and makes it durable; the read lane visits on its timer
or when a ring comes due; what a visit finds (signed in or out, walled, unreadable,
gone) moves the blind counter, the block with its strikes, holds and pauses; the
connect lane serves taps on *Sign in* and *Check again*. Clocks are steps. A visit
passes over a conversation of an escalated thread; the others it leaves unread and
counts as answered, those `_adopt` refuses (`browser/inbox.py:478-483`) and previews
withdrawn since, are not cases of their own.

### Thing, CrossPost, Revisions, Survey, Listings

`Thing` is the row of the item and every listing ever put up, with what each shows
as a version per field. `CrossPost` is the fan-out: a publish driven through the
form (row before click, `BeforeCommit`, then `Click`, then `Settle`) or handed to a
pass; `Costs` is `_shots_spent`. `Revisions` is an edit from the tool that records
it, in two transactions, to the lane that drives it; rows are kept, and a newer edit
marks the waiting one superseded. `Survey` is the look, the ask,
the answer and the adoption. The look knows a listing for the thing's by what it is;
the code compares titles (`crosslist.py:282`, `:294-295`), so one the seller has
reworded by hand it would miss. `Listings` interleaves them under `browser_busy`, with
`Dies` taking what the lanes keep in memory. `MaxTroubles` bounds deaths, refusals,
a sale, second thoughts, takedowns and silent ends of passes together.

### PostDrive

One drive of a form, to one of three answers: nothing was created or changed,
something may have been, or it was seen. `form` fills Facebook's page, `steps` walks
Craigslist's, `edit` changes a live post. The page may show any step, keep other
words than were typed, refuse, or do what a press asks although the press fails. What Facebook
posts is what its form shows; that a marketplace keeps other words than it was given is
a case for Craigslist, whose post is read back. A failure while the old images come off
is answered as the code does (`Refusals`): the step's own refusals own up to the images
gone, a browser call that raises does not. `PublishNeedsSeller` and `PublishSignedOut` are "nothing".

### SettingsLedger

One setting and the ledger of its changes: a proposal, what approves, cancels,
undoes or expires it, and the doors that set a value at once; a door reads the value
in force and writes a transaction later.

### TaskLoop, Keeper

`TaskLoop` is the loop's claim, the workers, what an end leaves (back-off and its
float), registration and removal. `Keeper` is the factory (`daemon.py:browser_factory`)
step by step, the clients with their servers and locks, and the world: Chrome comes
back on another port, servers lose it, hang or exit, a pass needs the tab. A look at the
holder is one step, and so is a build: in the code the client and what starts it are two
writes (`daemon.py:425-426`). A lane that looks between the two, finds a client and no
command, and closes that client, is not a case of its own: `Evict` closes a client
another lane has just built only where their ports differ.

### Update

| Variable(s) | Code |
|---|---|
| `dirs`, `made` | `versions/<v>`: none, staged without its environment, whole; its mtime |
| `current` | the symlink |
| `mode`, `registered` | where the job's file lies (`login` or `manual`); the supervisor holds the job |
| `worker` | the job's process: its code, and how far its start is |
| `db` | the last migration applied; how much has been written |
| `snap` | the newest snapshot in `backups/`, and when it was taken |
| `cmd` | the locals of `perform`, `rollback` or `_run`; `since` is `migrated_after`, `was` is `was_running`; `old` is history |

An update, a rollback and a `./setup` are processes whose every step is an action,
and each may be killed after any of them; one runs at a time, and the user starts
and stops the worker by hand only between two. The worker snapshots, migrates one
transaction at a time, writes, and may die anywhere; the supervisor brings it back.
Versions are compared as numbers, `made` orders directories as their mtimes do, and
rows stand for everything a worker wrote. A rename of a staged tree does not fail,
though the command may die between two.

## Runs

`CHECK_DEADLOCK FALSE` where given: a finished call, or a bound, really is the end.
Symmetry is used for the fields of `Apart` only. A `VIEW` drops the last decision in
the ledgers' runs: no guard reads it, and the properties that do are action
properties, judged on every step. In `NextBuyer`, where there is one floor to set, it also
drops who set it, which then decides nothing. The view of `Apart` forgets the rows of edits that are
settled and owe nothing, when a version was installed that is no longer, and how the
last command ended: no guard and no property reads them.

| Run | Instance | What it shows |
|---|---|---|
| `BracketCrash` | 1 thread, 1 intent by the session, 1 crash, 1 fault, every call of the seller's | the bracket implements `SendPromise`; a doubt ends |
| `Haggle` | selling: 2 buyers, list prices 2 and 4, floors 1 and 3, offers 2 and 3, two firmnesses; buying: 2 sellers, asks 2 and 10, budgets of 11 and 8 half-dollars, offers by hand | the floor and the budget hold and are not told, rivals, climbing offers, those promised are told |
| `NextBuyer` | 2 buyers, price 3, floor 2, offers 3 and 4, 1 tapper who may tap again, 1 ask, 3 sends, 1 tap killed or send raising with the link out | holds, links, taking from nobody |
| `Desk` | four worlds (the seller's messages still to come; their words, with a stop to come; the buyers, with a stop to come; a buyer and the words): 2 passes, 2 rows, 1 thread, 2 messages, 1 stop, 1 notice by the agent, 2 calls at work at once, or 1 once the daemon has stopped | only the pass in hand begins, words are answered or written off aloud, buyers are served |
| `Wire` | 1 Telegram and 1 Discord bot, 2 arms, 2 messages, 1 crash | nobody else is bound, nothing is lost, one greeting, the seller is heard |
| `Rail` | 1 thread, 2 intents, pages of 2, 2 attempts, 2 writes | the cursor, one showing, `MailPromise` |
| `Watch` | 1 thread, 2 messages, 1 wall; blind after 2, a sweep every 2 | rings |
| `Apart` | five worlds: the bracket with 2 replies, a pass, a session, 2 messages and no crash; a shop with 2 fields, 1 edit, 2 posts, all limits 2, 2 troubles (where publish passes post, 2 of our listings and troubles together: `RecipeBudget`); a ledger of 4 changes; a drive of 10 steps with 2 images; 3 releases, the last with 2 migrations, 2 kept, 1 snapshot kept, 5 trees staged or snapshots taken, 1 row written | parts that share nothing, each with its own properties |
| `Keeper` | 3 tasks, 2 lanes, 2 workers, 2 ports, 3 clients, 2 troubles, 1 switch of providers | scheduler marks, clients, wedges |
| `ClaimMidCompose`, `ClaimOneDriver`, `ClaimTouched` | as `Rail`, `Keeper`, the drive | the sentences of the next section are false |

The bounds are small because the interesting cases need little.

- *Bracket*: its hazards are about *two* senders on *one* thread; a third meets at
  most one in flight and one in doubt, as the second does. Two senders with no
  crash are in `Apart`, one sender with a crash in `BracketCrash`; both together
  are covered by the theorems, which hold for any number of either. Grace
  periods of 0 let the sweep fire at any moment after a reserve.
- *Ledgers*: two prices and two floors on either side of each other, offers at both,
  and two rivals: every comparison the engine makes comes out both ways.
- *Tap*: one ask and one tapper who may be killed, or told that a link it sent was not,
  and tap again; any number of accidents, and for holds of tappers at once, is in the
  theorems.
- *Desk*: two passes let one meet what the one before it left, its rows, its token and a
  call of its own still at work; a stop and a death may hit either. Two calls at once are
  one of each. The worlds divide what would be too much for one run; the theorems are
  about all of it.
- *Wire*: a poll of the earlier arm is in flight while the second is made.
- *Rail*: a page that does not hold everything, a send retried once, and a second
  reply behind it.
- *Watch*: a second message and ring during the visit for the first.
- *Shop*: two troubles are a death after a refusal, or two deaths; limits of 2
  separate "again" from "over". Two posts are what `OneOfAThing` is about.
- *Drive*: ten steps are the longest way through a form and one step more.
- *Update*: a third release can be reached from the second, whose directory and
  snapshot lie behind it, and two migrations in one start put a "between" in the
  worker. Five ticks are an install, two updates and their snapshots. No worker dies
  between two migrations there (`Tears = FALSE`; see the note on updates).
- *Keeper*: three clients are two lanes' and the one that is replaced.
  `FloatExponent` stands for the failures after which `2**(n-1)` no longer fits a
  float; `MaxFailures = 0` keeps the run away from it (see the notes on the
  scheduler).

*Fairness.* Each is what the daemon's scheduler or the outside world does for as
long as the daemon lives, or its supervisor restarts it. Nothing is assumed of
senders, agents or the seller.

| Run | Assumed | Because |
|---|---|---|
| `BracketCrash` | WF of the clock and of the sweep | the sweep is a task, re-registered at every start |
| `Desk` | WF of the pass lane's and the channel lanes' steps, of a start's outcome, the deadline and the cooldown; SF of the pass lane's claim, of a delivery, and of the reply lane that passes nobody over | the lanes are tasks; `timeout_s` kills a pass; a pause, a failed delivery or a busy queue may come between two ticks again and again |
| `Wire` | WF of each step of a connect and of a poll, and of the restart; SF of `PollAnswered` and of `RegisterMenu` | a network that fails for ever hears nobody: an answer, to a poll or to the menu, comes again and again |
| `Watch` | WF of the steps of a visit, of back-offs and of windows passing; SF of the read lane and of the doorbell | the lane can be busy or the market blocked infinitely often between two openings. SF of the read lane takes for granted that Chrome comes back when it is away (`browser/inbox.py:234-238`): a tick without it reads nothing |
| `Keeper` | WF of the loop, of time, and of other tasks and passes ending; SF per lane | a worker may be taken by another task again and again. Passes are bounded by `MaxTroubles`, so a seller whose passes follow each other without a gap, which hold the replacement up for as long, is not in the run |

## Where code and text disagree

Three runs check one sentence of the code's own text each and find it false.

| Run | Sentence | What happens |
|---|---|---|
| `ClaimMidCompose` | `store/helpers.py:156`: a thread stays eligible for "a message that arrives mid-compose" (and `tests/test_relay_sink.py:271`) | on the rail, the next read of the thread finds our reply stored after that message and moves the cursor over it (`rail/inbox.py:150-156`): it is never answered |
| `ClaimOneDriver` | `daemon.py:596`: "One browser client for the whole daemon: one Chrome, one tab, one mutex" | two lanes in the factory at once, at the start or after Chrome has moved to another port, get a client each (`daemon.py:400-426`); the client that is in no holder, and its server, are closed by nobody |
| `ClaimTouched` | `browser/craigslist_publisher.py:339`: "not attempted until something may have changed the post" | a browser call that fails while the old images come off (`:505-511`, outside the `try`) becomes `ReviseNotAttempted` (`:388`), and so, once they are off, does a `PublishNotAttempted` of a later step (`:386`): the lane is told nothing changed |

Met while modelling, found in the model or the code, and kept as notes:

- *Bracket.* A crash between the page's answer and the stamp leaves a delivered
  reply `pending`, though `tools/reply.py:231` says "still `pending` means nothing was
  delivered and a retry is safe". `release_thread` reactivates an escalated thread
  around an unanswered question, which `store/threads.py:273-274` rules out (`:321`).
  A send settled late moves the cursor back over a newer reply's
  (`store/send.py:248`); held, settled late and released, it leaves an escalated
  thread with nothing to answer (`:408-409`). An open escalation of another kind
  swallows the ask about an unconfirmed send (`store/escalations.py:74`). A caller
  that is not a claimed pass and names no message moves the cursor to the newest
  one, read or not (`store/send.py:182-183`). A thread put on hold during the pacing
  wait still gets its reply (`tools/reply.py:150`). One bubble vouches for two
  replies that say the same, which is why acceptance is stated for distinct words.
- *Ledger.* A list price of 19.50 is accepted at 19 with a default floor of 19.50,
  though `engines/negotiate.py:13-15` says never under the floor (`:212`). Confirming
  the winning bid again after the sale reserves the item, though `:11` says sold is
  terminal; confirming reserves it (`tools/negotiate.py:293`) but any rival's later
  offer, lowballs too, sets it back to bidding (`engines/negotiate.py:262`). The bar
  of `bid_outbid` can lie below a floor raised since the bid. A holder who lowballs
  becomes `passed` and the item stays reserved for them. A buyer marked lost or
  released who returns with a lower offer stands at their old highest, so after a
  sale that falls through the bar can miss a bid. A repeated offer is answered with
  an old counter. `confirm_sold` may be repeated for another buyer. A deal that
  starts between the check and the write of a price change is not seen
  (`tools/revise.py:66-73`). The checkout-link tool reads the floor and not the
  ledger. An offer above list on a sold item is recorded while nothing is being
  bid, and if the seller then releases it, a tap gives that buyer the item above
  list without a confirmation: why `ApprovedBesideTaps` assumes `~AfterSale`.
- *Tap.* Killed after its send and before its mark, it sends a second link when
  tapped again (`tools/negotiate.py:157`). So does a tap whose press of *send* raised
  with the link out: `browser/sink.py:148` says "Only the steps before the commit can
  raise to here, so nothing was delivered", but `_commit` is a browser call too, the
  intent stays pending, `send_reply` answers `send_failed` (`tools/reply.py:229-237`),
  and the tap lets the hold go (`tools/negotiate.py:186-190`) of a buyer who has the
  link. So `LinkedOnce` allows one more for each tap killed and each send that raised
  so. Killed between hold and send, and failing on the retry, it leaves a
  hold for nobody's link (`:226`), so `NobodysHold` is stated for no tap killed. Its
  undoing also drops a hold the same buyer earned by an offer in between (`:212`).
  A buyer who withdraws between mint and send still gets the link. The highest offer
  ever made is compared, and the link minted at the lower amount
  (`store/negotiation.py:465-466`).
- *Buying.* `hold` uses no round, so a seller firm above budget can be held at the
  same number for ever, though the module says "walk away politely". An opening may
  name the secret maximum itself. `accept` truncates a fractional ask. The agreed
  price is dropped. Opening does not look at a committed want; walking from the
  committed thread leaves the want committed, so the others get `stand_down`. A
  counter on a walked thread leaves it walked, so a deal elsewhere does not close
  it. After an offer by hand above the budget every reply raises `AboveMaxError`. The
  budget is read in a transaction before the ledger's: the exception in
  `BudgetHolds`.
- *Desk.* A tool call let in before its pass was killed runs on beside the next pass
  (`http_server.py:165-178`, `:494`; lanes wait for processes, not for calls). A late
  reply of such a call counts as the next pass's progress, as `has_intent_for_threads`
  (`store/send.py:451-454`) asks whether any intent came and not whose, and it moves the
  cursor to where its own claim ended, behind the next one's. The token outlives the end
  of its row by a step (`passes.py:918-935`). Rows of the fast paths are stored handled. `drain_notices` waits at its
  head. A notice delivered and not marked is sent again (`channel/outbound.py:83`),
  and one in several chunks is resent whole. A `run_pass` that raises leaves its row
  running until the stale sweep. `proc_tree.py:81` matches nothing, so strays are
  not reaped. `passes.py:418` against `:405` and `:410`: a pass that is killed may
  have spoken for itself. A nudge is never sent for mail that went out before the
  escalation opened and was read after.
- *Wire.* With two Telegram bots a re-connect that crashes between the token and the
  row loses updates: `poller.tick` reads token and row separately, and
  `ingest_updates` sets `update_offset` unconditionally (`store/channel.py:196`);
  `NothingIsLost` therefore assumes one. `event_id` is unique over all bots, not
  per bot. Discord's `_latch_off` has no replay. A `/start` of a lapsed nonce is
  dropped (`channel/telegram/poller.py:164` against `http_server.py:611`), and a
  bound chat may go without its greeting (`:186-188`).
- *Rail.* The path of a message `is_already_stored` commits as `out|intent`. The
  lane's retry may deliver while the sweep is asking the seller.
- *Watch.* A ring's message in an escalated thread is passed over. Nothing reopens
  a ringing market's thread until its next ring. Visits that end in spent pages or
  no browser count as misses (`browser/inbox.py:62-64`). A recovery tick that
  opened nothing clears the blind state. `connect` clears a block with evidence
  gathered before a block placed meanwhile, and its notice may not go out
  (`_settle_block`). Deleting a request's row swallows a newer tap. A detached
  probe's request never goes stale unless the browser is busy. `browser_busy` is
  checked once per tick. `store/browser.py:136` against
  `migrations/data/0021_market_block.sql:25-29`: a market the seller stopped is not
  told again.
- *Listings.* An edit made while a publish is driven or in review is recorded and
  queued for no listing. A recipe pass that posts but cannot record the link is
  retried, hence a second listing (`OneOfAThing` excludes recipes). `crosslist.py:252`
  stays silent where `docs/browser-layer.md:937` and its own docstring (`:644`) say it
  tells. The check for a queued publish and the enqueue are two transactions. A
  crash between adoption's `enqueue_pass` and `set_rail_publish_queued` lists on the
  rail in silence, against `ACCEPTED_NOTICE` (`browser/survey.py:57`); one between
  `create_listing` and `record_listing_url` lists there twice. Adoption's twin check
  is not repeated after the page read, and `_fail` overwrites a decline.
  `finish(retry)` may put a second pending row beside a newer one.
- *Drive.* `confirm_by_title` (`browser/publisher.py:403`) claims an older listing of
  the same title while the new one is not shown yet, though ambiguity is said to
  abstain.
- *Settings.* Undo compares values, not change ids, so after A to B, B to A, A to B
  the old *Undo* works, though `store/settings.py` says only while still the key's
  latest change. Undo leaves a pending proposal alone, and approving it later
  records a stale prior value. Merges of a list are read-modify-write over two
  transactions.
- *Update.* A worker that dies between two migrations of one start snapshots the half
  migrated database at the next, and with one snapshot kept an undo puts that one back
  under the old code (`installer/update.py:206-216`, `:458-462`; `Tears`). With
  `backups_keep` 0 there is nothing to put back (`BackupsKeep`). `--rollback` after an
  undone update goes forward, to the version that failed, as it is the one installed
  last, and may restore a snapshot older than what was written since, against
  `_roll_back_to`'s docstring. Running `./setup` of the live version renews its mtime, and a later
  `--rollback` then finds no snapshot newer and starts old code on the new
  schema. A command killed while it provisions leaves a directory without its
  environment, which `previous_version` offers; a failed provisioning of the live
  version by `./setup` deletes the code `current` points at (`AlwaysCodeToRun` is about
  updates). In `login` mode an update of a stopped daemon registers its job, and so
  starts it, though `installer/update.py:381-386` leaves that to the user. `prune_versions` counts a
  version that never worked as one of those kept.
- *Keeper and scheduler.* `scheduler.py:137`: `5.0 * 2**(n-1)` raises `OverflowError` at
  the 1025th failure in a row, before `running` is cleared: the task never runs
  again (`Countable` in `MarkIsRun`). A switch of providers registers `notice_drain`
  again while the old run is in flight (`channel/manager.py:63`; `Replaceable`). A
  hung server is replaced only at its age ceiling (`browser/client.py:603`). A page that
  fails three calls with Chrome up is recycled as detached though it is healthy.
  `http.stop` comes after the browser's close.

## Proofs

TLAPS proves the theorems listed in PROJECT.json for every number of threads, senders,
buyers, sellers, passes, replies, lanes, clients and rows, and every bound. A state
invariant is proved by an inductive one: it holds at the start, each action keeps
it (one step of the proof per action), and it implies what is claimed. An action
property is proved from such an invariant at the step in question. Each inductive
invariant was first an invariant of a TLC run.

Two kinds of assumption appear. The named `ASSUME`s of the modules give the constants
their types, say that sets of identities are finite, and that a limit is positive; TLC
evaluates them in every run. A theorem's own hypotheses are in its statement, and each
excludes a behaviour that the code has and that breaks the claim; the notes above say
which.

### SendBracketProofs

`Safe` is the inductive invariant: the types, and four parts. `Assigned` says what each
sender works on and that no two work on one intent, `Exclusive` who holds the browser,
`Accepted` what the page took and which states of an intent are compatible with it,
`ClearAhead` that whoever passed the reserve has no other open send of its thread. It
is needed because `OneUnknownSend` alone does not know that the sender about to mark
its send unverified is the only one in flight. `Safety`, `TypeCorrect` and
`OneUnknown` need no hypothesis. `CommittedTaken` and `Refinement` assume
`DistinctWords`, as one bubble vouches for two equal replies. `PendingUntaken` and
`TalksPastNothing` assume no crash and no commit that fails, `AsksSilence` that
`release_thread` is not called, `WitnessedAlways` and `CursorSeen` that only claimed
passes leave the answered message unnamed.

`Refinement` maps an intent's row, together with where its sender is, to the fate that
`SendPromise` gives a reply, and shows that every action is a step of the promise or a
stutter.

### NegotiationProofs

Each property has the invariant it needs, over the types (`LedgerTyped`).

| Theorem | Inductive invariant | Hypotheses |
|---|---|---|
| `FloorBelowPrice` | `FloorInv`: floor at most the list price | |
| `DecidedAbove` | `FloorInv` | whole dollars (prices of 19.50 go wrong) |
| `ApprovedAlways`, `FirstComeFirstServed` | `HolderInv`: who may hold the item, and what they stand at | whole dollars, one list price |
| `ApprovedBesideTaps` | `BidInv`: `HolderInv`, and the bids of an item being bid on | the same, nothing released or confirmed once sold |
| `HeldForALink` | `HoldOwned`: a hold that a tap made belongs to it, and no two taps own one | |
| `LinkGoesOnce` | `CountInv`: links sent against taps marked, killed and told of a failure with the link out | one tapper |
| `TakenFromNobody` | the types | |
| `RivalsAreBeaten` | `CapInv(m)`: no standing rival is above the bar `m` | whole dollars, finitely many amounts |
| `FloorStaysPrivate` | the counters given, against the floor and the price | whole dollars, positive steps |

`CapInv` and the counters are where the engine's arithmetic is: the lemmas above them
say that a counter lies between the floor, or the last counter, and the price.

### KeeperProofs

`LoopInv` (types, runs counted against marks, what stays registered) gives `RunsAlone`.
It needs `MaxFailures # FloatExponent`: the back-off of that many failures raises. Each
of `Keeper`'s steps is a step or a stutter of `TaskLoop` (`StepTurns`), so the result
carries over. `KeeperInv` (types; which clients lanes and the holder refer to; whose
lock is whose; closed clients have no server) gives `ClosedStaysDown`. `NeverPulledAway`
needs `BracketInv` besides: a lane inside its bracket has the lock of its client
(`LocksHeld`), and one that is idle, or in the factory and has not got its client yet,
names none (`EmptyHands`). It is not about the two closings only: every step
of every other lane, the world's and the scheduler's has to leave lock, identity, port,
tab and streak alone, and a new client has to be another one than any in use, which
`FreshIdentity` gets by counting the lanes and the holder against the clients.

### DeskProofs, WireProofs, RailProofs

*Desk.* `OnlyOneBegins` rests on `Hands` and `InOrder`: who holds a token is the pass in
hand, running or just settled; rows leave the queue by age, so all younger ones are
still queued; and the sweep's clock does not run for a row with a babysitter. It says
nothing of calls already let in, which outlive all of that in the code as well. `TypingMeansOwed` and `WrittenOffIsTold` rest on `OneChannel`
(one channel pass is active), `Holds` (which messages it holds) and `Told` (a message
is written off with its notice).

*Wire.* `StrangersUnheard`: what a poll in flight may still bind. `GreetsOnce`: which
greeting was claimed. `NothingIsLost` relates the offset, the poll and what Telegram
keeps; it assumes one Telegram bot.

*Rail.* `SendInv` has five parts. `Calls` and `Fates` tie the call to the send and its
status, `Letters` says what is stored was sent, `Retries` that a retry has had its
time, `Reading` what the lane has in hand. From it follow the refinement of
`MailPromise` (`PromiseKept`) and, with `Plain` (a transcript shows an intent once),
`ShownOnce`. `CoverInv` (`Asked`, `Listed`, `Covers`, `Abreast`) relates the saved
cursor, the page in hand and the threads kept for retry, and gives `CursorCovered`.

### ListingsProofs

`ShopInv` holds in every state, with no hypothesis. `ShopShape` is the types.
`LaneInv` says who may have put a listing up: nothing was done for an unknown thing
(`Unknown`), the seller's own listing is the first (`ByHand`), a pass publishes
recipes only and one at a time (`ByPass`), a drive writes its row before its click
(`ByDrive`), one listing stands and it is named or its row is unverified (`OneLive`),
and the seller's own was found once the look is done (`Found`). `OneListing` needs
all of it: that a further publish is refused follows from the sum of what the rows
cost, and lemma `CostsAre` shows that one unverified row spends the whole allowance.
`EditInv` says what is wanted of a listing is what the item says (`Wants`), that one
edit runs (`OneEdit`), and that an edit overtaken by a newer one leaves nothing that
is not asked for again (`Overtaken`); without the last, `EditIsOwed` is not inductive,
as an edit in flight may yet put the old words up. `NoIsNo` needs that the adoption
reads the page only of a thing still unknown.

### ApartProofs

*Settings.* `NewestAlwaysWins` rests on `OnlyUndosSince`: the changes later than a
pending proposal undo others. *Drive.* `NothingIsNothing` rests on `Untouched` (before
a press, the post is as it was, or the drive knows), `PostedAsAsked` on `Checked`
(past the check, each box reads as asked and nothing is promoted). *Buying.*
`BuyInv` (types, numbers within the budget that was read, whose price was taken is
pending) gives the three theorems about `BuyerNegotiation`. *Watch.* `RingsAreRead`
is about a visit that ends well, so it rests on what a visit has read by then:
`ReadsWhatRang` says that a message which rang before the visit began is on the visit's
list, or stored, or its conversation was passed over on purpose, or the visit has failed. `LaneTypes` and `PeopleTypes` give `WatchTyped`.
*Update.* `CommandShape` (which fields each step of a command has set, and what it has
done to directories, symlink and job by then) gives `CodeToRun` and `NotLeftDown`.
`UndoneInFull` needs four more: no snapshot is newer than the clock, and a worker
between snapshot and migration has just taken one (`CodeBehind`); which worker can
run while a command has stopped it (`WorkerBelow`); since the update began nothing is lost
(`RowsBehind`); and if the schema passed what the old code reads, the newest snapshot was taken
since, of a schema it does read (`WayBack`). Hypotheses: no death between two
migrations, and at least one snapshot kept.

### What proving changed

Attempts that failed for a reason changed the models: finiteness of identity sets
became an assumption; `RunsAlone` needed `MaxFailures # FloatExponent`; `NothingIsLost`
needed one Telegram bot, and `ApprovedBesideTaps` nothing released after the sale,
each with a counterexample in the code; `Revisions` keeps superseded rows as the
table does, since reports are read off it; what a settled publish row becomes is an
operator of its own (`Settled`).

## What is only model-checked

- Liveness, which is out of TLAPS's reach as it takes ENABLED and fairness:
  `UnknownIsResolved`, `EveryWordIsAnswered`, `BuyersAreServed`, `SellerIsHeard`,
  `RingIsVisited`, `WedgeEnds`.
- The three sentences that are false.

`BuyersAreServed` asks that a waiting buyer be taken up by a pass of the lane, one that
failed included: what such a pass leaves unanswered the next one has to claim, which the
bound on passes ends. It is a property of the lane, which must not stay shut.

Sums over rows are recursive functions: their value for given rows is unfolded in the
proofs, and nothing is claimed of them by induction over data.

## What is not modelled

- *Account pacing, quiet hours, page allowances*: clocks and random draws. Where they
  decide whether a step happens, the step is one that may not be taken.
- *The scam engine, shipping, pointer and typing engines*: tables and arithmetic with no
  state that anybody else reads; their verdict is a choice.
- *The HTTP server, its scopes and the tool registry*: request plumbing; what a
  session may call is where the tools are.
- *Of the installer*: which interpreter the job's file pins, development and container
  installs, the check that only tells of a release.
- *Events, logs, retention, health checks, status and set-up commands*: read or write
  beside the state, and nothing waits for them.
- *Skills and prompts*: what an agent decides is a choice in every model.
- *What migrations do, and the SQLite layer*: a transaction is atomic and durable here;
  the schema's constraints are in the types. That and when migrations run is in `Update`.
- *Pages*: selectors and scripts. What a page shows, and whether it kept what was
  typed, is a choice; how it is reached and confirmed is `PostDrive`.
- *Wire protocols*: Telegram's, Discord's and the MCP framing, below the calls.
- *Parts of modelled files* that "partly" stands for: photographs, wants (but for
  their budget), the listing's advice and category, the registration's set-up, the
  second Craigslist account, seller-side reads.

## Plan

1. The reconciliation of sold items (`browser/reconcile.py`) beside `SendBracket`.
2. The set-up of the rail registration beside `MailRail`.
3. The account's pacing, with a clock, and its effect on `BuyersAreServed`.
