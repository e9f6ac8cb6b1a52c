---------------------------- MODULE ChannelWire ----------------------------
(***************************************************************************)
(* How the seller's chat is bound and listened to: the connect call, the   *)
(* one channel row, the manager's one running provider, the Telegram       *)
(* poller with its long poll in flight, and the Discord gateway with its   *)
(* session and latch.  The two chat services are external: Telegram keeps  *)
(* a bot's updates until a poll asks past them, Discord delivers to an     *)
(* open session or not at all.                                             *)
(***************************************************************************)
EXTENDS Integers, Sequences, FiniteSets, FiniteSetsExt

CONSTANTS
    TelegramBots,   \* the bots the seller may connect over Telegram
    DiscordBots,    \* and over Discord
    Base,           \* the number before the first update of each Telegram bot
    MaxArms,        \* bound: the nonces ever minted
    MaxSaid,        \* bound: what is ever said to the bots
    MaxCrashes      \* bound: the times the daemon dies

ASSUME WireAssumption ==
    /\ TelegramBots \cap DiscordBots = {}
    /\ Base \in [TelegramBots -> Nat] /\ {MaxArms, MaxSaid, MaxCrashes} \subseteq Nat

VARIABLES
    row,            \* the channel row
    lapsed,         \* the nonces whose deadline has passed
    armed,          \* how many nonces were minted; a nonce is its number
    token,          \* the token file of each provider, as the bot it names
    connecting,     \* the connect call in progress
    handle,         \* the provider the manager runs
    poll,           \* the Telegram thread: where its tick is, and what it read
    gate,           \* the Discord session: where it is, and the bot it is for
    latch,          \* the bot and the nonce the gateway is latched off for
    updates,        \* what was said to each Telegram bot, in update order
    acked,          \* the number of the last update Telegram has discarded
    stored,         \* channel_inbox: what was stored, by event id
    greeted,        \* greetings queued since the bot last changed
    daemon, crashes

wire == <<row, lapsed, armed, token, connecting, handle>>
ends == <<poll, gate, latch>>
said == <<updates, acked, stored>>
life == <<daemon, crashes>>
vars == <<wire, ends, said, greeted, life>>

Bots    == TelegramBots \cup DiscordBots
None    == "none"
Seller  == "seller"
People  == {Seller, "stranger"}
Via(b)  == IF b \in TelegramBots THEN "telegram" ELSE "discord"
BlankRow == [bot |-> None, chat |-> None, offset |-> 0, nonce |-> 0,
             welcomed |-> FALSE, menu |-> FALSE]
IdlePoll == [at |-> "idle", bot |-> None, chat |-> None, nonce |-> 0, offset |-> 0, last |-> 0]
Quiet    == [at |-> "down", bot |-> None]
NoCall   == [at |-> "none", bot |-> None]

Init ==
    /\ row = BlankRow /\ lapsed = {} /\ armed = 0
    /\ token = [p \in {"telegram", "discord"} |-> None]
    /\ connecting = NoCall /\ handle = None
    /\ poll = IdlePoll /\ gate = Quiet /\ latch = <<None, 0>>
    /\ updates = [b \in TelegramBots |-> <<>>] /\ acked = Base
    /\ stored = {} /\ greeted = 0
    /\ daemon = "up" /\ crashes = 0

-----------------------------------------------------------------------------
(* The row.                                                                *)

NonceLive(r) == r.nonce # 0 /\ r.nonce \notin lapsed

StateOf(bot, r) ==
    IF bot = None THEN "off"
    ELSE IF r.chat # None THEN "bound"
    ELSE IF NonceLive(r) THEN "awaiting_bind" ELSE "off"

\* Mutant: a re-connect forgets that the bot has greeted.
Armed_Forgets(b) ==
    [bot |-> b, chat |-> None, offset |-> 0, nonce |-> armed + 1,
     welcomed |-> FALSE, menu |-> row.bot = b /\ row.menu]

\* A re-connect of the same bot keeps its greeting and its menu.
Armed(b) ==
    [bot |-> b, chat |-> None, offset |-> 0, nonce |-> armed + 1,
     welcomed |-> row.bot = b /\ row.welcomed, menu |-> row.bot = b /\ row.menu]

\* Mutant: the binding does not look at which nonce is armed.
CanBind_AnyNonce(nonce) == NonceLive(row)
CanBind(nonce) == row.nonce = nonce /\ NonceLive(row)
CompleteBind(chat, cursor) == [row EXCEPT !.chat = chat, !.nonce = 0, !.offset = cursor]

AdvanceOffset(n) == IF n > row.offset THEN [row EXCEPT !.offset = n] ELSE row

\* The greeting and its stamp, in one transaction.
QueueWelcome(menu) ==
    /\ row' = [row EXCEPT !.welcomed = TRUE, !.menu = menu]
    /\ greeted' = IF row.welcomed THEN greeted ELSE greeted + 1

-----------------------------------------------------------------------------
(* Connecting: the token file, then the row, then the provider.            *)

ConnectWritesToken(b) ==
    /\ daemon = "up" /\ connecting.at = "none" /\ armed < MaxArms
    /\ token' = [token EXCEPT ![Via(b)] = b]
    /\ connecting' = [at |-> "written", bot |-> b]
    /\ UNCHANGED <<row, lapsed, armed, handle, ends, said, greeted, life>>

ConnectArms ==
    /\ connecting.at = "written"
    /\ row' = Armed(connecting.bot)
    /\ armed' = armed + 1
    /\ greeted' = IF row.bot = connecting.bot THEN greeted ELSE 0
    /\ connecting' = [connecting EXCEPT !.at = "armed"]
    /\ UNCHANGED <<lapsed, token, handle, ends, said, life>>

\* register: the other provider is shut down first, with a bounded wait that a long poll may
\* outlive; the one already running picks the new state up by itself.
ConnectRegisters ==
    /\ connecting.at = "armed"
    /\ handle' = Via(connecting.bot)
    /\ connecting' = NoCall
    /\ gate' = IF handle' = "discord" THEN gate ELSE Quiet
    /\ UNCHANGED <<row, lapsed, armed, token, poll, latch, said, greeted, life>>

NonceLapses ==
    /\ NonceLive(row)
    /\ lapsed' = lapsed \cup {row.nonce}
    /\ UNCHANGED <<row, armed, token, connecting, handle, ends, said, greeted, life>>

\* Mutant: a nonce is retired before its deadline.
RetireLapsedNonce_Early ==
    /\ daemon = "up" /\ handle # None
    /\ row.nonce # 0 /\ row.chat = None
    /\ handle = "telegram" => poll.at = "idle"
    /\ row' = [row EXCEPT !.nonce = 0]
    /\ UNCHANGED <<lapsed, armed, token, connecting, handle, ends, said, greeted, life>>

RetireLapsedNonce ==
    /\ daemon = "up" /\ handle # None
    /\ row.nonce # 0 /\ row.chat = None /\ ~NonceLive(row)
    /\ handle = "telegram" => poll.at = "idle"
    /\ handle = "discord" => gate.at = "down"
    /\ row' = [row EXCEPT !.nonce = 0]
    /\ UNCHANGED <<lapsed, armed, token, connecting, handle, ends, said, greeted, life>>

-----------------------------------------------------------------------------
(* The Telegram poller.                                                    *)

First(b) == Base[b] + 1
Last(b)  == Base[b] + Len(updates[b])
Update(b, n) == updates[b][n - Base[b]]

\* The tick reads the token and the row, and builds its client from what it read.  A bound
\* tick sees to the menu before it asks, over the network: a failure there ends the tick.
PollAsks ==
    LET b == token.telegram
        first == IF row.chat # None /\ ~row.menu THEN "menu" ELSE "asked"
    IN  /\ daemon = "up" /\ handle = "telegram" /\ poll.at = "idle"
        /\ StateOf(b, row) # "off"
        /\ poll' = [at |-> first, bot |-> b, chat |-> row.chat, nonce |-> row.nonce,
                    offset |-> row.offset, last |-> 0]
        /\ UNCHANGED <<wire, gate, latch, said, greeted, life>>

\* Stamped on whatever row there is by then.
RegisterMenu ==
    /\ poll.at = "menu"
    /\ row' = [row EXCEPT !.menu = TRUE]
    /\ poll' = [poll EXCEPT !.at = "asked"]
    /\ UNCHANGED <<lapsed, armed, token, connecting, handle, gate, latch, said, greeted, life>>

\* Mutant: the cursor is taken for the last update read, and one is added again.
PollAnswered_OneAhead ==
    LET b == poll.bot
        from == IF poll.offset + 1 > acked[b] THEN poll.offset + 1 ELSE acked[b] + 1
    IN  /\ poll.at = "asked"
        /\ acked' = [acked EXCEPT ![b] = from - 1]
        /\ poll' = IF from > Last(b) THEN IdlePoll
                   ELSE [poll EXCEPT !.at = "got", !.offset = from, !.last = Last(b)]
        /\ UNCHANGED <<wire, gate, latch, updates, stored, greeted, life>>

\* Asking from an offset discards what is before it.
PollAnswered ==
    LET b == poll.bot
        from == IF poll.offset > acked[b] THEN poll.offset ELSE acked[b] + 1
    IN  /\ poll.at = "asked"
        /\ acked' = [acked EXCEPT ![b] = from - 1]
        /\ poll' = IF from > Last(b) THEN IdlePoll
                   ELSE [poll EXCEPT !.at = "got", !.offset = from, !.last = Last(b)]
        /\ UNCHANGED <<wire, gate, latch, updates, stored, greeted, life>>

PollFails ==
    /\ poll.at = "asked"
    /\ poll' = IdlePoll
    /\ UNCHANGED <<wire, gate, latch, said, greeted, life>>

Batch == poll.offset..poll.last
Starts == {n \in Batch : Update(poll.bot, n).nonce = poll.nonce}

\* Awaiting: a batch with no matching /start is discarded whole; a match binds when the nonce
\* is still the armed one and still live, and is acked with what came before it when it is not.
ApplyAwaiting ==
    /\ poll.at = "got" /\ poll.chat = None
    /\ \/ Starts = {} /\ row' = AdvanceOffset(poll.last + 1) /\ poll' = IdlePoll
       \/ \E n \in Starts :
            /\ \A m \in Starts : n <= m
            /\ IF CanBind(poll.nonce)
               THEN /\ row' = CompleteBind(Update(poll.bot, n).from, n + 1)
                    /\ poll' = [IdlePoll EXCEPT !.at = "greet"]
               ELSE row' = AdvanceOffset(n + 1) /\ poll' = IdlePoll
    /\ UNCHANGED <<lapsed, armed, token, connecting, handle, gate, latch, said, greeted, life>>

\* Discord's ids are of another order, and never an update's.
EventIds == {e.id : e \in {x \in stored : x.bot \in TelegramBots}}

\* Bound: what the chat said is stored, once per event id, and the cursor set in the same
\* transaction, whatever row it now belongs to.
ApplyBound ==
    /\ poll.at = "got" /\ poll.chat # None
    /\ stored' = stored \cup
         {[bot |-> poll.bot, id |-> n, from |-> Update(poll.bot, n).from] :
            n \in {m \in Batch : Update(poll.bot, m).from = poll.chat} \ EventIds}
    /\ row' = [row EXCEPT !.offset = poll.last + 1]
    /\ poll' = IdlePoll
    /\ UNCHANGED <<lapsed, armed, token, connecting, handle, gate, latch, updates, acked,
                   greeted, life>>

\* After the bind the menu is registered over the network, then the greeting is queued.
PollGreets ==
    /\ poll.at = "greet"
    /\ QueueWelcome(TRUE)
    /\ poll' = IdlePoll
    /\ UNCHANGED <<lapsed, armed, token, connecting, handle, gate, latch, said, life>>

MenuFails ==
    /\ poll.at = "menu" \/ (poll.at = "greet" /\ ~row.menu)
    /\ poll' = IdlePoll
    /\ UNCHANGED <<wire, gate, latch, said, greeted, life>>

-----------------------------------------------------------------------------
(* The Discord gateway.                                                    *)

GateOpens ==
    /\ daemon = "up" /\ handle = "discord" /\ gate.at = "down"
    /\ StateOf(token.discord, row) # "off" /\ latch # <<token.discord, row.nonce>>
    /\ gate' = [at |-> "up", bot |-> token.discord]
    /\ UNCHANGED <<wire, poll, latch, said, greeted, life>>

GateDrops ==
    /\ gate.at = "up"
    /\ gate' = Quiet
    /\ UNCHANGED <<wire, poll, latch, said, greeted, life>>

\* A refusal that a retry cannot cure: latched off for this token and the nonce armed now.
GateRefused ==
    /\ gate.at = "up"
    /\ gate' = Quiet
    /\ latch' = <<gate.bot, row.nonce>>
    /\ UNCHANGED <<wire, poll, said, greeted, life>>

NextDm == Cardinality({e \in stored : e.bot \in DiscordBots}) + 1

\* A direct message, handled with the row as it is now.
GateHears(who, nonce) ==
    /\ gate.at = "up"
    /\ IF row.chat = None
       THEN /\ nonce # 0 /\ CanBind(nonce)
            /\ row' = CompleteBind(who, 0)
            /\ gate' = [gate EXCEPT !.at = "greet"]
            /\ UNCHANGED stored
       ELSE /\ who = row.chat
            /\ stored' = stored \cup {[bot |-> gate.bot, id |-> NextDm, from |-> who]}
            /\ UNCHANGED <<row, gate>>
    /\ UNCHANGED <<lapsed, armed, token, connecting, handle, poll, latch, updates, acked,
                   greeted, life>>

GateGreets ==
    /\ gate.at = "greet"
    /\ QueueWelcome(row.menu)
    /\ gate' = [gate EXCEPT !.at = "up"]
    /\ UNCHANGED <<lapsed, armed, token, connecting, handle, poll, latch, said, life>>

-----------------------------------------------------------------------------
(* What people say, and the daemon's life.                                 *)

Total == MapThenSumSet(LAMBDA b : Len(updates[b]), TelegramBots)

\* Whoever is not the seller knows a nonce only once it is worth nothing.
\* The seller presents the armed one to the bot it came with.
Known(who, b) ==
    {0} \cup {n \in 1..armed : \/ n \in lapsed \/ n # row.nonce
                               \/ who = Seller /\ b = row.bot}

\* under: the arming the seller's words are owed to, 0 when nothing is bound.
SaysTo(b, who, nonce) ==
    /\ Total < MaxSaid /\ nonce \in Known(who, b)
    /\ updates' = [updates EXCEPT ![b] = Append(@,
         [from |-> who, nonce |-> nonce,
          under |-> IF row.bot = b /\ row.chat = who THEN armed ELSE 0])]
    /\ UNCHANGED <<wire, ends, acked, stored, greeted, life>>

Dm(who, nonce) ==
    /\ NextDm <= MaxSaid /\ nonce \in Known(who, gate.bot)
    /\ GateHears(who, nonce)

Dies ==
    /\ daemon = "up" /\ crashes < MaxCrashes
    /\ daemon' = "down" /\ crashes' = crashes + 1
    /\ connecting' = NoCall /\ handle' = None
    /\ poll' = IdlePoll /\ gate' = Quiet /\ latch' = <<None, 0>>
    /\ UNCHANGED <<row, lapsed, armed, token, said, greeted>>

\* register_configured: what has a token; of two, the one the row was armed for.
Configured == {p \in DOMAIN token : token[p] # None}

Restarts ==
    /\ daemon = "down"
    /\ daemon' = "up"
    /\ handle' \in IF Configured = {} THEN {None}
                   ELSE IF row.bot # None /\ Via(row.bot) \in Configured
                        THEN {IF Cardinality(Configured) > 1 THEN Via(row.bot)
                              ELSE CHOOSE p \in Configured : TRUE}
                        ELSE Configured
    /\ UNCHANGED <<row, lapsed, armed, token, connecting, ends, said, greeted, crashes>>

Next ==
    \/ \E b \in Bots : ConnectWritesToken(b)
    \/ ConnectArms \/ ConnectRegisters \/ NonceLapses \/ RetireLapsedNonce
    \/ PollAsks \/ RegisterMenu \/ PollAnswered \/ PollFails
    \/ ApplyAwaiting \/ ApplyBound \/ PollGreets \/ MenuFails
    \/ GateOpens \/ GateDrops \/ GateRefused \/ GateGreets
    \/ \E who \in People, n \in 0..MaxArms :
         Dm(who, n) \/ \E b \in TelegramBots : SaysTo(b, who, n)
    \/ Dies \/ Restarts

Spec == Init /\ [][Next]_vars

\* The threads and the calls of a daemon that is up go on, the supervisor starts one that
\* died, and the network does not fail every poll, nor every try at the menu of a bound tick.
Fairness ==
    /\ WF_vars(ConnectArms) /\ WF_vars(ConnectRegisters) /\ WF_vars(Restarts)
    /\ WF_vars(PollAsks) /\ SF_vars(PollAnswered) /\ SF_vars(RegisterMenu)
    /\ WF_vars(ApplyAwaiting) /\ WF_vars(ApplyBound) /\ WF_vars(PollGreets \/ MenuFails)

FairSpec == Spec /\ Fairness

-----------------------------------------------------------------------------
(* Properties.                                                             *)

\* Only the seller is ever bound or listened to: a nonce somebody else holds was replaced,
\* spent or lapsed before they had it, and no poll in flight across a re-arm or the
\* deadline makes it worth something again (complete_bind's guard, bind_nonce_live).
NeverAStranger ==
    /\ row.chat \in {None, Seller}
    /\ \A e \in stored : e.from = Seller

\* What the bound seller said to the bot is stored before Telegram is let discard it, as
\* long as the binding lasts: across crashes at any point of a tick (ingest_updates sets
\* the cursor with the rows).
NothingLost ==
    \A b \in TelegramBots : \A i \in DOMAIN updates[b] :
      LET u == updates[b][i]
      IN  u.from = Seller /\ u.under # 0 /\ u.under = armed /\ Base[b] + i <= acked[b]
            => \E e \in stored : e.bot = b /\ e.id = Base[b] + i

\* A bot greets once for as long as it stays the connected one, and a greeting is stamped
\* only with the words queued, through re-connects, retries and crashes (arm_bind,
\* queue_welcome_notices).
GreetedOnce == greeted \in {0, 1} /\ (row.welcomed <=> greeted = 1)

\* The first connect ends bound once the seller presents its nonce in time, and whatever
\* they say to a bot they are bound to is stored: no backoff, crash or batch of strangers'
\* messages shuts them out.
Presented(b) == \E i \in DOMAIN updates[b] : updates[b][i].nonce = row.nonce

Owed(b, i) ==
    i \in DOMAIN updates[b] /\ updates[b][i].under = armed /\ armed # 0

SellerIsHeard ==
    /\ \A b \in TelegramBots :
         row.bot = b /\ armed = 1 /\ NonceLive(row) /\ Presented(b)
           ~> row.chat = Seller \/ armed # 1 \/ 1 \in lapsed
    /\ \A b \in TelegramBots, i \in 1..MaxSaid :
         Owed(b, i) ~> ~Owed(b, i) \/ \E e \in stored : e.bot = b /\ e.id = Base[b] + i

=============================================================================
