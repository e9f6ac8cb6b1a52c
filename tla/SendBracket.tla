---------------------------- MODULE SendBracket ----------------------------
(***************************************************************************)
(* The reserve/commit bracket around one reply to a buyer on a marketplace *)
(* driven through the browser: the caller of the send_reply tool           *)
(* (tools/reply.py), the browser sink that types the reply and reads it    *)
(* back (browser/sink.py), the inbox lane that looks for an unsettled send *)
(* again (browser/inbox.py), the sweep that gives up and asks the seller   *)
(* (store/send.py), and the writers of the thread's status                 *)
(* (store/escalations.py, store/threads.py).                               *)
(*                                                                         *)
(* Each store method is one BEGIN IMMEDIATE transaction, hence one action. *)
(* The senders and the lane are threads of one process that share one      *)
(* browser behind a mutex; a crash takes all of them together.             *)
(*                                                                         *)
(* An intent stands for one call of send_reply that reaches the reserve.   *)
(* Its thread, words and kind are parameters, so a statement proved here   *)
(* holds whatever the callers ask for.  A buyer's messages on a thread are *)
(* numbered 1, 2, ... in the order they are recorded; a cursor of 0 is the *)
(* NULL cursor of a thread nothing was answered on yet.                    *)
(***************************************************************************)
EXTENDS Integers, FiniteSets

CONSTANTS
    Thread,       \* conversations with a buyer, on browser markets
    Intent,       \* the sends that may ever be requested
    Text,         \* what a reply can say
    Sender,       \* threads of the daemon that may be inside send_reply
    PassSender,   \* the senders that serve a reply pass: a claim stands behind them
    Unnamed,      \* the senders that may answer without naming a message
    ThreadOf,     \* ThreadOf[i]: the conversation of intent i
    TextOf,       \* TextOf[i]: its words
    Holding,      \* the intents of kind "holding"; the others answer the buyer
    MaxInbound,   \* bound: messages a buyer writes on one thread
    Grace,        \* GRACE_SEC, in ticks
    HardGrace,    \* HARD_GRACE_SEC, in ticks
    MinVerify,    \* MIN_VERIFY_ATTEMPTS
    MaxVerify,    \* MAX_VERIFY_ATTEMPTS
    SellerActs,   \* bound: which of the writers of a thread's status take part
    MaxCrashes,   \* bound: crashes of the daemon
    MaxFaults     \* bound: browser calls that fail after the page took the message

ASSUME ConstantsAssumption ==
    /\ PassSender \subseteq Sender
    /\ {"free", "lane"} \cap Sender = {}
    /\ "none" \notin Intent
    /\ Unnamed \subseteq Sender
    /\ Holding \subseteq Intent
    /\ ThreadOf \in [Intent -> Thread]
    /\ TextOf \in [Intent -> Text]
    /\ MaxInbound \in Nat
    /\ Grace \in Nat
    /\ HardGrace \in Nat
    /\ Grace <= HardGrace
    /\ MinVerify \in Nat
    /\ MaxVerify \in Nat
    /\ MaxCrashes \in Nat
    /\ MaxFaults \in Nat

VARIABLES
    stat,      \* threads.status
    escFrom,   \* threads.escalated_from_status, "none" for NULL
    heldFrom,  \* threads.held_from_status, "none" for NULL
    ask,       \* kind of the thread's open escalation, "none" when it has none
    inbound,   \* how many buyer messages are recorded
    cursor,    \* threads.cursor_last_ts, as the number of the message it is on
    silent,    \* the newest manual row is newer than the newest inbound one
    status,    \* send_intents.status, "unborn" before the row is inserted
    tries,     \* send_intents.verify_attempts
    age,       \* ticks since created_ts, saturating past HardGrace
    pinned,    \* send_intents.in_msg_id
    pc,        \* where each sender is inside send_reply
    job,       \* the intent each sender is working on
    named,     \* the in_msg_id its caller passed, 0 for None
    given,     \* the watermark of the claim behind it, 0 for none
    lock,      \* holder of the browser client's exclusive() mutex
    todo,      \* the lane's snapshot of unsettled intents, less those it looked for
    pass,      \* the reply pass: "none", "live" or "dead" (its process is gone)
    through,   \* the pass's claimed_through, 0 for a thread it did not claim
    taken,     \* history: the intents whose message the page accepted
    page,      \* the intents whose message shows as a bubble of ours on the page
    seen,      \* history: newest buyer message the sender of an intent could have read
    crashes,   \* crashes so far
    faults     \* failed commits that the page took, so far

threadVars == <<stat, escFrom, heldFrom, ask>>
rowVars    == <<inbound, cursor, silent>>
intentVars == <<status, tries, age, pinned>>
senderVars == <<pc, job, named, given>>
passVars   == <<pass, through>>
pageVars   == <<taken, page>>
bounds     == <<crashes, faults>>
vars == <<threadVars, rowVars, intentVars, senderVars, lock, todo, passVars,
          pageVars, seen, bounds>>

NoIntent == "none"

ThreadStatus == {"active", "escalated", "held", "closed"}
AskKind == {"question", "unconfirmed_send"}
Unsettled == {"pending", "sent_unverified", "unconfirmed"}
IntentStatus == Unsettled \cup {"unborn", "committed"}
SenderAt == {"idle", "admitted", "reserved", "driving", "onpage", "marked", "verified"}

\* The steps of send_reply during which its thread is in the _SENDING set.
InFlight == {"reserved", "driving", "onpage", "marked", "verified"}

\* The steps during which the sink holds the browser.
AtBrowser == {"driving", "onpage", "marked"}

On(t) == {i \in Intent : ThreadOf[i] = t}

-----------------------------------------------------------------------------
Init ==
    /\ stat = [t \in Thread |-> "active"]
    /\ escFrom = [t \in Thread |-> "none"]
    /\ heldFrom = [t \in Thread |-> "none"]
    /\ ask = [t \in Thread |-> "none"]
    /\ inbound = [t \in Thread |-> 0]
    /\ cursor = [t \in Thread |-> 0]
    /\ silent = [t \in Thread |-> FALSE]
    /\ status = [i \in Intent |-> "unborn"]
    /\ tries = [i \in Intent |-> 0]
    /\ age = [i \in Intent |-> 0]
    /\ pinned = [i \in Intent |-> 0]
    /\ pc = [s \in Sender |-> "idle"]
    /\ job = [s \in Sender |-> NoIntent]
    /\ named = [s \in Sender |-> 0]
    /\ given = [s \in Sender |-> 0]
    /\ lock = "free"
    /\ todo = {}
    /\ pass = "none"
    /\ through = [t \in Thread |-> 0]
    /\ taken = {}
    /\ page = {}
    /\ seen = [i \in Intent |-> 0]
    /\ crashes = 0
    /\ faults = 0

-----------------------------------------------------------------------------
(* send_reply: admission and the reserve transaction *)

\* Mutant of CursorTarget: the message the caller named is dropped.
TargetWithoutName(t, claim, name) == IF claim > 0 THEN claim ELSE inbound[t]

\* Where a committed reply leaves the cursor: at the claim's watermark, else at
\* the message the caller named, else at the newest one on the thread.
CursorTarget(t, claim, name) ==
    IF claim > 0 THEN claim ELSE IF name > 0 THEN name ELSE inbound[t]

\* The call returns to its caller, and its locals are gone.
Returns(s) ==
    /\ pc' = [pc EXCEPT ![s] = "idle"]
    /\ job' = [job EXCEPT ![s] = NoIntent]
    /\ named' = [named EXCEPT ![s] = 0]
    /\ given' = [given EXCEPT ![s] = 0]

\* A send on the thread is in _SENDING.
Busy(t) == \E s \in Sender : pc[s] \in InFlight /\ ThreadOf[job[s]] = t

\* Mutant of UnverifiedOpen: it asks for another status.
PendingOpen(t) == \E i \in On(t) : status[i] = "pending"

\* A send on the thread was taken by the page and never read back.
UnverifiedOpen(t) == \E i \in On(t) : status[i] = "sent_unverified"

\* The thread's status lets a reply out; read once, before the sink is acquired.
\* The caller has read the conversation by now: seen records how far it goes.
Admit(s, i) ==
    LET t == ThreadOf[i] IN
    /\ pc[s] = "idle"
    /\ status[i] = "unborn"
    /\ \A o \in Sender : job[o] # i
    /\ stat[t] = "active"
    /\ s \in PassSender => pass = "live" /\ through[t] > 0
    /\ \E m \in 0..inbound[t] :
        /\ m = 0 => s \in Unnamed
        /\ named' = [named EXCEPT ![s] = m]
    /\ pc' = [pc EXCEPT ![s] = "admitted"]
    /\ job' = [job EXCEPT ![s] = i]
    /\ given' = [given EXCEPT ![s] = IF s \in PassSender THEN through[t] ELSE 0]
    /\ seen' = [seen EXCEPT ![i] = inbound[t]]
    /\ UNCHANGED <<threadVars, rowVars, intentVars, lock, todo, passVars, pageVars, bounds>>

\* The call ends with nothing recorded: no send path, another send in flight on
\* the thread, an unverified one open, or a pacing verdict other than "go".
ReserveRefused(s) ==
    /\ pc[s] = "admitted"
    /\ Returns(s)
    /\ UNCHANGED <<threadVars, rowVars, intentVars, lock, todo, passVars,
                   pageVars, seen, bounds>>

\* The "go" verdict: a pending intent, with what it answers fixed now.
Reserve(s) ==
    LET i == job[s]  t == ThreadOf[i] IN
    /\ pc[s] = "admitted"
    /\ ~Busy(t)
    /\ ~UnverifiedOpen(t)
    /\ pc' = [pc EXCEPT ![s] = "reserved"]
    /\ status' = [status EXCEPT ![i] = "pending"]
    /\ pinned' = [pinned EXCEPT ![i] =
                    IF named[s] > 0 THEN named[s] ELSE CursorTarget(t, given[s], 0)]
    /\ UNCHANGED <<threadVars, rowVars, tries, age, job, named, given, lock, todo,
                   passVars, pageVars, seen, bounds>>

-----------------------------------------------------------------------------
(* BrowserReplySink.send *)

\* After the jitter, the sink takes the browser and opens the conversation.
TakeBrowser(s) ==
    /\ pc[s] = "reserved"
    /\ lock = "free"
    /\ lock' = s
    /\ pc' = [pc EXCEPT ![s] = "driving"]
    /\ UNCHANGED <<threadVars, rowVars, intentVars, job, named, given, todo, passVars,
                   pageVars, seen, bounds>>

\* SendNotAttempted: blocked market, unreachable page, a draft in the box, a
\* wall, or a commit the page refused.  The intent is left pending.
SendFails(s) ==
    /\ pc[s] \in {"reserved", "driving"}
    /\ Returns(s)
    /\ lock' = IF pc[s] = "driving" THEN "free" ELSE lock
    /\ UNCHANGED <<threadVars, rowVars, intentVars, todo, passVars,
                   pageVars, seen, bounds>>

\* The commit returns: the page has the message, and may still drop it.
PageTakes(s) ==
    /\ pc[s] = "driving"
    /\ pc' = [pc EXCEPT ![s] = "onpage"]
    /\ taken' = taken \cup {job[s]}
    /\ UNCHANGED <<threadVars, rowVars, intentVars, job, named, given, lock, todo,
                   passVars, page, seen, bounds>>

\* The call that commits raises although the page took the message: a click or
\* an evaluation whose answer never came.  To the sink nothing was attempted.
CommitRaises(s) ==
    /\ pc[s] = "driving"
    /\ faults < MaxFaults
    /\ faults' = faults + 1
    /\ Returns(s)
    /\ taken' = taken \cup {job[s]}
    /\ lock' = "free"
    /\ UNCHANGED <<threadVars, rowVars, intentVars, todo, passVars,
                   page, seen, crashes>>

\* mark_intent_sent_unverified: only a pending intent is stamped.
Mark(s) ==
    LET i == job[s] IN
    /\ pc[s] = "onpage"
    /\ pc' = [pc EXCEPT ![s] = "marked"]
    /\ status' = [status EXCEPT ![i] = IF @ = "pending" THEN "sent_unverified" ELSE @]
    /\ UNCHANGED <<threadVars, rowVars, tries, age, pinned, job, named, given, lock,
                   todo, passVars, pageVars, seen, bounds>>

\* contains_outbound: a bubble of ours on that page says what the intent says.
OnPage(i) == \E j \in page : ThreadOf[j] = ThreadOf[i] /\ TextOf[j] = TextOf[i]

\* The read-back finds the words; the browser is let go before the commit.
VerifyFound(s) ==
    /\ pc[s] = "marked"
    /\ OnPage(job[s])
    /\ pc' = [pc EXCEPT ![s] = "verified"]
    /\ lock' = "free"
    /\ UNCHANGED <<threadVars, rowVars, intentVars, job, named, given, todo, passVars,
                   pageVars, seen, bounds>>

\* SendUnverified: the window ran out, or the page could not be read.
VerifyUnfound(s) ==
    /\ pc[s] = "marked"
    /\ Returns(s)
    /\ lock' = "free"
    /\ UNCHANGED <<threadVars, rowVars, intentVars, todo, passVars,
                   pageVars, seen, bounds>>

\* _commit_reply_in_txn: the intent is committed whatever its status, and the
\* cursor is overwritten unless the line only holds the buyer.
CommitReply(i, claim, name) ==
    LET t == ThreadOf[i] IN
    /\ status' = [status EXCEPT ![i] = "committed"]
    /\ cursor' = IF i \in Holding THEN cursor
                 ELSE [cursor EXCEPT ![t] = CursorTarget(t, claim, name)]

\* commit_reply, with the message the caller named and not the pinned one.
Commit(s) ==
    /\ pc[s] = "verified"
    /\ CommitReply(job[s], given[s], named[s])
    /\ Returns(s)
    /\ UNCHANGED <<threadVars, inbound, silent, tries, age, pinned, lock,
                   todo, passVars, pageVars, seen, bounds>>

\* The marketplace shows a message its page accepted; it may never do so.
Land(i) ==
    /\ i \in taken \ page
    /\ page' = page \cup {i}
    /\ UNCHANGED <<threadVars, rowVars, intentVars, senderVars, lock, todo, passVars,
                   taken, seen, bounds>>

-----------------------------------------------------------------------------
(* The inbox lane *)

\* unsettled_intents: what the next read looks for.
Unread == {i \in Intent : status[i] \in Unsettled /\ tries[i] < MaxVerify}

\* A visit takes the browser and reads which sends are unsettled, once.
LaneStart ==
    /\ lock = "free"
    /\ lock' = "lane"
    /\ todo' = Unread
    /\ UNCHANGED <<threadVars, rowVars, intentVars, senderVars, passVars, pageVars,
                   seen, bounds>>

\* _resolve_escalations_in_txn for kind unconfirmed_send, on one thread: the
\* withdrawn ask was the only open one, so an escalated thread gets its status back.
Withdraw(t) ==
    IF ask[t] = "unconfirmed_send"
    THEN /\ ask' = [ask EXCEPT ![t] = "none"]
         /\ IF stat[t] = "escalated"
            THEN /\ stat' = [stat EXCEPT ![t] =
                                IF escFrom[t] = "none" THEN "active" ELSE escFrom[t]]
                 /\ escFrom' = [escFrom EXCEPT ![t] = "none"]
            ELSE UNCHANGED <<stat, escFrom>>
    ELSE UNCHANGED <<ask, stat, escFrom>>

\* settle_intent_from_read: the lane finds the words of an unsettled send.
LaneFinds(i) ==
    /\ lock = "lane"
    /\ i \in todo
    /\ OnPage(i)
    /\ todo' = todo \ {i}
    /\ IF status[i] \in Unsettled
       THEN CommitReply(i, 0, pinned[i]) /\ Withdraw(ThreadOf[i])
       ELSE UNCHANGED <<status, cursor, ask, stat, escFrom>>
    /\ UNCHANGED <<heldFrom, inbound, silent, tries, age, pinned, senderVars, lock,
                   passVars, pageVars, seen, bounds>>

\* bump_verify_attempt: the words are not in the tail that was read, which shows
\* the last TAIL_BUBBLES bubbles only.
LaneMisses(i) ==
    /\ lock = "lane"
    /\ i \in todo
    /\ todo' = todo \ {i}
    /\ tries' = [tries EXCEPT ![i] = IF status[i] \in Unsettled THEN @ + 1 ELSE @]
    /\ UNCHANGED <<threadVars, rowVars, status, age, pinned, senderVars, lock, passVars,
                   pageVars, seen, bounds>>

\* record_inbound for the new rows of a conversation whose sends were looked for:
\* a buyer's message, a reply the seller typed in the app after it, or both.
LaneRecords(t) ==
    /\ lock = "lane"
    /\ todo \cap On(t) = {}
    /\ \E wrote, typed \in BOOLEAN :
        /\ wrote \/ typed
        /\ wrote => inbound[t] < MaxInbound
        /\ typed => "manual" \in SellerActs
        /\ inbound' = [inbound EXCEPT ![t] = IF wrote THEN @ + 1 ELSE @]
        /\ silent' = [silent EXCEPT ![t] = typed \/ (@ /\ ~wrote)]
    /\ UNCHANGED <<threadVars, cursor, intentVars, senderVars, lock, todo, passVars,
                   pageVars, seen, bounds>>

\* The visit is over, complete or given up part way.
LaneEnds ==
    /\ lock = "lane"
    /\ lock' = "free"
    /\ todo' = {}
    /\ UNCHANGED <<threadVars, rowVars, intentVars, senderVars, passVars, pageVars,
                   seen, bounds>>

-----------------------------------------------------------------------------
(* The sweep and the escalation ledger *)

\* _open_escalation_in_txn on every thread of T: nothing where an ask is open,
\* else a new ask, the status escalated and the status before it remembered.
OpenAsks(T, kind) ==
    LET fresh == {t \in T : ask[t] = "none"}
        before(t) == IF stat[t] # "escalated" THEN stat[t]
                     ELSE IF escFrom[t] = "none" THEN "active" ELSE escFrom[t]
    IN  /\ ask' = [t \in Thread |-> IF t \in fresh THEN kind ELSE ask[t]]
        /\ escFrom' = [t \in Thread |-> IF t \in fresh THEN before(t) ELSE escFrom[t]]
        /\ stat' = [t \in Thread |-> IF t \in fresh THEN "escalated" ELSE stat[t]]

\* Mutants of Stale: no hard grace, or no look at the status.
StaleOnceLooked == {i \in Intent :
            /\ status[i] \in {"pending", "sent_unverified"}
            /\ age[i] > Grace
            /\ tries[i] >= MinVerify}
StaleByAge == {i \in Intent : status[i] # "unborn" /\ age[i] > HardGrace}

\* Past the grace and looked for often enough, or past the hard grace.
Stale == {i \in Intent :
            /\ status[i] \in {"pending", "sent_unverified"}
            /\ age[i] > Grace
            /\ tries[i] >= MinVerify \/ age[i] > HardGrace}

\* stale_intent_sweep: every stale intent, in one transaction.
Sweep ==
    /\ Stale # {}
    /\ status' = [i \in Intent |-> IF i \in Stale THEN "unconfirmed" ELSE status[i]]
    /\ OpenAsks({ThreadOf[i] : i \in Stale}, "unconfirmed_send")
    /\ UNCHANGED <<heldFrom, rowVars, tries, age, pinned, senderVars, lock, todo,
                   passVars, pageVars, seen, bounds>>

\* escalate, from a pass or the seller's session.
Escalate(t) ==
    /\ ask[t] = "none"
    /\ OpenAsks({t}, "question")
    /\ UNCHANGED <<heldFrom, rowVars, intentVars, senderVars, lock, todo, passVars,
                   pageVars, seen, bounds>>

\* resolve_escalation: the record only; the thread stays as it is.
ResolveAsk(t) ==
    /\ ask[t] # "none"
    /\ ask' = [ask EXCEPT ![t] = "none"]
    /\ UNCHANGED <<stat, escFrom, heldFrom, rowVars, intentVars, senderVars, lock, todo,
                   passVars, pageVars, seen, bounds>>

\* Mutant of Reactivate: the open ask is not looked for.
ReactivateAnyway(t) ==
    /\ stat[t] = "escalated"
    /\ stat' = [stat EXCEPT ![t] = "active"]
    /\ escFrom' = [escFrom EXCEPT ![t] = "none"]
    /\ UNCHANGED <<heldFrom, ask, rowVars, intentVars, senderVars, lock, todo, passVars,
                   pageVars, seen, bounds>>

\* update_thread: escalated to active, refused while an ask is open.
Reactivate(t) ==
    /\ stat[t] = "escalated"
    /\ ask[t] = "none"
    /\ stat' = [stat EXCEPT ![t] = "active"]
    /\ escFrom' = [escFrom EXCEPT ![t] = "none"]
    /\ UNCHANGED <<heldFrom, ask, rowVars, intentVars, senderVars, lock, todo, passVars,
                   pageVars, seen, bounds>>

\* update_thread: active to closed.
Close(t) ==
    /\ stat[t] = "active"
    /\ stat' = [stat EXCEPT ![t] = "closed"]
    /\ UNCHANGED <<escFrom, heldFrom, ask, rowVars, intentVars, senderVars, lock, todo,
                   passVars, pageVars, seen, bounds>>

\* hold_thread, from any status; marking a message handled moves the cursor to now.
Hold(t) ==
    /\ stat' = [stat EXCEPT ![t] = "held"]
    /\ heldFrom' = [heldFrom EXCEPT ![t] =
                      IF stat[t] # "held" THEN stat[t]
                      ELSE IF @ = "none" THEN "active" ELSE @]
    /\ \/ cursor' = cursor
       \/ cursor' = [cursor EXCEPT ![t] = inbound[t]]
    /\ UNCHANGED <<escFrom, ask, inbound, silent, intentVars, senderVars, lock, todo,
                   passVars, pageVars, seen, bounds>>

\* release_thread, which does not ask whether the thread is held.
Release(t) ==
    /\ stat' = [stat EXCEPT ![t] = IF heldFrom[t] = "none" THEN "active" ELSE heldFrom[t]]
    /\ heldFrom' = [heldFrom EXCEPT ![t] = "none"]
    /\ UNCHANGED <<escFrom, ask, rowVars, intentVars, senderVars, lock, todo, passVars,
                   pageVars, seen, bounds>>

\* record_manual_reply: the seller says they answered in the app.
RecordManual(t) ==
    /\ silent' = [silent EXCEPT ![t] = TRUE]
    /\ UNCHANGED <<threadVars, inbound, cursor, intentVars, senderVars, lock, todo,
                   passVars, pageVars, seen, bounds>>

-----------------------------------------------------------------------------
(* The reply pass, time and crashes *)

\* _UNHANDLED_INBOUND_SQL
Waiting(t) ==
    /\ stat[t] = "active"
    /\ inbound[t] > cursor[t]
    /\ ~silent[t]
    /\ ask[t] = "none"
    /\ ~UnverifiedOpen(t)

\* enqueue_reply_pass: one pass at a time claims the waiting threads of the
\* markets that may send, each with the newest message it waits on.
EnqueueReplyPass ==
    /\ pass = "none"
    /\ \E T \in SUBSET {t \in Thread : Waiting(t)} :
        /\ T # {}
        /\ through' = [t \in Thread |-> IF t \in T THEN inbound[t] ELSE 0]
    /\ pass' = "live"
    /\ UNCHANGED <<threadVars, rowVars, intentVars, senderVars, lock, todo, pageVars,
                   seen, bounds>>

\* finish_pass, or fail_stale_running for a pass whose process is gone.
PassEnds ==
    /\ pass # "none"
    /\ pass' = "none"
    /\ through' = [t \in Thread |-> 0]
    /\ UNCHANGED <<threadVars, rowVars, intentVars, senderVars, lock, todo, pageVars,
                   seen, bounds>>

\* Time passes for every intent alike; the age of a settled one is never read.
Tick ==
    LET ageing == {i \in Intent : /\ status[i] \in {"pending", "sent_unverified"}
                                  /\ age[i] <= HardGrace}
    IN  /\ ageing # {}
        /\ age' = [i \in Intent |-> IF i \in ageing THEN age[i] + 1 ELSE age[i]]
    /\ UNCHANGED <<threadVars, rowVars, status, tries, pinned, senderVars, lock, todo,
                   passVars, pageVars, seen, bounds>>

\* The daemon dies: the store stays, every thread of the process is gone, and
\* with them _SENDING, the mutex and the pass's process.
Crash ==
    /\ crashes < MaxCrashes
    /\ crashes' = crashes + 1
    /\ pc' = [s \in Sender |-> "idle"]
    /\ job' = [s \in Sender |-> NoIntent]
    /\ named' = [s \in Sender |-> 0]
    /\ given' = [s \in Sender |-> 0]
    /\ lock' = "free"
    /\ todo' = {}
    /\ pass' = IF pass = "none" THEN "none" ELSE "dead"
    /\ UNCHANGED <<threadVars, rowVars, intentVars, through, pageVars, seen,
                   faults>>

-----------------------------------------------------------------------------
SenderStep(s) ==
    \/ \E i \in Intent : Admit(s, i)
    \/ ReserveRefused(s)
    \/ Reserve(s)
    \/ TakeBrowser(s)
    \/ SendFails(s)
    \/ PageTakes(s)
    \/ CommitRaises(s)
    \/ Mark(s)
    \/ VerifyFound(s)
    \/ VerifyUnfound(s)
    \/ Commit(s)

LaneStep ==
    \/ LaneStart
    \/ \E i \in Intent : LaneFinds(i) \/ LaneMisses(i)
    \/ \E t \in Thread : LaneRecords(t)
    \/ LaneEnds

ThreadStep(t) ==
    \/ "escalate" \in SellerActs /\ Escalate(t)
    \/ "answer" \in SellerActs /\ (ResolveAsk(t) \/ Reactivate(t))
    \/ "close" \in SellerActs /\ Close(t)
    \/ "hold" \in SellerActs /\ Hold(t)
    \/ "release" \in SellerActs /\ Release(t)
    \/ "manual" \in SellerActs /\ RecordManual(t)

Next ==
    \/ \E s \in Sender : SenderStep(s)
    \/ \E i \in Intent : Land(i)
    \/ LaneStep
    \/ Sweep
    \/ \E t \in Thread : ThreadStep(t)
    \/ EnqueueReplyPass
    \/ PassEnds
    \/ Tick
    \/ Crash

Spec == Init /\ [][Next]_vars

\* The scheduler runs the sweep every few minutes for the life of the daemon, and
\* time passes; nothing else is assumed to happen.
Fairness == WF_vars(Tick) /\ WF_vars(Sweep)

FairSpec == Spec /\ Fairness

-----------------------------------------------------------------------------
(* Properties *)

ThreadTypes ==
    /\ stat \in [Thread -> ThreadStatus]
    /\ escFrom \in [Thread -> (ThreadStatus \ {"escalated"}) \cup {"none"}]
    /\ heldFrom \in [Thread -> (ThreadStatus \ {"held"}) \cup {"none"}]
    /\ ask \in [Thread -> AskKind \cup {"none"}]

RowTypes ==
    /\ inbound \in [Thread -> 0..MaxInbound]
    /\ cursor \in [Thread -> 0..MaxInbound]
    /\ silent \in [Thread -> BOOLEAN]
    /\ through \in [Thread -> 0..MaxInbound]

IntentTypes ==
    /\ status \in [Intent -> IntentStatus]
    /\ tries \in [Intent -> 0..MaxVerify]
    /\ age \in [Intent -> 0..HardGrace + 1]
    /\ pinned \in [Intent -> 0..MaxInbound]
    /\ seen \in [Intent -> 0..MaxInbound]

SenderTypes ==
    /\ pc \in [Sender -> SenderAt]
    /\ job \in [Sender -> Intent \cup {NoIntent}]
    /\ named \in [Sender -> 0..MaxInbound]
    /\ given \in [Sender -> 0..MaxInbound]

SharedTypes ==
    /\ lock \in Sender \cup {"free", "lane"}
    /\ todo \in SUBSET Intent
    /\ pass \in {"none", "live", "dead"}
    /\ taken \in SUBSET Intent
    /\ page \in SUBSET Intent
    /\ crashes \in 0..MaxCrashes
    /\ faults \in 0..MaxFaults

\* Every variable has its type; in particular a lane never counts a look past
\* MAX_VERIFY_ATTEMPTS, the bound unsettled_intents stops at.
TypeOK ==
    /\ ThreadTypes
    /\ RowTypes
    /\ IntentTypes
    /\ SenderTypes
    /\ SharedTypes

\* A buyer is never owed the answer to two unknown sends at once: whatever the
\* interleaving of senders, lane, sweep and crashes, at most one send of a thread
\* is stamped sent_unverified.  Rests on _SENDING spanning reserve to commit and
\* on reserve_reply refusing a thread that holds such a send.
OneUnknownSend ==
    \A i, j \in Intent :
        /\ status[i] = "sent_unverified"
        /\ status[j] = "sent_unverified"
        /\ ThreadOf[i] = ThreadOf[j]
        => i = j

\* A reply folded into the transcript as ours, by its own read-back or by a later
\* visit of the lane, is one the page accepted: finding its words on the page is
\* evidence of that very send.  Holds where no two sends of a thread say the same.
CommittedWasTaken == \A i \in Intent : status[i] = "committed" => i \in taken

\* pending means the page never took it, whoever asks: a retry is safe
\* (tools/reply.py), except inside the sink's own two lines between the page's
\* answer and the stamp.
PendingIsUntaken ==
    \A i \in Intent :
        status[i] = "pending" /\ i \in taken =>
            \E s \in Sender : pc[s] = "onpage" /\ job[s] = i

\* Nothing is reserved for a buyer while an earlier message to them may have
\* arrived and neither the machine nor the seller has answered whether it did.
NeverTalksPast ==
    [][\A i, j \in Intent :
          /\ status[i] = "unborn" /\ status'[i] = "pending"
          /\ ThreadOf[j] = ThreadOf[i]
          /\ j \in taken
          => status[j] \in {"committed", "unconfirmed"}]_vars

\* The cursor moves forward over a message only under a committed reply whose
\* sender could have read that message, or because the thread was put on hold; so
\* a message that arrives mid-compose stays unanswered (_cursor_target, and the
\* watermark _claimed_through records).
CursorWithinSeen ==
    [][\A t \in Thread : cursor'[t] > cursor[t] =>
          \/ stat'[t] = "held"
          \/ \E i \in On(t) : status'[i] = "committed" /\ seen[i] >= cursor'[t]]_vars

\* A thread with an open question is out of every sender's reach until the
\* question is answered: no writer of its status reactivates around the ask.
\* Read without release_thread, which does.
AskSilences ==
    \A t \in Thread : ask[t] # "none" => stat[t] \in {"escalated", "held"}

\* An unknown send does not stay unknown, even where the lane never looks for it:
\* it is found, or the sweep hands it to the seller.
UnknownIsResolved ==
    \A i \in Intent : status[i] \in {"pending", "sent_unverified"}
                        ~> status[i] \in {"committed", "unconfirmed"}

-----------------------------------------------------------------------------
(* The inductive invariant behind the properties *)

\* No two sends of a thread have the same words.
DistinctWords ==
    \A i, j \in Intent : ThreadOf[i] = ThreadOf[j] /\ TextOf[i] = TextOf[j] => i = j

\* Who works on what: a sender at work has an intent of its own, unborn until it
\* is reserved, and a thread of its own from then on.
Assigned ==
    /\ \A s \in Sender :
        /\ pc[s] = "idle" <=> job[s] = NoIntent
        /\ pc[s] # "idle" => job[s] \in Intent
        /\ pc[s] = "admitted" => status[job[s]] = "unborn"
        /\ pc[s] \in InFlight => status[job[s]] # "unborn"
    /\ \A s, o \in Sender :
        /\ pc[s] # "idle" /\ job[s] = job[o] => s = o
        /\ pc[s] \in InFlight /\ pc[o] \in InFlight /\ ThreadOf[job[s]] = ThreadOf[job[o]]
             => s = o

\* The mutex: its holder is the sender at the browser, or the lane with its list.
Exclusive ==
    /\ \A s \in Sender : lock = s <=> pc[s] \in AtBrowser
    /\ lock # "lane" => todo = {}
    /\ \A i \in todo : tries[i] < MaxVerify /\ status[i] # "unborn"

\* What the page accepted, by how far its sender has come.
Accepted ==
    /\ page \subseteq taken
    /\ \A i \in taken : status[i] # "unborn"
    /\ \A s \in Sender :
        /\ pc[s] \in {"reserved", "driving"} => job[s] \notin taken
        /\ pc[s] \in {"onpage", "marked", "verified"} => job[s] \in taken
        /\ pc[s] \in {"marked", "verified"} => status[job[s]] # "pending"
    /\ \A i \in Intent : status[i] = "sent_unverified" => i \in taken

\* A send on its way to the page is alone on its thread with its doubt.
ClearAhead ==
    \A s \in Sender : pc[s] \in {"reserved", "driving", "onpage"} =>
        \A i \in Intent :
            ThreadOf[i] = ThreadOf[job[s]] => status[i] # "sent_unverified"

Safe == TypeOK /\ Assigned /\ Exclusive /\ Accepted /\ ClearAhead /\ OneUnknownSend

\* What a send may claim to answer is at most what its sender could read.
Witnessed ==
    /\ \A t \in Thread : through[t] <= inbound[t]
    /\ \A s \in Sender : pc[s] # "idle" =>
        /\ named[s] <= seen[job[s]]
        /\ given[s] <= seen[job[s]]
        /\ named[s] > 0 \/ given[s] > 0
    /\ \A i \in Intent : status[i] # "unborn" => 0 < pinned[i] /\ pinned[i] <= seen[i]

-----------------------------------------------------------------------------
(* The abstract promise *)

\* What an intent's status says of its reply.
Fate(st) == CASE st = "unborn" -> "unborn"
              [] st = "pending" -> "tried"
              [] st = "sent_unverified" -> "doubt"
              [] st = "unconfirmed" -> "asked"
              [] st = "committed" -> "sent"

Promise == INSTANCE SendPromise WITH
    fate <- [i \in Intent |-> Fate(status[i])],
    accepted <- taken

\* Every behaviour of the bracket keeps the promise, crashes and failed browser
\* calls included, where no two sends of a thread say the same.
KeepsPromise == Promise!Spec
=============================================================================
