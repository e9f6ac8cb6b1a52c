----------------------------- MODULE MailRail -----------------------------
(***************************************************************************)
(* Buyers' email through bazaar: the relay lane (rail/inbox.py) and the    *)
(* registration lane (rail/registration.py), the mail stream that rings    *)
(* for them (rail/mail_stream.py), the sink a reply is sent through        *)
(* (rail/sink.py) with the bracket around it (store/send.py), and the      *)
(* sweep that gives up.  bazaar is external: it keeps each thread's mail   *)
(* in order, lists what changed since a cursor, and stores a reply once    *)
(* per client_message_id.                                                  *)
(*                                                                         *)
(* A behaviour has threads of one of the two kinds.  A message is its      *)
(* place in its thread; a cursor of 0 is the NULL one.                     *)
(***************************************************************************)
EXTENDS Integers, Sequences, FiniteSets, FiniteSetsExt, SequencesExt

CONSTANTS
    Threads,      \* a buyer's address on one listing
    Intents,      \* the send intents that may ever be made
    PageSize,     \* PAGE_SIZE
    Attempts,     \* the attempts of one call: one more than _RETRY_DELAYS_SEC
    MaxWrites     \* bound: what the people do that bazaar lists

ASSUME MailAssumption ==
    /\ IsFiniteSet(Threads) /\ IsFiniteSet(Intents) /\ "none" \notin Intents
    /\ PageSize \in Nat \ {0} /\ Attempts \in Nat \ {0}
    /\ MaxWrites \in Nat

VARIABLES
    kind,       \* "relay" or "craigslist": the kind of every thread
    mail,       \* bazaar: the messages of each thread, [by, of]
    changes,    \* bazaar: what it lists, in order: <<thread, message>>, 0 for a block
    blocked,    \* bazaar: the threads that take no more replies
    linked,     \* the threads whose listing belongs to an item
    stat,       \* threads.status, "none" before the row
    known,      \* thread_messages: the messages stored under bazaar's id
    folded,     \* and the replies stored under their intent's
    cur,        \* the reply cursor
    intent,     \* send_intents, "unborn" before the row
    call,       \* the send_reply call on each thread
    cursor,     \* relay_cursor or registration_cursor
    rereads,    \* relay_rereads: "no", or whether an item was found
    handled,    \* registration_seen
    lane,       \* the lane: where its tick is
    ask         \* the open escalation of each thread, and the nudges about it

bazaar  == <<mail, changes, blocked>>
threads == <<stat, known, folded, cur>>
sends   == <<intent, call>>
marks   == <<cursor, rereads, handled>>
fixed   == <<kind, linked>>
vars == <<fixed, bazaar, threads, sends, marks, lane, ask>>

None == "none"
Relay == kind = "relay"
NoCall == [at |-> "idle", of |-> None, tries |-> 0]
Unborn == [st |-> "unborn", on |-> None, pin |-> 0, age |-> 0]
Resting == [at |-> "idle", items |-> {}, next |-> 0, page |-> <<>>, full |-> FALSE,
            n |-> 0, got |-> 0, blk |-> FALSE]
NoAsk == [kind |-> None, from |-> None, since |-> 0, told |-> 0, queued |-> FALSE]

Init ==
    /\ kind \in {"relay", "craigslist"}
    /\ mail = [t \in Threads |-> <<>>] /\ changes = <<>> /\ blocked = {}
    /\ linked \in SUBSET Threads
    /\ stat = [t \in Threads |-> "none"]
    /\ known = [t \in Threads |-> {}] /\ folded = [t \in Threads |-> {}]
    /\ cur = [t \in Threads |-> 0]
    /\ intent = [i \in Intents |-> Unborn] /\ call = [t \in Threads |-> NoCall]
    /\ cursor = 0 /\ rereads = [t \in Threads |-> "no"] /\ handled = {}
    /\ lane = Resting
    /\ ask = [t \in Threads |-> NoAsk]

-----------------------------------------------------------------------------
(* bazaar and the people at its two ends.                                  *)

By(t, n) == mail[t][n].by
Stored == {i \in Intents : \E t \in Threads : \E n \in DOMAIN mail[t] : mail[t][n].of = i}
IdIn(m, i) == CHOOSE n \in DOMAIN m : m[n].of = i

\* The relay lists a thread whenever a message lands; the other lane is listed mail only.
Lands(t, by, i) ==
    /\ mail' = [mail EXCEPT ![t] = Append(@, [by |-> by, of |-> i])]
    /\ changes' = IF Relay \/ by \in {"buyer", "auto"}
                  THEN Append(changes, <<t, Len(mail[t]) + 1>>) ELSE changes
    /\ UNCHANGED blocked

Room == Cardinality({k \in DOMAIN changes :
                       changes[k][2] = 0 \/ By(changes[k][1], changes[k][2]) # "agent"}) < MaxWrites

Writes(t, by) ==
    /\ Room /\ t \notin blocked
    /\ by = "seller" => Relay /\ mail[t] # <<>>
    /\ by = "auto" => ~Relay
    /\ Lands(t, by, None)
    /\ UNCHANGED <<fixed, threads, sends, marks, lane, ask>>

\* A thread takes no more replies: its buyer is blocked, which the relay lists; or the
\* registration's address is used no more.
Blocks(t) ==
    /\ Room /\ t \notin blocked /\ mail[t] # <<>>
    /\ blocked' = blocked \cup {t}
    /\ changes' = IF Relay THEN Append(changes, <<t, 0>>) ELSE changes
    /\ UNCHANGED <<mail, fixed, threads, sends, marks, lane, ask>>

\* An item gets its listing.
Links(t) ==
    /\ t \notin linked
    /\ linked' = linked \cup {t}
    /\ UNCHANGED <<kind, bazaar, threads, sends, marks, lane, ask>>

-----------------------------------------------------------------------------
(* The stream, the timer and the one thread a lane runs on.                *)

\* What a tick starts from: the items and the stored cursor.
Started == [Resting EXCEPT !.at = "list", !.items = linked, !.next = cursor]

\* A ring, a stream's first ready or one after a drop, the timer, or the run that SingleFlight
\* owes for a ring that came during the last one: one run at a time.
Rings ==
    /\ lane.at = "idle"
    /\ lane' = Started
    /\ UNCHANGED <<fixed, bazaar, threads, sends, marks, ask>>

\* The rail is unreachable, or its answer makes no sense or never comes, at any of its calls.
LaneFails ==
    /\ \/ lane.at \in {"list", "settle"}
       \/ lane.at \in {"reread", "sends"} /\ lane.page # <<>>
       \/ Relay /\ lane.at = "page" /\ lane.page # <<>>
    /\ lane' = Resting
    /\ UNCHANGED <<fixed, bazaar, threads, sends, marks, ask>>

-----------------------------------------------------------------------------
(* Reading a page.                                                         *)

ListPage ==
    LET page == SubSeq(changes, lane.next + 1, Min({Len(changes), lane.next + PageSize}))
    IN  /\ lane.at = "list"
        /\ lane' = [lane EXCEPT !.at = "page", !.page = page, !.full = Len(page) = PageSize,
                                !.next = @ + Len(page)]
        /\ UNCHANGED <<fixed, bazaar, threads, sends, marks, ask>>

Here == lane.page[1][1]
AtThread == Relay /\ lane.at \in {"page", "reread"} /\ lane.page # <<>>
Turn(to) == [at |-> to, items |-> lane.items, next |-> lane.next, page |-> Tail(lane.page),
             full |-> lane.full, n |-> 0, got |-> 0, blk |-> FALSE]
Reread(t, how) == rereads' = [rereads EXCEPT ![t] = how]

\* About a listing no item has: kept for the day one does.
LeaveUnplaced ==
    /\ AtThread /\ lane.got = 0
    /\ stat[Here] = "none" /\ Here \notin lane.items
    /\ Reread(Here, "unplaced")
    /\ lane' = Turn(lane.at)
    /\ UNCHANGED <<fixed, bazaar, threads, sends, cursor, handled, ask>>

\* get_thread, and the thread's row.
GetThread ==
    /\ AtThread /\ lane.got = 0
    /\ stat[Here] # "none" \/ Here \in lane.items
    /\ stat' = [stat EXCEPT ![Here] = IF @ = "none" THEN "active" ELSE @]
    /\ lane' = [lane EXCEPT !.got = Len(mail[Here]), !.blk = Here \in blocked]
    /\ UNCHANGED <<fixed, bazaar, known, folded, cur, sends, marks, ask>>

\* One thread bazaar cannot serve holds back no other, and is kept.
GetThreadFails ==
    /\ AtThread /\ lane.got = 0
    /\ Reread(Here, "placed")
    /\ lane' = Turn(lane.at)
    /\ UNCHANGED <<fixed, bazaar, threads, sends, cursor, handled, ask>>

Unsettled == {"pending", "unverified", "unconfirmed"}

\* The body of every commit: the row, under bazaar's id for the relay and the intent's own for
\* the other, and the cursor; and settle_intent_from_read takes back the question it caused.
Commits(i, t, id, upTo) ==
    LET asked == intent[i].st = "unconfirmed" /\ ask[t].kind = "unconfirmed_send"
    IN  /\ intent' = [intent EXCEPT ![i].st = "committed"]
        /\ known' = [known EXCEPT ![t] = @ \cup IF Relay THEN {id} ELSE {}]
        /\ folded' = [folded EXCEPT ![t] = @ \cup IF Relay THEN {} ELSE {i}]
        /\ cur' = [cur EXCEPT ![t] = Max({intent[i].pin, upTo})]
        /\ stat' = [stat EXCEPT ![t] = IF asked THEN ask[t].from ELSE @]
        /\ ask' = [ask EXCEPT ![t] = IF asked THEN NoAsk ELSE @]

LastBuyer(t, n) == Max({0} \cup {m \in 1..n : By(t, m) = "buyer"})

\* One message of the thread, in bazaar's order.  A reply of ours answers the buyer.
RecordMessage ==
    LET t == Here
        n == lane.n + 1
        i == mail[t][n].of
    IN  /\ AtThread /\ lane.n < lane.got
        /\ IF i # None /\ intent[i].st \in Unsettled
           THEN Commits(i, t, n, LastBuyer(t, n)) /\ UNCHANGED call
           ELSE /\ known' = [known EXCEPT ![t] = @ \cup {n}]
                /\ cur' = [cur EXCEPT ![t] =
                              IF By(t, n) = "agent" THEN Max({@, LastBuyer(t, n)}) ELSE @]
                /\ UNCHANGED <<sends, stat, folded, ask>>
        /\ lane' = [lane EXCEPT !.n = n]
        /\ UNCHANGED <<fixed, bazaar, marks>>

\* A blocked buyer's thread closes, unless it waits on the seller; then it is read again.
FinishThread ==
    LET settled == ~lane.blk \/ stat[Here] # "escalated"
    IN  /\ AtThread /\ lane.got # 0 /\ lane.n = lane.got
        /\ stat' = [stat EXCEPT ![Here] = IF lane.blk /\ settled THEN "closed" ELSE @]
        /\ Reread(Here, IF settled THEN "no" ELSE "placed")
        /\ lane' = Turn(lane.at)
        /\ UNCHANGED <<fixed, bazaar, known, folded, cur, sends, cursor, handled, ask>>

-----------------------------------------------------------------------------
(* A registration mail: stored on its thread, then marked as handled.      *)

MailHere == lane.page[1]

AppendMail ==
    LET t == Here
        n == MailHere[2]
        owed == \E m \in known[t] \ {n} : By(t, m) \in {"buyer", "auto"} /\ m > cur[t]
    IN  /\ ~Relay /\ lane.at = "page" /\ lane.page # <<>>
        /\ MailHere \notin handled /\ t \in lane.items
        /\ stat' = [stat EXCEPT ![t] = IF @ = "none" THEN "active" ELSE @]
        /\ known' = [known EXCEPT ![t] = @ \cup {n}]
        /\ cur' = [cur EXCEPT ![t] = IF By(t, n) = "auto" /\ ~owed /\ n > @ THEN n ELSE @]
        /\ lane' = [lane EXCEPT !.at = "mark"]
        /\ UNCHANGED <<fixed, bazaar, folded, sends, marks, ask>>

\* Handled before, or about a post nobody manages.
SkipMail ==
    /\ ~Relay /\ lane.at = "page" /\ lane.page # <<>>
    /\ MailHere \in handled \/ Here \notin lane.items
    /\ handled' = handled \cup {MailHere}
    /\ lane' = Turn("page")
    /\ UNCHANGED <<fixed, bazaar, threads, sends, cursor, rereads, ask>>

MarkSeen ==
    /\ lane.at = "mark"
    /\ handled' = handled \cup {MailHere}
    /\ lane' = Turn("page")
    /\ UNCHANGED <<fixed, bazaar, threads, sends, cursor, rereads, ask>>

-----------------------------------------------------------------------------
(* The rest of a tick.                                                     *)

KeptOnes == {t \in Threads : rereads[t] = "placed" \/ (rereads[t] = "unplaced" /\ t \in lane.items)}

\* Mutant: the cursor of a page is stored before the page is read.
SetCursor_Early ==
    /\ lane.at = "page"
    /\ cursor' = lane.next
    /\ lane' = IF lane.page # <<>> THEN lane
               ELSE IF lane.full THEN [lane EXCEPT !.at = "list"]
               ELSE [lane EXCEPT !.at = "reread",
                                 !.page = SetToSeq({<<t, 0>> : t \in KeptOnes})]
    /\ UNCHANGED <<fixed, bazaar, threads, sends, rereads, handled, ask>>

\* The page is read: its cursor, then the next page or the threads kept for another look.
SetCursor ==
    /\ lane.at = "page" /\ lane.page = <<>>
    /\ cursor' = lane.next
    /\ lane' = IF lane.full THEN [lane EXCEPT !.at = "list"]
               ELSE [lane EXCEPT !.at = "reread",
                                 !.page = SetToSeq({<<t, 0>> : t \in KeptOnes})]
    /\ UNCHANGED <<fixed, bazaar, threads, sends, rereads, handled, ask>>

\* The sends still unsettled that the call has had its time for; none while paused.
Retried ==
    {i \in Intents : intent[i].st \in {"pending", "unverified"} /\ intent[i].age >= 1}

ToSends ==
    /\ lane.at = "reread" /\ lane.page = <<>>
    /\ \E due \in {{}, Retried} :
         lane' = [lane EXCEPT !.at = "sends",
                              !.page = SetToSeq({<<intent[i].on, i>> : i \in due})]
    /\ UNCHANGED <<fixed, bazaar, threads, sends, marks, ask>>

Retrying == lane.page[1][2]
BazaarTakes(t, i) ==
    IF i \in Stored THEN UNCHANGED bazaar ELSE t \notin blocked /\ Lands(t, "agent", i)

\* bazaar holds the reply, now or already.
RetryTaken ==
    /\ lane.at = "sends" /\ lane.page # <<>>
    /\ BazaarTakes(Here, Retrying)
    /\ lane' = [lane EXCEPT !.at = "settle"]
    /\ UNCHANGED <<fixed, threads, sends, marks, ask>>

\* Its answer came: settled, unless it has been meanwhile.
RetrySettles ==
    /\ lane.at = "settle"
    /\ IF intent[Retrying].st \in Unsettled
       THEN Commits(Retrying, Here, IdIn(mail[Here], Retrying), 0)
       ELSE UNCHANGED <<intent, threads, ask>>
    /\ lane' = Turn("sends")
    /\ UNCHANGED <<fixed, bazaar, call, marks>>

Drop(i) == intent' = [intent EXCEPT ![i].st = "dropped"]

\* The thread takes no more: bazaar stored nothing, and never will.
RetryRefused ==
    /\ lane.at = "sends" /\ lane.page # <<>>
    /\ Here \in blocked /\ Retrying \notin Stored
    /\ IF intent[Retrying].st \in {"pending", "unverified"} THEN Drop(Retrying)
       ELSE UNCHANGED intent
    /\ lane' = Turn("sends")
    /\ UNCHANGED <<fixed, bazaar, threads, call, marks, ask>>

\* Mail on an escalated thread, newer than the escalation and than what was told.
News(t) ==
    {n \in known[t] : By(t, n) = "buyer" /\ n > ask[t].since /\ n > ask[t].told}

\* The seller is told of mail on what waits on them, one notice at a time.
Nudges ==
    /\ lane.at = "sends" /\ lane.page = <<>>
    /\ ask' = [t \in Threads |->
         IF Relay /\ ask[t].kind # None /\ ~ask[t].queued /\ News(t) # {}
         THEN [ask[t] EXCEPT !.told = Max(News(t)), !.queued = TRUE] ELSE ask[t]]
    /\ lane' = Resting
    /\ UNCHANGED <<fixed, bazaar, threads, sends, marks>>

NudgeDelivered(t) ==
    /\ ask[t].queued
    /\ ask' = [ask EXCEPT ![t].queued = FALSE]
    /\ UNCHANGED <<fixed, bazaar, threads, sends, marks, lane>>

-----------------------------------------------------------------------------
(* A reply: composed against what is stored, reserved, sent, committed.    *)

Inbound(t) == {n \in known[t] : By(t, n) \in {"buyer", "auto"}}
InDoubt(t) == \E i \in Intents : intent[i].on = t /\ intent[i].st \in {"pending", "unverified"}

\* _UNHANDLED_INBOUND_SQL
Waiting(t) ==
    /\ stat[t] = "active" /\ ~InDoubt(t)
    /\ \E n \in Inbound(t) : n > cur[t]
    /\ ~ \E m \in known[t] : By(t, m) = "seller" /\ m > Max(Inbound(t))

\* A pass claims the thread through its newest message.
Fresh == {i \in Intents : intent[i].st = "unborn" /\ \A u \in Threads : call[u].of # i}

Claims(t) ==
    LET i == CHOOSE i \in Fresh : TRUE
    IN  /\ Waiting(t) /\ call[t].at = "idle" /\ Fresh # {}
        /\ call' = [call EXCEPT ![t] = [at |-> "composing", of |-> i, tries |-> 0]]
        /\ intent' = [intent EXCEPT ![i].pin = Max(Inbound(t))]
        /\ UNCHANGED <<fixed, bazaar, threads, marks, lane, ask>>

\* Refused by the thread's status or an earlier send in doubt; else the intent is written.
ReserveReply(t) ==
    /\ call[t].at = "composing"
    /\ IF stat[t] = "active" /\ ~InDoubt(t)
       THEN /\ call' = [call EXCEPT ![t].at = "reserved"]
            /\ intent' = [intent EXCEPT ![call[t].of].st = "pending", ![call[t].of].on = t]
       ELSE call' = [call EXCEPT ![t] = NoCall] /\ UNCHANGED intent
    /\ UNCHANGED <<fixed, bazaar, threads, marks, lane, ask>>

MarkUnverified(t) ==
    /\ call[t].at = "reserved"
    /\ call' = [call EXCEPT ![t].at = "trying"]
    /\ intent' = [intent EXCEPT ![call[t].of].st = IF @ = "pending" THEN "unverified" ELSE @]
    /\ UNCHANGED <<fixed, bazaar, threads, marks, lane, ask>>

Tried(t) == IF call[t].tries + 1 = Attempts THEN NoCall ELSE [call[t] EXCEPT !.tries = @ + 1]

AttemptSent(t) ==
    /\ call[t].at = "trying"
    /\ BazaarTakes(t, call[t].of)
    /\ call' = [call EXCEPT ![t].at = "sent"]
    /\ UNCHANGED <<fixed, threads, intent, marks, lane, ask>>

\* An attempt whose answer is lost: stored or not, it is tried again under the same id.
AttemptLost(t) ==
    /\ call[t].at = "trying"
    /\ BazaarTakes(t, call[t].of) \/ UNCHANGED bazaar
    /\ call' = [call EXCEPT ![t] = Tried(t)]
    /\ UNCHANGED <<fixed, threads, intent, marks, lane, ask>>

\* Mutant: a refusal after a failed attempt is taken for final.
AttemptRefused_AnyTime(t) ==
    /\ call[t].at = "trying"
    /\ Drop(call[t].of)
    /\ call' = [call EXCEPT ![t] = NoCall]
    /\ UNCHANGED <<fixed, bazaar, threads, marks, lane, ask>>

\* Refused, for a blocked buyer or a key turned away: final on the first attempt only.
AttemptRefused(t) ==
    /\ call[t].at = "trying"
    /\ IF call[t].tries = 0 THEN Drop(call[t].of) ELSE UNCHANGED intent
    /\ call' = [call EXCEPT ![t] = NoCall]
    /\ UNCHANGED <<fixed, bazaar, threads, marks, lane, ask>>

\* Mutant: the reply is recorded under the intent's id whatever bazaar calls it.
CommitReply_OwnName(t) ==
    /\ call[t].at = "sent"
    /\ intent' = [intent EXCEPT ![call[t].of].st = "committed"]
    /\ folded' = [folded EXCEPT ![t] = @ \cup {call[t].of}]
    /\ cur' = [cur EXCEPT ![t] = intent[call[t].of].pin]
    /\ call' = [call EXCEPT ![t] = NoCall]
    /\ UNCHANGED <<fixed, bazaar, known, stat, marks, lane, ask>>

\* commit_reply; the lane may have settled it already.
CommitReply(t) ==
    /\ call[t].at = "sent"
    /\ Commits(call[t].of, t, IdIn(mail[t], call[t].of), 0)
    /\ call' = [call EXCEPT ![t] = NoCall]
    /\ UNCHANGED <<fixed, bazaar, marks, lane>>

-----------------------------------------------------------------------------
(* Time, the seller, and the daemon's life.                                *)

\* RETRY_SEND_AFTER_SEC and then LANE_RETRY_GIVE_UP_SEC pass: the first no sooner than the
\* call's first attempt, the second long after the call is over.
Ages(i) ==
    LET mine == {t \in Threads : call[t].of = i}
    IN  /\ intent[i].st \in {"pending", "unverified"} /\ intent[i].age < 2
        /\ \A t \in mine : intent[i].age = 0 /\ (call[t].tries > 0 \/ call[t].at = "sent")
        /\ intent' = [intent EXCEPT ![i].age = @ + 1]
        /\ UNCHANGED <<fixed, bazaar, threads, call, marks, lane, ask>>

Opens(t, kind_) ==
    /\ stat' = [stat EXCEPT ![t] = IF ask[t].kind = None THEN "escalated" ELSE @]
    /\ ask' = [ask EXCEPT ![t] = IF ask[t].kind # None THEN @
                 ELSE [NoAsk EXCEPT !.kind = kind_, !.from = stat[t], !.since = Len(mail[t])]]

\* stale_intent_sweep: nobody settled it, so the seller is asked.
Sweep(i) ==
    /\ intent[i].st \in {"pending", "unverified"} /\ intent[i].age = 2
    /\ intent' = [intent EXCEPT ![i].st = "unconfirmed"]
    /\ Opens(intent[i].on, "unconfirmed_send")
    /\ UNCHANGED <<fixed, bazaar, known, folded, cur, call, marks, lane>>

Escalates(t) ==
    /\ stat[t] = "active"
    /\ Opens(t, "question")
    /\ UNCHANGED <<fixed, bazaar, known, folded, cur, sends, marks, lane>>

SellerAnswers(t) ==
    /\ ask[t].kind # None
    /\ stat' = [stat EXCEPT ![t] = ask[t].from]
    /\ ask' = [ask EXCEPT ![t] = NoAsk]
    /\ UNCHANGED <<fixed, bazaar, known, folded, cur, sends, marks, lane>>

Dies ==
    /\ lane' = Resting
    /\ call' = [t \in Threads |-> NoCall]
    /\ UNCHANGED <<fixed, bazaar, threads, intent, marks, ask>>

LaneStep ==
    \/ ListPage \/ LeaveUnplaced \/ GetThread \/ GetThreadFails \/ RecordMessage \/ FinishThread
    \/ AppendMail \/ SkipMail \/ MarkSeen \/ SetCursor \/ ToSends
    \/ RetryTaken \/ RetrySettles \/ RetryRefused \/ Nudges \/ LaneFails

SendStep(t) ==
    \/ ReserveReply(t) \/ MarkUnverified(t) \/ AttemptSent(t) \/ AttemptLost(t)
    \/ AttemptRefused(t) \/ CommitReply(t)

Next ==
    \/ LaneStep \/ Rings
    \/ \E t \in Threads :
         \/ \E by \in {"buyer", "auto", "seller"} : Writes(t, by)
         \/ Blocks(t) \/ Links(t) \/ SendStep(t) \/ NudgeDelivered(t)
         \/ Escalates(t) \/ SellerAnswers(t)
         \/ Claims(t)
    \/ \E i \in Intents : Ages(i) \/ Sweep(i)
    \/ Dies

Spec == Init /\ [][Next]_vars

-----------------------------------------------------------------------------
(* Properties.                                                             *)

\* What bazaar will not list again has been read: stored, or its thread is kept to be read
\* again; a registration mail is stored or was about a post nobody managed.  Through crashes
\* between any two transactions and threads that fail to read (relay_lane, registration_lane).
CursorCovers ==
    \A k \in 1..cursor :
      LET t == changes[k][1]
          n == changes[k][2]
      IN  IF ~Relay THEN changes[k] \in handled
          ELSE \/ rereads[t] # "no"
               \/ n \in known[t]
               \/ n = 0 /\ "closed" \in {stat[t], ask[t].from}

\* A transcript shows a reply of ours once, whichever of the call, the lane's retry and the
\* lane's reading records it, and in which order (append_thread_message, commit_reply).
SpokenOnce ==
    \A t \in Threads : \A i \in folded[t] :
      ~ \E n \in known[t] : mail[t][n].of = i

\* What a reply by email is promised to be: see MailPromise.
Fate(st) == CASE st = "unborn" -> "unborn"
              [] st \in {"pending", "unverified"} -> "owed"
              [] st = "unconfirmed" -> "asked"
              [] st = "committed" -> "sent"
              [] st = "dropped" -> "refused"

Promise == INSTANCE MailPromise WITH
    Intent <- Intents, Buyer <- Threads,
    fate <- [i \in Intents |-> Fate(intent[i].st)],
    buyer <- [i \in Intents |-> intent[i].on],
    delivered <- Stored

\* The call with its retries, the lane with its own, the sweep, refusals, lost answers and
\* crashes together keep that promise.
KeepsPromise == Promise!Spec

\* store/helpers: "so does a message that arrives mid-compose" stay eligible.  What the reply
\* cursor covers was there to be read when a reply that answers it was composed.
MidComposeIsOwed ==
    \A t \in Threads : cur[t] > 0 /\ Relay =>
      \E i \in Intents : intent[i].st = "committed" /\ intent[i].on = t /\ cur[t] <= intent[i].pin
=============================================================================
