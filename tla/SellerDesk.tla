----------------------------- MODULE SellerDesk -----------------------------
(***************************************************************************)
(* What the two kinds of pass that answer a person are made of: the        *)
(* seller's messages (channel_inbox), which a channel pass claims and a    *)
(* fold settles, the buyers who wait for a reply pass, and the notices     *)
(* through which the seller is answered.  Receiving, routing, running,     *)
(* folding and delivering are threads and lanes of their own, and only the *)
(* rows survive the daemon.                                                *)
(***************************************************************************)
EXTENDS PassQueue, FiniteSetsExt

CONSTANTS
    Rows,           \* the messages the seller may send, in arrival order
    Taps,           \* those that are taps on an ask nobody can place any more
    Threads,        \* the sell threads
    MaxMsgs,        \* bound: the messages of one buyer
    MaxPasses,      \* bound: a reply pass is enqueued only while there are fewer passes
    MaxNotices      \* bound: the notices ever queued by the agent's own tools

ASSUME SellerDeskAssumption ==
    /\ IsFiniteSet(Rows) /\ Rows = 1..Cardinality(Rows) /\ Taps \subseteq Rows /\ IsFiniteSet(Threads)
    /\ {MaxMsgs, MaxPasses, MaxNotices} \subseteq Nat

VARIABLES
    inbox,          \* channel_inbox: the status of each row, and the pass it is claimed by
    settling,       \* the row whose batch the receive thread has still to settle, or 0
    notices,        \* notices: kind, pass, the row it is about, delivered or not
    heard,          \* the newest message of each buyer
    answered,       \* the message each thread's cursor covers
    tried,          \* the threads that gained a send intent since the last pass started
    cooling         \* whether the last reply pass that sent nothing ended under 300 s ago

desk == <<inbox, settling, notices, heard, answered, tried, cooling>>
vars == <<queue, desk>>

\* A row handled from the start is a command the receive thread answered itself.
DeskInit ==
    /\ QueueInit
    /\ inbox \in [Rows -> {[status |-> s, pass |-> 0] : s \in {"unsent", "handled"}}]
    /\ settling = 0 /\ notices = <<>>
    /\ heard \in [Threads -> 0..MaxMsgs] /\ answered \in [Threads -> 0..MaxMsgs]
    /\ \A t \in Threads : answered[t] <= heard[t]
    /\ tried = {} /\ cooling = FALSE

-----------------------------------------------------------------------------
(* Reads of the rows.                                                      *)

RowsAs(status) == {r \in Rows : inbox[r].status = status}
Unsettled      == RowsAs("pending") \cup RowsAs("claimed")
OwnNotices(p)  == {n \in DOMAIN notices : notices[n].pass = p}
HasSpoken(p)   == OwnNotices(p) # {}
Waiting        == {t \in Threads : heard[t] > answered[t]}

Notice(kind, p, about) ==
    [kind |-> kind, pass |-> p, about |-> about, delivered |-> FALSE]

\* The one chat row the typing indicator is lit for: an active channel pass that has
\* not spoken, unless paused.  Its own bound of 300 s only puts it out sooner.
Lit == {p \in Active("channel") : ~paused /\ ~HasSpoken(p)}

-----------------------------------------------------------------------------
(* Receiving: the rows are stored with the cursor, then the batch is       *)
(* settled outside that transaction.                                       *)

Ingest(r) ==
    /\ daemon = "up" /\ settling = 0
    /\ inbox[r].status = "unsent" /\ \A q \in Rows : q < r => inbox[q].status # "unsent"
    /\ inbox' = [inbox EXCEPT ![r].status = "pending"]
    /\ settling' = r
    /\ UNCHANGED <<queue, notices, heard, answered, tried, cooling>>

\* enqueue_channel_pass: one pass in flight, and it takes every pending row.
CanRoute == Active("channel") = {} /\ RowsAs("pending") # {}

Route ==
    /\ CanRoute
    /\ Enqueued("channel", RowsAs("pending"))
    /\ inbox' = [r \in Rows |-> IF inbox[r].status = "pending"
                                THEN [status |-> "claimed", pass |-> Len(passes) + 1]
                                ELSE inbox[r]]

\* The ack of a tap that cannot be placed is stamped with the pass the seller waits on:
\* the one just enqueued, or the one in flight.  While paused it goes out directly.
SettleBatch ==
    /\ settling # 0
    /\ settling' = 0
    /\ \/ Route
       \/ ~CanRoute /\ UNCHANGED <<passes, inbox>>
    /\ LET active == {p \in DOMAIN passes' : /\ passes'[p].type = "channel"
                                             /\ passes'[p].status \in {"queued", "running"}}
       IN  \E on \in IF active = {} THEN {0} ELSE active :
             notices' = IF settling \in Taps /\ ~paused
                        THEN Append(notices, Notice("unplaced", on, settling))
                        ELSE notices
    /\ UNCHANGED <<lane, tokens, calls, overdue, daemon, paused, stops>>
    /\ UNCHANGED <<heard, answered, tried, cooling>>

\* The lane channel_route, for the rows that waited out a pass.
RouteLane ==
    /\ daemon = "up"
    /\ Route
    /\ UNCHANGED <<lane, tokens, calls, overdue, daemon, paused, stops>>
    /\ UNCHANGED <<settling, notices, heard, answered, tried, cooling>>

-----------------------------------------------------------------------------
(* The reply lane.                                                         *)

Replies == {p \in PassIds : passes[p].type = "reply"}

\* Mutant: a buyer taken up once is never taken up again.
Claimable_Once(skip) ==
    {t \in Waiting \ skip : \A p \in Replies : t \notin {c[1] : c \in passes[p].claim}}
Claimable(skip) == Waiting \ skip

\* The last reply pass that finished, by finished_ts: passes run one at a time, so the
\* youngest that has run.
LastReply == {p \in Replies : passes[p].status \in Terminal}

\* Every claimable buyer still waits on the message that pass claimed for them.
Cooldown(skip) ==
    /\ cooling /\ LastReply # {}
    /\ LET last == passes[Max(LastReply)]
       IN  /\ last.class = "no_send"
           /\ \A t \in Claimable(skip) : <<t, heard[t]>> \in last.claim

\* skip: the threads of the markets a wall stands in front of, or whose next send pacing
\* would refuse as the lane looks.
ReplyLane(skip) ==
    /\ daemon = "up" /\ ~paused
    /\ Active("reply") = {} /\ Claimable(skip) # {} /\ ~Cooldown(skip)
    /\ Len(passes) < MaxPasses
    /\ Enqueued("reply", {<<t, heard[t]>> : t \in Claimable(skip)})
    /\ UNCHANGED <<lane, tokens, calls, overdue, daemon, paused, stops, desk>>

CooldownEnds ==
    /\ cooling
    /\ cooling' = FALSE
    /\ UNCHANGED <<queue, inbox, settling, notices, heard, answered, tried>>

-----------------------------------------------------------------------------
(* What the calls that were let in do, whether or not the pass that asked  *)
(* still runs by then.                                                     *)

Scope(p) == {c[1] : c \in passes[p].claim}

InCall(p, type) == p \in calls /\ passes[p].type = type

SendMessage(p) ==
    /\ InCall(p, "channel")
    /\ Len(notices) < MaxNotices
    /\ notices' = Append(notices, Notice("word", p, 0))
    /\ calls' = calls \ {p}
    /\ UNCHANGED <<passes, lane, tokens, overdue, daemon, paused, stops>>
    /\ UNCHANGED <<inbox, settling, heard, answered, tried, cooling>>

\* A reply in the pass's scope, when pacing says go: an intent is written, which then
\* commits, and the cursor lands where the claim of its pass ended, be that behind where
\* it stands by now; or it does not commit.
SendReply(p, t) ==
    /\ InCall(p, "reply") /\ t \in Scope(p)
    /\ calls' = calls \ {p}
    /\ tried' = tried \cup {t}
    /\ \/ UNCHANGED answered
       \/ \E c \in passes[p].claim :
            c[1] = t /\ answered' = [answered EXCEPT ![t] = c[2]]
    /\ UNCHANGED <<passes, lane, tokens, overdue, daemon, paused, stops>>
    /\ UNCHANGED <<inbox, settling, notices, heard, cooling>>

\* A reply pass reached a send path if a thread of its own gained an intent since it
\* started, whoever wrote it.
Progressed ==
    CASE passes[lane.pass].type = "channel" -> HasSpoken(lane.pass)
      [] OTHER -> tried \cap Scope(lane.pass) # {}

Finishes ==
    /\ FinishPass(Progressed)
    /\ cooling' = IF passes[lane.pass].type = "reply"
                  THEN Classify(Progressed) = "no_send" ELSE cooling
    /\ UNCHANGED <<inbox, settling, notices, heard, answered, tried>>

-----------------------------------------------------------------------------
(* Folding and delivering.                                                 *)

\* Mutant: the fold does not wait for the pass to settle.
Settled_Claimed == {p \in PassIds : \E r \in RowsAs("claimed") : inbox[r].pass = p}
Settled == {p \in PassIds : /\ passes[p].status \in Terminal
                            /\ \E r \in RowsAs("claimed") : inbox[r].pass = p}

\* Mutant: every settled pass is told as a failure.
FoldLane_TellsAll ==
    LET failed == {p \in Settled : passes[p].status = "error"}
    IN  /\ daemon = "up" /\ Settled # {}
        /\ inbox' = [r \in Rows |->
             IF inbox[r].status = "claimed" /\ inbox[r].pass \in Settled
             THEN [inbox[r] EXCEPT !.status = IF inbox[r].pass \in failed THEN "failed"
                                                                         ELSE "handled"]
             ELSE inbox[r]]
        /\ \E order \in [1..Cardinality(Settled) -> Settled] :
             /\ \A i, j \in DOMAIN order : i < j => order[i] < order[j]
             /\ notices' = notices \o [i \in DOMAIN order |-> Notice("failure", order[i], 0)]
        /\ UNCHANGED <<queue, settling, heard, answered, tried, cooling>>

\* fold_settled_inbox: all in one transaction; a pass that failed is told once.
FoldLane ==
    LET failed == {p \in Settled : passes[p].status = "error"}
    IN  /\ daemon = "up" /\ Settled # {}
        /\ inbox' = [r \in Rows |->
             IF inbox[r].status = "claimed" /\ inbox[r].pass \in Settled
             THEN [inbox[r] EXCEPT !.status = IF inbox[r].pass \in failed THEN "failed"
                                                                         ELSE "handled"]
             ELSE inbox[r]]
        /\ \E order \in [1..Cardinality(failed) -> failed] :
             /\ \A i, j \in DOMAIN order : i < j => order[i] < order[j]
             /\ notices' = notices \o [i \in DOMAIN order |-> Notice("failure", order[i], 0)]
        /\ UNCHANGED <<queue, settling, heard, answered, tried, cooling>>

\* drain_notices, oldest first.  A failed delivery, or a kill between the send and its
\* mark, leaves the row as it was, to be sent again.
Undelivered == {n \in DOMAIN notices : ~notices[n].delivered}

Deliver ==
    /\ daemon = "up" /\ ~paused
    /\ \E n \in Undelivered :
         /\ \A m \in Undelivered : n <= m
         /\ notices' = [notices EXCEPT ![n].delivered = TRUE]
    /\ UNCHANGED <<queue, inbox, settling, heard, answered, tried, cooling>>

\* presence.seller_waiting_notice: once per oldest unanswered row, and never stamped
\* with the pass.
SellerWaiting ==
    /\ daemon = "up" /\ ~paused /\ Active("channel") # {}
    /\ \E r \in Unsettled :
         /\ \A q \in Unsettled : r <= q
         /\ \A n \in DOMAIN notices : notices[n].kind # "waiting" \/ notices[n].about # r
         /\ notices' = Append(notices, Notice("waiting", 0, r))
    /\ UNCHANGED <<queue, inbox, settling, heard, answered, tried, cooling>>

-----------------------------------------------------------------------------
(* Buyers, and the queue's own steps.                                      *)

BuyerWrites(t) ==
    /\ heard[t] < MaxMsgs
    /\ heard' = [heard EXCEPT ![t] = @ + 1]
    /\ UNCHANGED <<queue, inbox, settling, notices, answered, tried, cooling>>

\* What dies with the daemon besides the queue's own; and a pass that is claimed starts
\* with no intent of its time.
Forgets ==
    /\ IF daemon' = "down" THEN settling' = 0 ELSE UNCHANGED settling
    /\ tried' = IF lane.at = "idle" /\ lane'.at = "claimed" THEN {} ELSE tried

QueueSteps ==
    /\ QueueStep
    /\ Forgets
    /\ UNCHANGED <<inbox, notices, heard, answered, cooling>>

Next ==
    \/ QueueSteps
    \/ \E r \in Rows : Ingest(r)
    \/ SettleBatch \/ RouteLane \/ CooldownEnds
    \/ Finishes \/ FoldLane \/ Deliver \/ SellerWaiting
    \/ \E p \in PassIds : SendMessage(p)
    \/ \E p \in PassIds, t \in Threads : SendReply(p, t)
    \/ \E t \in Threads : BuyerWrites(t)
    \/ \E skip \in SUBSET Threads : ReplyLane(skip)

Spec == DeskInit /\ [][Next]_vars

\* Every lane and thread of a daemon that is up takes its turns; a lane that a pause holds
\* gets them as long as the pause is lifted again and again; the seller lifts a pause, and
\* the supervisor starts what stopped.  A process ends, or is killed at its deadline.  The
\* markets do not keep their walls for ever, and a delivery that is tried does arrive.
LaneGoesOn ==
    \/ (SpawnError \/ SpawnRaises \/ Spawn \/ Babysits("timeout") \/ RevokeToken) /\ UNCHANGED desk
    \/ Finishes

Fairness ==
    /\ SF_vars(PassLane /\ Forgets /\ UNCHANGED <<inbox, notices, heard, answered, cooling>>)
    /\ WF_vars(LaneGoesOn)
    /\ WF_vars(paused /\ SetPaused /\ UNCHANGED desk)
    /\ WF_vars(Starts /\ UNCHANGED desk)
    /\ WF_vars((\E p \in PassIds : GoesOverdue(p)) /\ UNCHANGED desk)
    /\ WF_vars(SettleBatch) /\ WF_vars(RouteLane) /\ WF_vars(FoldLane)
    /\ WF_vars(CooldownEnds)
    /\ SF_vars(Deliver) /\ SF_vars(ReplyLane({}))

FairSpec == Spec /\ Fairness

-----------------------------------------------------------------------------
(* Properties.                                                             *)

NoticeKinds == {"word", "unplaced", "failure", "waiting"}

TypeOK ==
    /\ \A p \in PassIds :
         /\ DOMAIN passes[p] = {"type", "claim", "status", "class"}
         /\ \/ passes[p].type = "channel" /\ passes[p].claim \subseteq Rows
            \/ passes[p].type = "reply" /\ passes[p].claim \subseteq Threads \X (1..MaxMsgs)
         /\ passes[p].status \in {"queued", "running"} \cup Terminal
         /\ passes[p].class \in {"none", "ok", "no_send", "fault"}
    /\ lane \in [pass : {0} \cup PassIds, at : {"idle", "claimed", "watching", "ok", "fault", "settled"}]
    /\ calls \subseteq PassIds /\ tokens \subseteq PassIds /\ overdue \subseteq PassIds
    /\ daemon \in {"up", "down"} /\ paused \in BOOLEAN /\ stops \in 0..MaxStops
    /\ inbox \in [Rows -> [status : {"unsent", "pending", "claimed", "handled", "failed"},
                           pass : {0} \cup PassIds]]
    /\ settling \in {0} \cup Rows
    /\ notices \in Seq([kind : NoticeKinds, pass : {0} \cup PassIds,
                        about : {0} \cup Rows, delivered : BOOLEAN])
    /\ heard \in [Threads -> 0..MaxMsgs] /\ answered \in [Threads -> 0..MaxMsgs]
    /\ tried \subseteq Threads /\ cooling \in BOOLEAN

\* Only the pass in hand can begin anything.  A call is let in for the pass the lane
\* runs and no other, while its row runs or has just been settled, never after the stale
\* sweep could have written it off, and with every younger pass still in the queue: so
\* once a pass has been claimed, whatever kill, raised spawn, pause, stop or restart came
\* between, all that the passes before it can still do is finish the calls they had in
\* hand (http_server.resolve, passes.run_pass, fail_stale_running, the deadline's slack).
OneHand ==
    [][\A p \in calls' \ calls :
          /\ p = lane.pass /\ p \notin overdue
          /\ passes[p].status = "running" \/ lane.at = "settled"
          /\ \A q \in PassIds : q > p => passes[q].status = "queued"]_vars

\* While the chat shows the agent typing, the pass it shows it for holds a message of the
\* seller's that nothing has settled (outbound.typing_target reads the pass and its
\* notices only, never the rows).
TypingIsOwed ==
    \A p \in Lit : \E r \in Rows : inbox[r] = [status |-> "claimed", pass |-> p]

\* A message is written off exactly when the seller is asked, once, to say it again: one
\* failure notice for each pass whose rows were failed, none for a pass whose rows were
\* not, across crashes between the end of a pass and its fold (fold_settled_inbox).
FailedIsTold ==
    \A p \in PassIds :
      Cardinality({n \in OwnNotices(p) : notices[n].kind = "failure"})
        = IF \E r \in Rows : inbox[r] = [status |-> "failed", pass |-> p] THEN 1 ELSE 0

\* Every message the seller sent that was stored for a pass is settled in the end, and words
\* queued under that pass reach the chat: whatever of daemon, process, pause and delivery
\* fails, the seller is not left with silence (channel_route, pass_lane, inbox_fold, drain).
Words(p) == {n \in OwnNotices(p) : notices[n].delivered}

EveryWordIsAnswered ==
    \A r \in Rows :
      inbox[r].status = "pending"
        ~> inbox[r].status \in {"handled", "failed"} /\ Words(inbox[r].pass) # {}

\* A buyer who waits is answered or taken up by a reply pass, unless the instance has no
\* pass left to give: no pass that hung, was killed with its daemon or sent nothing holds
\* the lane shut for good (reply_lane, in_no_send_cooldown, fail_stale_running).
TakenUp(t) == \E p \in Replies : <<t, heard[t]>> \in passes[p].claim

BuyersAreServed ==
    \A t \in Threads :
      t \in Waiting ~> t \notin Waiting \/ TakenUp(t)
                         \/ /\ Len(passes) >= MaxPasses
                            /\ \A p \in Replies : passes[p].status \in Terminal

=============================================================================
