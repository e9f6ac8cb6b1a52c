------------------------- MODULE SendBracketProofs -------------------------
(***************************************************************************)
(* Proofs about SendBracket, for every value of its constants.  Safe is    *)
(* shown inductive one conjunct at a time.  The frame lemmas say which     *)
(* steps can touch the variables a conjunct reads, so that each of its     *)
(* proofs has a case for those steps and one for all the others.           *)
(***************************************************************************)
EXTENDS SendBracket, TLAPS

\* The status of a thread and its ask are written by a find of the lane, the
\* sweep and the operations on the thread itself.
LEMMA ThreadFrame ==
    ASSUME Next
    PROVE  \/ UNCHANGED threadVars
           \/ \E i \in Intent : LaneFinds(i)
           \/ Sweep
           \/ \E t \in Thread : ThreadStep(t)
  BY Zenon DEF Next, SenderStep, LaneStep, Admit, ReserveRefused, Reserve, TakeBrowser,
     SendFails, PageTakes, CommitRaises, Mark, VerifyFound, VerifyUnfound, Commit, Land,
     LaneStart, LaneMisses, LaneRecords, LaneEnds, EnqueueReplyPass, PassEnds, Tick, Crash

\* The transcript, the cursor and the claim are written by a commit, a find, the
\* reads of the lane, the operations on a thread and the reply pass.
LEMMA RowFrame ==
    ASSUME Next
    PROVE  \/ UNCHANGED <<rowVars, through>>
           \/ \E s \in Sender : Commit(s)
           \/ \E i \in Intent : LaneFinds(i)
           \/ \E t \in Thread : LaneRecords(t) \/ ThreadStep(t)
           \/ EnqueueReplyPass \/ PassEnds
  BY Zenon DEF Next, SenderStep, LaneStep, Admit, ReserveRefused, Reserve, TakeBrowser,
     SendFails, PageTakes, CommitRaises, Mark, VerifyFound, VerifyUnfound, Land,
     LaneStart, LaneMisses, LaneEnds, Sweep, Tick, Crash, passVars

\* An intent is written by its sender's reserve, stamp and commit, by the lane's
\* looks, by the sweep and by time.
LEMMA IntentFrame ==
    ASSUME Next
    PROVE  \/ UNCHANGED <<intentVars, seen>>
           \/ \E s \in Sender : Reserve(s) \/ Mark(s) \/ Commit(s)
           \/ \E s \in Sender, i \in Intent : Admit(s, i)
           \/ \E i \in Intent : LaneFinds(i) \/ LaneMisses(i)
           \/ Sweep \/ Tick
  BY Zenon DEF Next, SenderStep, LaneStep, ThreadStep, ReserveRefused, TakeBrowser,
     SendFails, PageTakes, CommitRaises, VerifyFound, VerifyUnfound, Land, LaneStart,
     LaneRecords, LaneEnds, Escalate, ResolveAsk, Reactivate, Close, Hold, Release,
     RecordManual, EnqueueReplyPass, PassEnds, Crash

\* Only a sender's own step, or a crash, moves a sender.
LEMMA SenderFrame ==
    ASSUME Next
    PROVE  \/ UNCHANGED senderVars
           \/ \E s \in Sender : SenderStep(s)
           \/ Crash
  BY Zenon DEF Next, LaneStep, ThreadStep, Land, LaneStart, LaneFinds, LaneMisses,
     LaneRecords, LaneEnds, Sweep, Escalate, ResolveAsk, Reactivate, Close, Hold,
     Release, RecordManual, EnqueueReplyPass, PassEnds, Tick

\* The operations on a thread, the sweep and time leave the browser, the page and
\* the bounds alone.
LEMMA SharedFrame ==
    ASSUME Next
    PROVE  \/ UNCHANGED <<lock, todo, pass, pageVars, bounds>>
           \/ \E s \in Sender : SenderStep(s)
           \/ \E i \in Intent : Land(i)
           \/ LaneStep
           \/ EnqueueReplyPass \/ PassEnds \/ Crash
  BY Zenon DEF Next, ThreadStep, Sweep, Escalate, ResolveAsk, Reactivate, Close, Hold,
     Release, RecordManual, Tick, passVars

\* The initial state is safe: nothing is reserved, held or accepted.
LEMMA InitSafe == Init => Safe
<1> SUFFICES ASSUME Init PROVE Safe
  OBVIOUS
<1> USE ConstantsAssumption DEF Init
<1>1. ThreadTypes
  BY DEF ThreadTypes, ThreadStatus, AskKind
<1>2. RowTypes
  BY DEF RowTypes
<1>3. IntentTypes
  BY DEF IntentTypes, IntentStatus
<1>4. SenderTypes
  BY DEF SenderTypes, SenderAt
<1>5. SharedTypes
  BY DEF SharedTypes
<1>6. Assigned
  BY DEF Assigned, InFlight, NoIntent
<1>7. Exclusive
  BY DEF Exclusive, AtBrowser
<1>8. Accepted /\ ClearAhead /\ OneUnknownSend
  BY DEF Accepted, ClearAhead, OneUnknownSend
<1>. QED
  BY <1>1, <1>2, <1>3, <1>4, <1>5, <1>6, <1>7, <1>8 DEF Safe, TypeOK

-----------------------------------------------------------------------------
\* No step leaves a thread with a status, a memory or an ask of another kind; the
\* memory of an escalation is never "escalated", nor that of a hold "held".
LEMMA ThreadTypesStep == ASSUME TypeOK, Next PROVE ThreadTypes'
<1> USE ConstantsAssumption DEF TypeOK, ThreadTypes, ThreadStatus, AskKind
<1>1. CASE UNCHANGED threadVars
  BY <1>1 DEF threadVars
<1>2. ASSUME NEW i \in Intent, LaneFinds(i) PROVE ThreadTypes'
  BY <1>2 DEF LaneFinds, Withdraw
<1>3. CASE Sweep
  BY <1>3 DEF Sweep, OpenAsks
<1>4. ASSUME NEW t \in Thread, ThreadStep(t) PROVE ThreadTypes'
  <2>1. CASE Escalate(t)
    BY <2>1 DEF Escalate, OpenAsks
  <2>2. CASE ResolveAsk(t) \/ Reactivate(t) \/ Close(t)
    BY <2>2 DEF ResolveAsk, Reactivate, Close
  <2>3. CASE Hold(t)
    BY <2>3 DEF Hold
  <2>4. CASE Release(t)
    BY <2>4 DEF Release
  <2>5. CASE RecordManual(t)
    BY <2>5 DEF RecordManual, threadVars
  <2>. QED BY <1>4, <2>1, <2>2, <2>3, <2>4, <2>5 DEF ThreadStep
<1>. QED BY <1>1, <1>2, <1>3, <1>4, ThreadFrame

\* Messages, cursors and claims stay within the messages a buyer may write.
LEMMA RowTypesStep == ASSUME TypeOK, Assigned, Next PROVE RowTypes'
<1> USE ConstantsAssumption DEF TypeOK, RowTypes
<1>1. CASE UNCHANGED <<rowVars, through>>
  BY <1>1 DEF rowVars
<1>2. ASSUME NEW s \in Sender, Commit(s) PROVE RowTypes'
  <2>1. job[s] \in Intent /\ ThreadOf[job[s]] \in Thread
    BY <1>2 DEF Commit, Assigned
  <2>2. CursorTarget(ThreadOf[job[s]], given[s], named[s]) \in 0..MaxInbound
    BY <2>1 DEF CursorTarget, SenderTypes
  <2>. QED BY <1>2, <2>1, <2>2 DEF Commit, CommitReply, passVars
<1>3. ASSUME NEW i \in Intent, LaneFinds(i) PROVE RowTypes'
  <2>1. ThreadOf[i] \in Thread
    OBVIOUS
  <2>2. CursorTarget(ThreadOf[i], 0, pinned[i]) \in 0..MaxInbound
    BY <2>1 DEF CursorTarget, IntentTypes
  <2>. QED BY <1>3, <2>1, <2>2 DEF LaneFinds, CommitReply, passVars
<1>4. ASSUME NEW t \in Thread, LaneRecords(t) PROVE RowTypes'
  BY <1>4 DEF LaneRecords, passVars
<1>5. ASSUME NEW t \in Thread, ThreadStep(t) PROVE RowTypes'
  <2>1. CASE Hold(t)
    BY <2>1 DEF Hold, passVars
  <2>2. CASE RecordManual(t)
    BY <2>2 DEF RecordManual, passVars
  <2>3. CASE Escalate(t) \/ ResolveAsk(t) \/ Reactivate(t) \/ Close(t) \/ Release(t)
    BY <2>3 DEF Escalate, ResolveAsk, Reactivate, Close, Release, rowVars, passVars
  <2>. QED BY <1>5, <2>1, <2>2, <2>3 DEF ThreadStep
<1>6. CASE EnqueueReplyPass
  BY <1>6 DEF EnqueueReplyPass, rowVars
<1>7. CASE PassEnds
  BY <1>7 DEF PassEnds, rowVars
<1>. QED BY <1>1, <1>2, <1>3, <1>4, <1>5, <1>6, <1>7, RowFrame

\* The looks the lane counts stay within MAX_VERIFY_ATTEMPTS, because its list
\* holds only intents below it and only the lane counts.
LEMMA IntentTypesStep == ASSUME TypeOK, Assigned, Exclusive, Next PROVE IntentTypes'
<1> USE ConstantsAssumption DEF TypeOK, IntentTypes, IntentStatus, Unsettled
<1>1. CASE UNCHANGED <<intentVars, seen>>
  BY <1>1 DEF intentVars
<1>2. ASSUME NEW s \in Sender, Reserve(s) PROVE IntentTypes'
  <2>1. job[s] \in Intent /\ ThreadOf[job[s]] \in Thread
    BY <1>2 DEF Reserve, Assigned
  <2>2. CursorTarget(ThreadOf[job[s]], given[s], 0) \in 0..MaxInbound
    BY <2>1 DEF CursorTarget, SenderTypes, RowTypes
  <2>. QED BY <1>2, <2>1, <2>2 DEF Reserve, SenderTypes
<1>3. ASSUME NEW s \in Sender, Mark(s) PROVE IntentTypes'
  BY <1>3 DEF Mark
<1>4. ASSUME NEW s \in Sender, Commit(s) PROVE IntentTypes'
  BY <1>4 DEF Commit, CommitReply
<1>5. ASSUME NEW s \in Sender, NEW i \in Intent, Admit(s, i) PROVE IntentTypes'
  <2>1. ThreadOf[i] \in Thread
    OBVIOUS
  <2>. QED BY <1>5, <2>1 DEF Admit, intentVars, RowTypes
<1>6. ASSUME NEW i \in Intent, LaneFinds(i) PROVE IntentTypes'
  BY <1>6 DEF LaneFinds, CommitReply
<1>7. ASSUME NEW i \in Intent, LaneMisses(i) PROVE IntentTypes'
  BY <1>7 DEF LaneMisses, Exclusive
<1>8. CASE Sweep
  BY <1>8 DEF Sweep
<1>9. CASE Tick
  BY <1>9 DEF Tick
<1>. QED
  BY <1>1, <1>2, <1>3, <1>4, <1>5, <1>6, <1>7, <1>8, <1>9, IntentFrame

\* A sender's step leaves it at a known place, with an intent, a message and a
\* watermark in range.
LEMMA SenderTypesStep == ASSUME TypeOK, Next PROVE SenderTypes'
<1> USE ConstantsAssumption DEF TypeOK, SenderTypes, SenderAt
<1>1. CASE UNCHANGED senderVars
  BY <1>1 DEF senderVars
<1>2. ASSUME NEW s \in Sender, SenderStep(s) PROVE SenderTypes'
  <2>1. ASSUME NEW i \in Intent, Admit(s, i) PROVE SenderTypes'
    <3>1. PICK m \in 0..inbound[ThreadOf[i]] : named' = [named EXCEPT ![s] = m]
      BY <2>1 DEF Admit
    <3>2. ThreadOf[i] \in Thread
      OBVIOUS
    <3>3. m \in 0..MaxInbound
      BY <3>1, <3>2 DEF RowTypes
    <3>4. named' \in [Sender -> 0..MaxInbound]
      BY <3>1, <3>3
    <3>5. given' \in [Sender -> 0..MaxInbound]
      BY <2>1, <3>2 DEF Admit, RowTypes
    <3>. QED BY <2>1, <3>4, <3>5 DEF Admit
  <2>2. CASE Reserve(s) \/ TakeBrowser(s) \/ PageTakes(s) \/ Mark(s) \/ VerifyFound(s)
    BY <2>2 DEF Reserve, TakeBrowser, PageTakes, Mark, VerifyFound
  <2>3. ASSUME Returns(s) PROVE SenderTypes'
    BY <2>3 DEF Returns
  <2>. QED
    BY <1>2, <2>1, <2>2, <2>3, Zenon
    DEF SenderStep, ReserveRefused, SendFails, CommitRaises, VerifyUnfound, Commit
<1>3. CASE Crash
  BY <1>3 DEF Crash
<1>. QED BY <1>1, <1>2, <1>3, SenderFrame

\* The mutex, the lane's list, the pass, the page and the bounds keep their types.
LEMMA SharedTypesStep == ASSUME TypeOK, Assigned, Next PROVE SharedTypes'
<1> USE ConstantsAssumption DEF TypeOK, SharedTypes
<1>1. CASE UNCHANGED <<lock, todo, pass, pageVars, bounds>>
  BY <1>1 DEF pageVars, bounds
<1>2. ASSUME NEW s \in Sender, SenderStep(s) PROVE SharedTypes'
  <2>1. CASE \/ ReserveRefused(s) \/ Reserve(s) \/ Mark(s) \/ Commit(s)
             \/ \E i \in Intent : Admit(s, i)
    BY <2>1 DEF ReserveRefused, Reserve, Mark, Commit, Admit, passVars, pageVars, bounds
  <2>2. CASE TakeBrowser(s) \/ SendFails(s) \/ VerifyFound(s) \/ VerifyUnfound(s)
    BY <2>2 DEF TakeBrowser, SendFails, VerifyFound, VerifyUnfound, passVars, pageVars, bounds
  <2>3. CASE PageTakes(s)
    BY <2>3 DEF PageTakes, Assigned, passVars, bounds
  <2>4. CASE CommitRaises(s)
    BY <2>4 DEF CommitRaises, Assigned, passVars
  <2>. QED BY <1>2, <2>1, <2>2, <2>3, <2>4 DEF SenderStep
<1>3. ASSUME NEW i \in Intent, Land(i) PROVE SharedTypes'
  BY <1>3 DEF Land, passVars, bounds
<1>4. CASE LaneStep
  BY <1>4 DEF LaneStep, LaneStart, Unread, LaneFinds, LaneMisses, LaneRecords, LaneEnds,
     passVars, pageVars, bounds
<1>5. CASE EnqueueReplyPass \/ PassEnds
  BY <1>5 DEF EnqueueReplyPass, PassEnds, pageVars, bounds
<1>6. CASE Crash
  BY <1>6 DEF Crash, pageVars
<1>. QED BY <1>1, <1>2, <1>3, <1>4, <1>5, <1>6, SharedFrame

-----------------------------------------------------------------------------
\* Whatever is not a sender's own reserve leaves an intent unborn or born as it is.
LEMMA StatusFrame ==
    ASSUME TypeOK, Assigned, Exclusive, Next
    PROVE  \/ \E s \in Sender : Reserve(s)
           \/ \A i \in Intent : status'[i] = "unborn" <=> status[i] = "unborn"
<1> USE DEF TypeOK, IntentTypes
<1>1. CASE UNCHANGED <<intentVars, seen>>
  BY <1>1 DEF intentVars
<1>2. ASSUME NEW s \in Sender, Mark(s) \/ Commit(s)
      PROVE  \A i \in Intent : status'[i] = "unborn" <=> status[i] = "unborn"
  BY <1>2 DEF Mark, Commit, CommitReply, Assigned, InFlight
<1>3. ASSUME NEW s \in Sender, NEW i \in Intent, Admit(s, i)
      PROVE  UNCHANGED status
  BY <1>3 DEF Admit, intentVars
<1>4. ASSUME NEW i \in Intent, LaneFinds(i) \/ LaneMisses(i)
      PROVE  \A j \in Intent : status'[j] = "unborn" <=> status[j] = "unborn"
  BY <1>4 DEF LaneFinds, LaneMisses, CommitReply, Unsettled
<1>5. CASE Sweep
  BY <1>5 DEF Sweep, Stale
<1>6. CASE Tick
  BY <1>6 DEF Tick
<1>. QED BY <1>1, <1>2, <1>3, <1>4, <1>5, <1>6, IntentFrame

\* A sender keeps its intent and its thread to itself: admission takes an intent
\* nobody works on, and the reserve finds no other send of the thread in flight.
LEMMA AssignedStep == ASSUME TypeOK, Assigned, Exclusive, Next PROVE Assigned'
<1> USE ConstantsAssumption DEF TypeOK, SenderTypes, IntentTypes, InFlight, NoIntent
<1>1. CASE UNCHANGED senderVars
  <2>1. ~ \E s \in Sender : Reserve(s)
    BY <1>1 DEF Reserve, senderVars
  <2>. QED BY <1>1, <2>1, StatusFrame DEF Assigned, senderVars
<1>2. ASSUME NEW s \in Sender, NEW i \in Intent, Admit(s, i) PROVE Assigned'
  BY <1>2 DEF Admit, Assigned, intentVars
<1>3. ASSUME NEW s \in Sender, Reserve(s) PROVE Assigned'
  BY <1>3 DEF Reserve, Assigned, Busy
<1>4. ASSUME NEW s \in Sender,
             \/ TakeBrowser(s) \/ PageTakes(s) \/ Mark(s) \/ VerifyFound(s)
      PROVE  Assigned'
  BY <1>4 DEF TakeBrowser, PageTakes, Mark, VerifyFound, Assigned, intentVars
<1>5. ASSUME NEW s \in Sender,
             \/ ReserveRefused(s) \/ SendFails(s) \/ CommitRaises(s)
             \/ VerifyUnfound(s) \/ Commit(s)
      PROVE  Assigned'
  BY <1>5 DEF ReserveRefused, SendFails, CommitRaises, VerifyUnfound, Commit, CommitReply,
     Returns, Assigned, intentVars
<1>6. CASE Crash
  BY <1>6 DEF Crash, Assigned, intentVars
<1>. QED BY <1>1, <1>2, <1>3, <1>4, <1>5, <1>6, SenderFrame DEF SenderStep

\* The browser has one driver: a sender takes it free and lets it go in the step
\* that ends its driving, and the lane's list is dropped with the browser.
LEMMA ExclusiveStep == ASSUME TypeOK, Assigned, Exclusive, Next PROVE Exclusive'
<1> USE ConstantsAssumption
    DEF TypeOK, SenderTypes, IntentTypes, SharedTypes, AtBrowser, InFlight
<1>1. ASSUME NEW s \in Sender, NEW i \in Intent, Admit(s, i) PROVE Exclusive'
  BY <1>1 DEF Admit, Exclusive, intentVars
<1>2. ASSUME NEW s \in Sender, Reserve(s) PROVE Exclusive'
  BY <1>2 DEF Reserve, Exclusive
<1>3. ASSUME NEW s \in Sender, TakeBrowser(s) \/ PageTakes(s) PROVE Exclusive'
  BY <1>3 DEF TakeBrowser, PageTakes, Exclusive, intentVars
<1>4. ASSUME NEW s \in Sender, Mark(s) \/ Commit(s) PROVE Exclusive'
  BY <1>4 DEF Mark, Commit, CommitReply, Returns, Assigned, Exclusive
<1>5. ASSUME NEW s \in Sender,
             ReserveRefused(s) \/ SendFails(s) \/ CommitRaises(s)
             \/ VerifyFound(s) \/ VerifyUnfound(s)
      PROVE  Exclusive'
  BY <1>5 DEF ReserveRefused, SendFails, CommitRaises, VerifyFound, VerifyUnfound, Returns,
     Exclusive, intentVars
<1>6. ASSUME NEW i \in Intent, Land(i) PROVE Exclusive'
  BY <1>6 DEF Land, Exclusive, senderVars, intentVars
<1>7. CASE LaneStart
  BY <1>7 DEF LaneStart, Unread, Exclusive, senderVars, intentVars, Unsettled
<1>8. ASSUME NEW i \in Intent, LaneFinds(i) PROVE Exclusive'
  BY <1>8 DEF LaneFinds, CommitReply, Exclusive, senderVars
<1>9. ASSUME NEW i \in Intent, LaneMisses(i) PROVE Exclusive'
  BY <1>9 DEF LaneMisses, Exclusive, senderVars
<1>10. ASSUME NEW t \in Thread, LaneRecords(t) PROVE Exclusive'
  BY <1>10 DEF LaneRecords, Exclusive, senderVars, intentVars
<1>11. CASE LaneEnds
  BY <1>11 DEF LaneEnds, Exclusive, senderVars, intentVars
<1>12. CASE Sweep
  BY <1>12 DEF Sweep, Exclusive, senderVars
<1>13. CASE Tick
  BY <1>13 DEF Tick, Exclusive, senderVars
<1>14. CASE EnqueueReplyPass \/ PassEnds \/ \E t \in Thread : ThreadStep(t)
  BY <1>14 DEF EnqueueReplyPass, PassEnds, ThreadStep, Escalate, ResolveAsk, Reactivate,
     Close, Hold, Release, RecordManual, Exclusive, senderVars, intentVars
<1>15. CASE Crash
  BY <1>15 DEF Crash, Exclusive, intentVars
<1>. QED
  BY <1>1, <1>2, <1>3, <1>4, <1>5, <1>6, <1>7, <1>8, <1>9, <1>10, <1>11, <1>12, <1>13,
     <1>14, <1>15 DEF Next, SenderStep, LaneStep

\* Beyond its sender's own steps and a crash, nothing is accepted by a page, and no
\* intent becomes pending, or known accepted and not arrived.
LEMMA DoubtFrame ==
    ASSUME TypeOK, Assigned, Exclusive, Next
    PROVE  \/ \E s \in Sender : SenderStep(s)
           \/ /\ taken' = taken
              /\ \A i \in Intent : status'[i] \in {"pending", "sent_unverified"}
                                    => status'[i] = status[i]
<1> USE DEF TypeOK, IntentTypes
<1>1. CASE UNCHANGED <<intentVars, pageVars>>
  BY <1>1 DEF intentVars, pageVars
<1>2. ASSUME NEW i \in Intent, LaneFinds(i) \/ LaneMisses(i)
      PROVE  /\ taken' = taken
             /\ \A j \in Intent : status'[j] \in {"pending", "sent_unverified"}
                                    => status'[j] = status[j]
  BY <1>2 DEF LaneFinds, LaneMisses, CommitReply, pageVars
<1>3. CASE Sweep \/ Tick
  BY <1>3 DEF Sweep, Tick, pageVars
<1>4. ASSUME NEW i \in Intent, Land(i)
      PROVE  /\ taken' = taken
             /\ \A j \in Intent : status'[j] \in {"pending", "sent_unverified"}
                                    => status'[j] = status[j]
  BY <1>4 DEF Land, intentVars
<1>. QED
  BY <1>1, <1>2, <1>3, <1>4, Zenon DEF Next, LaneStep, LaneStart, LaneRecords, LaneEnds,
     ThreadStep, Escalate, ResolveAsk, Reactivate, Close, Hold, Release, RecordManual,
     EnqueueReplyPass, PassEnds, Crash

\* The page changes under a commit, and when it shows a message.
LEMMA PageFrame ==
    ASSUME Next
    PROVE  \/ UNCHANGED pageVars
           \/ \E s \in Sender : PageTakes(s) \/ CommitRaises(s)
           \/ \E i \in Intent : Land(i)
  BY Zenon DEF Next, SenderStep, LaneStep, ThreadStep, Admit, ReserveRefused, Reserve,
     TakeBrowser, SendFails, Mark, VerifyFound, VerifyUnfound, Commit, LaneStart, LaneFinds,
     LaneMisses, LaneRecords, LaneEnds, Sweep, Escalate, ResolveAsk, Reactivate, Close, Hold,
     Release, RecordManual, EnqueueReplyPass, PassEnds, Tick, Crash

\* The page is offered a message once, by the sender that reserved it; from the
\* stamp on the intent is known to have been accepted.
LEMMA AcceptedStep == ASSUME TypeOK, Assigned, Exclusive, Accepted, Next PROVE Accepted'
<1> USE ConstantsAssumption
    DEF TypeOK, SenderTypes, IntentTypes, SharedTypes, InFlight, NoIntent
<1>1. page' \subseteq taken'
  <2>1. CASE UNCHANGED pageVars
    BY <2>1 DEF Accepted, pageVars
  <2>2. ASSUME NEW s \in Sender, PageTakes(s) \/ CommitRaises(s) PROVE page' \subseteq taken'
    BY <2>2 DEF PageTakes, CommitRaises, Accepted
  <2>3. ASSUME NEW i \in Intent, Land(i) PROVE page' \subseteq taken'
    BY <2>3 DEF Land, Accepted
  <2>. QED BY <2>1, <2>2, <2>3, PageFrame
<1>2. ASSUME NEW s \in Sender, SenderStep(s) PROVE Accepted'
  <2>1. ASSUME NEW i \in Intent, Admit(s, i) PROVE Accepted'
    BY <2>1, <1>1 DEF Admit, Accepted, Assigned, intentVars, pageVars
  <2>2. CASE Reserve(s)
    BY <2>2, <1>1 DEF Reserve, Accepted, Assigned, pageVars
  <2>3. CASE TakeBrowser(s)
    BY <2>3, <1>1 DEF TakeBrowser, Accepted, intentVars, pageVars
  <2>4. CASE PageTakes(s)
    BY <2>4, <1>1 DEF PageTakes, Accepted, Assigned, intentVars
  <2>5. CASE CommitRaises(s)
    BY <2>5, <1>1 DEF CommitRaises, Returns, Accepted, Assigned, intentVars
  <2>6. CASE Mark(s)
    BY <2>6, <1>1 DEF Mark, Accepted, Assigned, pageVars
  <2>7. CASE VerifyFound(s)
    BY <2>7, <1>1 DEF VerifyFound, Accepted, intentVars, pageVars
  <2>8. CASE ReserveRefused(s) \/ SendFails(s) \/ VerifyUnfound(s)
    BY <2>8, <1>1 DEF ReserveRefused, SendFails, VerifyUnfound, Returns, Accepted,
       intentVars, pageVars
  <2>9. CASE Commit(s)
    BY <2>9, <1>1 DEF Commit, CommitReply, Returns, Accepted, Assigned, pageVars
  <2>. QED BY <1>2, <2>1, <2>2, <2>3, <2>4, <2>5, <2>6, <2>7, <2>8, <2>9 DEF SenderStep
<1>3. CASE ~ \E s \in Sender : SenderStep(s)
  <2>1. /\ taken' = taken
        /\ \A i \in Intent : status'[i] \in {"pending", "sent_unverified"}
                              => status'[i] = status[i]
    BY <1>3, DoubtFrame
  <2>2. \A i \in Intent : status'[i] = "unborn" => status[i] = "unborn"
    BY <1>3, StatusFrame DEF SenderStep
  <2>3. CASE UNCHANGED senderVars
    BY <2>1, <2>2, <2>3, <1>1 DEF Accepted, Assigned, senderVars
  <2>4. CASE Crash
    BY <2>1, <2>2, <2>4, <1>1 DEF Accepted, Crash
  <2>. QED BY <1>3, <2>3, <2>4, SenderFrame
<1>. QED BY <1>2, <1>3

\* Once reserved, a send meets no other doubt on its thread until its own: the
\* reserve saw none, and only the thread's own sender may stamp one.
LEMMA ClearAheadStep ==
    ASSUME TypeOK, Assigned, Exclusive, Accepted, ClearAhead, Next
    PROVE  ClearAhead'
<1> USE ConstantsAssumption
    DEF TypeOK, SenderTypes, IntentTypes, SharedTypes, InFlight, NoIntent
<1>1. ASSUME NEW s \in Sender, SenderStep(s) PROVE ClearAhead'
  <2>1. ASSUME NEW i \in Intent, Admit(s, i) PROVE ClearAhead'
    BY <2>1 DEF Admit, ClearAhead, intentVars
  <2>2. CASE Reserve(s)
    BY <2>2 DEF Reserve, ClearAhead, UnverifiedOpen, On
  <2>3. CASE TakeBrowser(s) \/ PageTakes(s) \/ VerifyFound(s)
    BY <2>3 DEF TakeBrowser, PageTakes, VerifyFound, ClearAhead, intentVars
  <2>4. CASE Mark(s)
    BY <2>4 DEF Mark, ClearAhead, Assigned
  <2>5. CASE ReserveRefused(s) \/ SendFails(s) \/ CommitRaises(s) \/ VerifyUnfound(s)
    BY <2>5 DEF ReserveRefused, SendFails, CommitRaises, VerifyUnfound, Returns, ClearAhead,
       intentVars
  <2>6. CASE Commit(s)
    BY <2>6 DEF Commit, CommitReply, Returns, ClearAhead
  <2>. QED BY <1>1, <2>1, <2>2, <2>3, <2>4, <2>5, <2>6 DEF SenderStep
<1>2. CASE ~ \E s \in Sender : SenderStep(s)
  <2>1. \A i \in Intent : status'[i] = "sent_unverified" => status[i] = "sent_unverified"
    BY <1>2, DoubtFrame
  <2>2. CASE UNCHANGED senderVars
    BY <2>1, <2>2 DEF ClearAhead, senderVars
  <2>3. CASE Crash
    BY <2>3 DEF Crash, ClearAhead
  <2>. QED BY <1>2, <2>2, <2>3, SenderFrame
<1>. QED BY <1>1, <1>2

\* A stamp is the first doubt of its thread, by ClearAhead.
LEMMA OneUnknownStep ==
    ASSUME TypeOK, Assigned, Exclusive, ClearAhead, OneUnknownSend, Next
    PROVE  OneUnknownSend'
<1> USE DEF TypeOK, SenderTypes, IntentTypes, InFlight, NoIntent
<1>1. ASSUME NEW s \in Sender, SenderStep(s) PROVE OneUnknownSend'
  <2>1. CASE Mark(s)
    BY <2>1 DEF Mark, ClearAhead, Assigned, OneUnknownSend
  <2>2. CASE Reserve(s)
    BY <2>2 DEF Reserve, Assigned, OneUnknownSend
  <2>3. CASE Commit(s)
    BY <2>3 DEF Commit, CommitReply, Assigned, OneUnknownSend
  <2>4. CASE UNCHANGED status
    BY <2>4 DEF OneUnknownSend
  <2>. QED
    BY <1>1, <2>1, <2>2, <2>3, <2>4, Zenon DEF SenderStep, Admit, ReserveRefused,
       TakeBrowser, SendFails, PageTakes, CommitRaises, VerifyFound, VerifyUnfound, intentVars
<1>2. CASE ~ \E s \in Sender : SenderStep(s)
  BY <1>2, DoubtFrame DEF OneUnknownSend
<1>. QED BY <1>1, <1>2

-----------------------------------------------------------------------------
\* The inductive invariant, in every state.
THEOREM Safety == Spec => []Safe
<1>1. Safe /\ [Next]_vars => Safe'
  <2> SUFFICES ASSUME Safe, [Next]_vars PROVE Safe'
    OBVIOUS
  <2>1. CASE Next
    BY <2>1, ThreadTypesStep, RowTypesStep, IntentTypesStep, SenderTypesStep,
       SharedTypesStep, AssignedStep, ExclusiveStep, AcceptedStep, ClearAheadStep,
       OneUnknownStep, Zenon DEF Safe, TypeOK
  <2>2. CASE UNCHANGED vars
    BY <2>2 DEF vars, threadVars, rowVars, intentVars, senderVars, passVars, pageVars, bounds,
       Safe, TypeOK, ThreadTypes, RowTypes, IntentTypes, SenderTypes, SharedTypes, Assigned,
       Exclusive, Accepted, ClearAhead, OneUnknownSend
  <2>. QED BY <2>1, <2>2
<1>. QED BY InitSafe, <1>1, PTL DEF Spec

\* Every variable keeps its type, for any number of threads, sends and senders.
THEOREM TypeCorrect == Spec => []TypeOK
<1>1. Safe => TypeOK
  BY DEF Safe
<1>. QED BY Safety, <1>1, PTL

\* At most one send of a thread is accepted and not known to have arrived.
THEOREM OneUnknown == Spec => []OneUnknownSend
<1>1. Safe => OneUnknownSend
  BY DEF Safe
<1>. QED BY Safety, <1>1, PTL

-----------------------------------------------------------------------------
\* A reply is folded into the transcript only if the page accepted it: its own
\* sender commits past the page's answer, and a visit that finds the words finds
\* that send's, no other of the thread having said the same.
THEOREM CommittedTaken ==
    ASSUME DistinctWords
    PROVE  Spec => []CommittedWasTaken
<1> USE DEF TypeOK, IntentTypes, SenderTypes
<1>1. Init => CommittedWasTaken
  BY DEF Init, CommittedWasTaken
<1>2. Safe /\ CommittedWasTaken /\ [Next]_vars => CommittedWasTaken'
  <2> SUFFICES ASSUME Safe, CommittedWasTaken, [Next]_vars PROVE CommittedWasTaken'
    OBVIOUS
  <2> USE DEF Safe, CommittedWasTaken
  <2>1. CASE UNCHANGED vars
    BY <2>1 DEF vars, intentVars, pageVars
  <2>2. CASE Next
    <3>1. taken \subseteq taken'
      BY <2>2, PageFrame DEF PageTakes, CommitRaises, Land, pageVars
    <3>2. ASSUME NEW i \in Intent, status[i] # "committed", status'[i] = "committed"
          PROVE  i \in taken
      <4>1. ASSUME NEW s \in Sender, Reserve(s) \/ Mark(s) PROVE FALSE
        BY <4>1, <3>2 DEF Reserve, Mark, Assigned
      <4>2. ASSUME NEW s \in Sender, Commit(s) PROVE i \in taken
        BY <4>2, <3>2 DEF Commit, CommitReply, Accepted, Assigned
      <4>3. ASSUME NEW j \in Intent, LaneFinds(j) PROVE i \in taken
        <5>1. i = j /\ OnPage(i)
          BY <4>3, <3>2 DEF LaneFinds, CommitReply
        <5>2. i \in page
          BY <5>1 DEF OnPage, DistinctWords, SharedTypes
        <5>. QED BY <5>2 DEF Accepted
      <4>4. CASE Sweep \/ Tick
        BY <4>4, <3>2 DEF Sweep, Tick
      <4>5. CASE UNCHANGED status
        BY <4>5, <3>2
      <4>. QED
        BY <2>2, <4>1, <4>2, <4>3, <4>4, <4>5, IntentFrame, Zenon
        DEF intentVars, Admit, LaneMisses
    <3>. QED BY <3>1, <3>2
  <2>. QED BY <2>1, <2>2
<1>. QED BY Safety, <1>1, <1>2, PTL DEF Spec

\* Without a crash and without a browser call that fails after its effect, an
\* intent is pending on an accepted message only between the page's answer and the
\* stamp, its sender still there.
THEOREM PendingUntaken ==
    ASSUME MaxCrashes = 0, MaxFaults = 0
    PROVE  Spec => []PendingIsUntaken
<1> USE DEF TypeOK, IntentTypes, SenderTypes
<1>1. Init => PendingIsUntaken
  BY DEF Init, PendingIsUntaken
<1>2. Safe /\ PendingIsUntaken /\ [Next]_vars => PendingIsUntaken'
  <2> SUFFICES ASSUME Safe, PendingIsUntaken, [Next]_vars PROVE PendingIsUntaken'
    OBVIOUS
  <2> USE DEF Safe, PendingIsUntaken
  <2>1. CASE UNCHANGED vars
    BY <2>1 DEF vars, intentVars, pageVars, senderVars
  <2>2. ASSUME NEW s \in Sender, SenderStep(s) PROVE PendingIsUntaken'
    <3>1. ASSUME NEW i \in Intent, Admit(s, i) PROVE PendingIsUntaken'
      BY <3>1 DEF Admit, intentVars, pageVars
    <3>2. CASE Reserve(s)
      BY <3>2 DEF Reserve, Accepted, Assigned, pageVars
    <3>3. CASE TakeBrowser(s) \/ VerifyFound(s)
      BY <3>3 DEF TakeBrowser, VerifyFound, intentVars, pageVars
    <3>4. CASE PageTakes(s)
      BY <3>4 DEF PageTakes, intentVars
    <3>5. CASE Mark(s)
      BY <3>5 DEF Mark, Assigned, pageVars
    <3>6. CASE ReserveRefused(s) \/ SendFails(s) \/ VerifyUnfound(s)
      BY <3>6 DEF ReserveRefused, SendFails, VerifyUnfound, Returns, intentVars, pageVars
    <3>7. CASE Commit(s)
      BY <3>7 DEF Commit, CommitReply, Returns, Assigned, pageVars
    <3>8. CASE CommitRaises(s)
      BY <3>8 DEF CommitRaises, SharedTypes
    <3>. QED BY <2>2, <3>1, <3>2, <3>3, <3>4, <3>5, <3>6, <3>7, <3>8 DEF SenderStep
  <2>3. CASE Next /\ ~ \E s \in Sender : SenderStep(s)
    <3>1. ~Crash
      BY DEF Crash, SharedTypes
    <3>2. UNCHANGED senderVars
      BY <2>3, <3>1, SenderFrame
    <3>3. /\ taken' = taken
          /\ \A i \in Intent : status'[i] = "pending" => status[i] = "pending"
      BY <2>3, DoubtFrame
    <3>. QED BY <3>2, <3>3 DEF senderVars
  <2>. QED BY <2>1, <2>2, <2>3 DEF Next
<1>. QED BY Safety, <1>1, <1>2, PTL DEF Spec

\* Then nothing is reserved on a thread over a message that may have arrived: a
\* pending one has its sender in flight, and a stamped one is refused by name.
THEOREM TalksPastNothing ==
    ASSUME MaxCrashes = 0, MaxFaults = 0
    PROVE  Spec => NeverTalksPast
<1>1. Safe /\ PendingIsUntaken /\ [Next]_vars =>
        [\A i, j \in Intent :
           /\ status[i] = "unborn" /\ status'[i] = "pending"
           /\ ThreadOf[j] = ThreadOf[i]
           /\ j \in taken
           => status[j] \in {"committed", "unconfirmed"}]_vars
  <2> SUFFICES ASSUME Safe, PendingIsUntaken, Next,
                      NEW i \in Intent, NEW j \in Intent,
                      status[i] = "unborn", status'[i] = "pending",
                      ThreadOf[j] = ThreadOf[i], j \in taken
               PROVE  status[j] \in {"committed", "unconfirmed"}
    BY DEF vars, intentVars
  <2> USE DEF Safe, TypeOK, IntentTypes, SenderTypes
  <2>1. PICK s \in Sender : Reserve(s)
    BY StatusFrame
  <2>2. i = job[s]
    BY <2>1 DEF Reserve, Assigned
  <2>3. status[j] # "unborn"
    BY DEF Accepted
  <2>4. status[j] # "sent_unverified"
    BY <2>1, <2>2 DEF Reserve, UnverifiedOpen, On
  <2>5. status[j] # "pending"
    BY <2>1, <2>2 DEF Reserve, Busy, InFlight, PendingIsUntaken
  <2>. QED BY <2>3, <2>4, <2>5 DEF IntentStatus, Unsettled
<1>. QED BY Safety, PendingUntaken, <1>1, PTL DEF Spec, NeverTalksPast

\* Where release_thread is not called, an ask keeps its thread from every sender.
THEOREM AsksSilence ==
    ASSUME "release" \notin SellerActs
    PROVE  Spec => []AskSilences
<1> USE DEF TypeOK, ThreadTypes, ThreadStatus, AskKind
<1>1. Init => AskSilences
  BY DEF Init, AskSilences
<1>2. TypeOK /\ AskSilences /\ [Next]_vars => AskSilences'
  <2> SUFFICES ASSUME TypeOK, AskSilences, [Next]_vars PROVE AskSilences'
    OBVIOUS
  <2> USE DEF AskSilences
  <2>1. CASE UNCHANGED threadVars
    BY <2>1 DEF threadVars
  <2>2. ASSUME NEW i \in Intent, LaneFinds(i) PROVE AskSilences'
    BY <2>2, ConstantsAssumption DEF LaneFinds, Withdraw
  <2>3. CASE Sweep
    BY <2>3 DEF Sweep, OpenAsks
  <2>4. ASSUME NEW t \in Thread, ThreadStep(t) PROVE AskSilences'
    <3>1. CASE Escalate(t)
      BY <3>1 DEF Escalate, OpenAsks
    <3>2. CASE ResolveAsk(t) \/ Reactivate(t) \/ Close(t) \/ Hold(t)
      BY <3>2 DEF ResolveAsk, Reactivate, Close, Hold
    <3>3. CASE RecordManual(t)
      BY <3>3 DEF RecordManual, threadVars
    <3>. QED BY <2>4, <3>1, <3>2, <3>3 DEF ThreadStep
  <2>. QED BY <2>1, <2>2, <2>3, <2>4, ThreadFrame DEF vars
<1>. QED BY TypeCorrect, <1>1, <1>2, PTL DEF Spec

-----------------------------------------------------------------------------
\* Where only a claimed pass may answer without naming a message, no sender, claim
\* or intent speaks for a message beyond those its sender could read.
THEOREM WitnessedAlways ==
    ASSUME Unnamed \subseteq PassSender
    PROVE  Spec => []Witnessed
<1> USE ConstantsAssumption DEF TypeOK, RowTypes, IntentTypes, SenderTypes
<1>1. Init => Witnessed
  BY DEF Init, Witnessed
<1>2. Safe /\ Witnessed /\ [Next]_vars => Witnessed'
  <2> SUFFICES ASSUME Safe, Witnessed, [Next]_vars PROVE Witnessed'
    OBVIOUS
  <2> USE DEF Safe
  <2>1. CASE UNCHANGED vars
    BY <2>1 DEF vars, rowVars, senderVars, intentVars, passVars, Witnessed
  <2>2. ASSUME NEW t \in Thread, Next PROVE through'[t] <= inbound'[t]
    <3>1. CASE UNCHANGED <<rowVars, through>>
      BY <3>1 DEF rowVars, Witnessed
    <3>2. ASSUME NEW s \in Sender, Commit(s) PROVE through'[t] <= inbound'[t]
      BY <3>2 DEF Commit, passVars, Witnessed
    <3>3. ASSUME NEW i \in Intent, LaneFinds(i) PROVE through'[t] <= inbound'[t]
      BY <3>3 DEF LaneFinds, passVars, Witnessed
    <3>4. ASSUME NEW u \in Thread, LaneRecords(u) PROVE through'[t] <= inbound'[t]
      BY <3>4 DEF LaneRecords, passVars, Witnessed
    <3>5. ASSUME NEW u \in Thread, ThreadStep(u) PROVE through'[t] <= inbound'[t]
      <4>1. through' = through /\ inbound' = inbound
        BY <3>5, Zenon DEF ThreadStep, Escalate, ResolveAsk, Reactivate, Close, Hold, Release,
           RecordManual, passVars, rowVars
      <4>. QED BY <4>1 DEF Witnessed
    <3>6. CASE EnqueueReplyPass
      BY <3>6 DEF EnqueueReplyPass, rowVars
    <3>7. CASE PassEnds
      BY <3>7 DEF PassEnds, rowVars
    <3>. QED BY <2>2, <3>1, <3>2, <3>3, <3>4, <3>5, <3>6, <3>7, RowFrame
  <2>3. CASE UNCHANGED senderVars /\ Next
    <3>1. UNCHANGED <<pinned, seen>>
      BY <2>3, IntentFrame, Zenon DEF senderVars, intentVars, Sweep, Tick, LaneFinds, LaneMisses,
         Reserve, Mark, Commit, Admit, Returns
    <3>2. \A i \in Intent : status'[i] = "unborn" <=> status[i] = "unborn"
      BY <2>3, StatusFrame DEF Reserve, senderVars
    <3>. QED BY <2>2, <2>3, <3>1, <3>2 DEF Witnessed, senderVars
  <2>4. ASSUME NEW s \in Sender, SenderStep(s) PROVE Witnessed'
    <3>1. \A t \in Thread : through'[t] <= inbound'[t]
      BY <2>2, <2>4 DEF Next
    <3>2. ASSUME NEW i \in Intent, Admit(s, i) PROVE Witnessed'
      BY <3>1, <3>2 DEF Admit, intentVars, Witnessed
    <3>3. CASE Reserve(s)
      BY <3>1, <3>3 DEF Reserve, Assigned, CursorTarget, Witnessed, InFlight
    <3>4. CASE TakeBrowser(s) \/ PageTakes(s) \/ VerifyFound(s)
      BY <3>1, <3>4 DEF TakeBrowser, PageTakes, VerifyFound, intentVars, Witnessed
    <3>5. CASE Mark(s)
      BY <3>1, <3>5 DEF Mark, Witnessed, Assigned
    <3>6. CASE ReserveRefused(s) \/ SendFails(s) \/ CommitRaises(s) \/ VerifyUnfound(s)
      BY <3>1, <3>6 DEF ReserveRefused, SendFails, CommitRaises, VerifyUnfound, Returns,
         intentVars, Witnessed
    <3>7. CASE Commit(s)
      BY <3>1, <3>7 DEF Commit, CommitReply, Returns, Assigned, Witnessed, InFlight
    <3>. QED BY <2>4, <3>2, <3>3, <3>4, <3>5, <3>6, <3>7 DEF SenderStep
  <2>5. CASE Crash
    BY <2>2, <2>5 DEF Crash, intentVars, Witnessed, Next
  <2>. QED BY <2>1, <2>3, <2>4, <2>5, SenderFrame
<1>. QED BY Safety, <1>1, <1>2, PTL DEF Spec

\* So the cursor passes over a message only under a reply whose sender could have
\* read it, or when the thread is put on hold.
THEOREM CursorSeen ==
    ASSUME Unnamed \subseteq PassSender
    PROVE  Spec => CursorWithinSeen
<1>1. Safe /\ Witnessed /\ [Next]_vars =>
        [\A t \in Thread : cursor'[t] > cursor[t] =>
           \/ stat'[t] = "held"
           \/ \E i \in On(t) : status'[i] = "committed" /\ seen[i] >= cursor'[t]]_vars
  <2> SUFFICES ASSUME Safe, Witnessed, Next, NEW t \in Thread, cursor'[t] > cursor[t]
               PROVE  \/ stat'[t] = "held"
                      \/ \E i \in On(t) : status'[i] = "committed" /\ seen[i] >= cursor'[t]
    BY DEF vars, rowVars
  <2> USE ConstantsAssumption
      DEF Safe, TypeOK, RowTypes, IntentTypes, SenderTypes, ThreadTypes, On
  <2>1. ASSUME NEW s \in Sender, Commit(s)
        PROVE  \E i \in On(t) : status'[i] = "committed" /\ seen[i] >= cursor'[t]
    BY <2>1 DEF Commit, CommitReply, CursorTarget, Assigned, Witnessed
  <2>2. ASSUME NEW i \in Intent, LaneFinds(i)
        PROVE  \E j \in On(t) : status'[j] = "committed" /\ seen[j] >= cursor'[t]
    BY <2>2 DEF LaneFinds, CommitReply, CursorTarget, Witnessed, Unsettled
  <2>3. ASSUME NEW u \in Thread, Hold(u) PROVE stat'[t] = "held"
    BY <2>3 DEF Hold
  <2>4. cursor' # cursor
    OBVIOUS
  <2>. QED
    BY <2>1, <2>2, <2>3, <2>4, RowFrame, Zenon DEF rowVars, LaneRecords, ThreadStep, Escalate,
       ResolveAsk, Reactivate, Close, Release, RecordManual, EnqueueReplyPass, PassEnds
<1>. QED BY Safety, WitnessedAlways, <1>1, PTL DEF Spec, CursorWithinSeen

-----------------------------------------------------------------------------
\* A step of one reply, or of the replies of a hand-over, is a step of the promise.
LEMMA PromiseStep ==
    ASSUME NEW i \in Intent,
           Promise!Try(i) \/ Promise!Accept(i) \/ Promise!Doubt(i) \/ Promise!Settle(i)
    PROVE  Promise!Next
  BY Zenon DEF Promise!Next

LEMMA PromiseHandsOver ==
    ASSUME NEW S \in SUBSET Intent, Promise!HandOver(S)
    PROVE  Promise!Next
  BY Zenon DEF Promise!Next

\* The bracket implements SendPromise where no two sends of a thread say the same:
\* a message reaches the marketplace at most once, one doubt is open per thread,
\* and only an accepted message counts as sent.
THEOREM Refinement ==
    ASSUME DistinctWords
    PROVE  Spec => KeepsPromise
<1> DEFINE fates == [i \in Intent |-> Fate(status[i])]
<1>1. Init => Promise!Init
  BY DEF Init, Promise!Init, Fate
<1>2. Safe /\ CommittedWasTaken /\ [Next]_vars => [Promise!Next]_<<fates, taken>>
  <2> SUFFICES ASSUME Safe, CommittedWasTaken, [Next]_vars
               PROVE  Promise!Next \/ UNCHANGED <<fates, taken>>
    OBVIOUS
  <2> USE DEF Safe, TypeOK, IntentTypes, SenderTypes, SharedTypes, IntentStatus, Unsettled,
              InFlight
  <2>1. CASE UNCHANGED <<status, taken>>
    BY <2>1
  <2>2. ASSUME NEW s \in Sender, Reserve(s) PROVE Promise!Next
    <3>1. PICK i \in Intent : i = job[s] /\ status[i] = "unborn"
      BY <2>2 DEF Reserve, Assigned
    <3>2. Promise!Try(i)
      BY <2>2, <3>1 DEF Reserve, pageVars, Promise!Try, Fate
    <3>. QED BY <3>1, <3>2, PromiseStep
  <2>3. ASSUME NEW s \in Sender, PageTakes(s) \/ CommitRaises(s) PROVE Promise!Next
    <3>1. PICK i \in Intent :
            i = job[s] /\ i \notin taken /\ status[i] \in {"pending", "unconfirmed"}
      BY <2>3 DEF PageTakes, CommitRaises, Assigned, Accepted, CommittedWasTaken
    <3>2. Promise!Accept(i)
      BY <2>3, <3>1 DEF PageTakes, CommitRaises, intentVars, Promise!Accept, Fate
    <3>. QED BY <3>1, <3>2, PromiseStep
  <2>4. ASSUME NEW s \in Sender, Mark(s), status[job[s]] = "pending" PROVE Promise!Next
    <3>1. PICK i \in Intent :
            /\ i = job[s] /\ i \in taken
            /\ \A j \in Intent : ThreadOf[j] = ThreadOf[i] => status[j] # "sent_unverified"
      BY <2>4 DEF Mark, Assigned, Accepted, ClearAhead
    <3>2. Promise!Doubt(i)
      BY <2>4, <3>1 DEF Mark, pageVars, Promise!Doubt, Fate
    <3>. QED BY <3>1, <3>2, PromiseStep
  <2>5. ASSUME NEW i \in Intent, status[i] \in Unsettled, i \in taken,
               status' = [status EXCEPT ![i] = "committed"], taken' = taken
        PROVE  Promise!Next
    <3>1. Promise!Settle(i)
      BY <2>5 DEF Promise!Settle, Fate
    <3>. QED BY <3>1, PromiseStep
  <2>6. ASSUME NEW s \in Sender, Commit(s) PROVE Promise!Next \/ UNCHANGED <<fates, taken>>
    <3>1. /\ job[s] \in Intent /\ job[s] \in taken /\ taken' = taken
          /\ status' = [status EXCEPT ![job[s]] = "committed"]
          /\ status[job[s]] \in Unsettled \cup {"committed"}
      BY <2>6 DEF Commit, CommitReply, Assigned, Accepted, pageVars
    <3>2. CASE status[job[s]] = "committed"
      BY <3>1, <3>2
    <3>3. CASE status[job[s]] \in Unsettled
      BY <3>1, <3>3, <2>5
    <3>. QED BY <3>1, <3>2, <3>3
  <2>7. ASSUME NEW i \in Intent, LaneFinds(i)
        PROVE  Promise!Next \/ UNCHANGED <<fates, taken>>
    <3>1. i \in taken /\ taken' = taken
      BY <2>7 DEF LaneFinds, OnPage, DistinctWords, Accepted, pageVars
    <3>2. CASE status[i] \in Unsettled
      BY <2>7, <3>1, <3>2, <2>5 DEF LaneFinds, CommitReply
    <3>3. CASE status[i] \notin Unsettled
      BY <2>7, <3>1, <3>3 DEF LaneFinds
    <3>. QED BY <3>2, <3>3
  <2>8. CASE Sweep
    <3>1. Promise!HandOver(Stale)
      BY <2>8 DEF Sweep, Stale, pageVars, Promise!HandOver, Fate
    <3>2. Stale \in SUBSET Intent
      BY DEF Stale
    <3>. QED BY <3>1, <3>2, PromiseHandsOver
  <2>9. CASE \/ UNCHANGED vars
             \/ \E s \in Sender : SenderStep(s) /\ ~Reserve(s) /\ ~PageTakes(s)
                                    /\ ~CommitRaises(s) /\ ~Mark(s) /\ ~Commit(s)
             \/ \E i \in Intent : Land(i)
             \/ LaneStep /\ ~ \E i \in Intent : LaneFinds(i)
             \/ \E t \in Thread : ThreadStep(t)
             \/ EnqueueReplyPass \/ PassEnds \/ Tick \/ Crash
    <3>1. UNCHANGED <<status, taken>>
      BY <2>9, Zenon DEF vars, SenderStep, Admit, ReserveRefused, TakeBrowser, SendFails,
         VerifyFound, VerifyUnfound, Land, LaneStep, LaneStart, LaneMisses, LaneRecords,
         LaneEnds, ThreadStep, Escalate, ResolveAsk, Reactivate, Close, Hold, Release,
         RecordManual, EnqueueReplyPass, PassEnds, Tick, Crash, intentVars, pageVars
    <3>. QED BY <3>1, <2>1
  <2>10. ASSUME NEW s \in Sender, Mark(s), status[job[s]] # "pending"
         PROVE  UNCHANGED <<fates, taken>>
    BY <2>10 DEF Mark, pageVars
  <2>. QED
    BY <2>2, <2>3, <2>4, <2>6, <2>7, <2>8, <2>9, <2>10, Zenon DEF Next, SenderStep, LaneStep
<1>. QED BY Safety, CommittedTaken, <1>1, <1>2, PTL DEF Spec, KeepsPromise, Promise!Spec
=============================================================================
