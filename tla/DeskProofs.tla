----------------------------- MODULE DeskProofs -----------------------------
(***************************************************************************)
(* Proofs about SellerDesk, for any messages, taps, buyers and any number  *)
(* of stops: only the pass in hand begins anything, the typing indicator stands for a  *)
(* message that is owed, and a message is written off exactly when the     *)
(* seller is told.                                                         *)
(***************************************************************************)
EXTENDS SellerDesk, FiniteSetTheorems, SequenceTheorems, TLAPS

Numbers  == Nat
Claims   == (SUBSET Rows) \cup (SUBSET (Threads \X Numbers))
PassRow  == [type : {"channel", "reply"}, claim : Claims,
             status : {"queued", "running", "done", "error"},
             class : {"none", "ok", "no_send", "fault"}]
InboxRow == [status : {"unsent", "pending", "claimed", "handled", "failed"}, pass : Numbers]
NoticeRow == [kind : {"word", "unplaced", "failure", "waiting"}, pass : Numbers,
              about : Numbers, delivered : BOOLEAN]
LaneAt   == {"idle", "claimed", "watching", "ok", "fault", "settled"}

\* What the rows and the lane may hold.
DeskTypes ==
    /\ passes \in Seq(PassRow)
    /\ lane \in [pass : Numbers, at : LaneAt]
    /\ inbox \in [Rows -> InboxRow]
    /\ notices \in Seq(NoticeRow)
    /\ settling \in Numbers
    /\ heard \in [Threads -> Numbers]

\* The rows of passes, changed one by one.
LEMMA PassesAreRows ==
    ASSUME DeskTypes
    PROVE  /\ Len(passes) \in Nat /\ PassIds = 1..Len(passes)
           /\ \A p \in PassIds : passes[p] \in PassRow
<1>1. passes \in Seq(PassRow)
  BY DEF DeskTypes
<1> QED
  BY <1>1 DEF PassIds

LEMMA FinishedRows ==
    ASSUME DeskTypes, NEW ps, NEW status \in {"done", "error"},
           NEW class \in {"none", "ok", "no_send", "fault"}
    PROVE  /\ Finished(ps, status, class) \in Seq(PassRow)
           /\ DOMAIN Finished(ps, status, class) = PassIds
           /\ Len(Finished(ps, status, class)) = Len(passes)
           /\ \A p \in PassIds :
                /\ Finished(ps, status, class)[p].type = passes[p].type
                /\ Finished(ps, status, class)[p].claim = passes[p].claim
                /\ p \in ps => Finished(ps, status, class)[p].status = status
                /\ p \notin ps => Finished(ps, status, class)[p] = passes[p]
<1> DEFINE f == Finished(ps, status, class)
<1>1. Len(passes) \in Nat /\ PassIds = 1..Len(passes) /\ \A p \in PassIds : passes[p] \in PassRow
  BY PassesAreRows
<1>2. \A p \in PassIds : [passes[p] EXCEPT !.status = status, !.class = class] \in PassRow
  BY <1>1 DEF PassRow
<1>3. f = [p \in 1..Len(passes) |-> IF p \in ps
                                    THEN [passes[p] EXCEPT !.status = status, !.class = class]
                                    ELSE passes[p]]
  BY <1>1 DEF Finished
<1>4. \A p \in PassIds : f[p] \in PassRow
  BY <1>1, <1>2, <1>3
<1>5. \A p \in PassIds :
        /\ f[p].type = passes[p].type /\ f[p].claim = passes[p].claim
        /\ p \in ps => f[p].status = status
        /\ p \notin ps => f[p] = passes[p]
  <2> SUFFICES ASSUME NEW p \in PassIds
               PROVE  /\ f[p].type = passes[p].type /\ f[p].claim = passes[p].claim
                      /\ p \in ps => f[p].status = status
                      /\ p \notin ps => f[p] = passes[p]
    OBVIOUS
  <2>1. f[p] = IF p \in ps THEN [passes[p] EXCEPT !.status = status, !.class = class] ELSE passes[p]
    BY <1>1, <1>3
  <2>2. passes[p] \in PassRow
    BY <1>1
  <2> HIDE DEF f
  <2>3. CASE p \in ps
    BY <2>1, <2>2, <2>3 DEF PassRow
  <2>4. CASE p \notin ps
    BY <2>1, <2>4
  <2> QED
    BY <2>3, <2>4
<1>6. DOMAIN f = 1..Len(passes)
  BY <1>3
<1> HIDE DEF f
<1>7. f = [p \in 1..Len(passes) |-> f[p]]
  BY <1>3
<1>8. f \in Seq(PassRow)
  BY <1>1, <1>4, <1>7
<1>9. Len(f) = Len(passes)
  BY <1>1, <1>6, <1>8
<1> QED
  BY <1>1, <1>5, <1>6, <1>8, <1>9 DEF f

\* What one more row is.
LEMMA EnqueuedRows ==
    ASSUME DeskTypes, NEW type \in {"channel", "reply"}, NEW claim \in Claims,
           Enqueued(type, claim)
    PROVE  /\ passes' \in Seq(PassRow) /\ Len(passes') = Len(passes) + 1
           /\ PassIds' = PassIds \cup {Len(passes) + 1} /\ Len(passes) + 1 \notin PassIds
           /\ \A p \in PassIds : passes'[p] = passes[p]
           /\ passes'[Len(passes) + 1].type = type
           /\ passes'[Len(passes) + 1].status = "queued"
<1> DEFINE row == [type |-> type, claim |-> claim, status |-> "queued", class |-> "none"]
<1>1. row \in PassRow
  BY DEF PassRow
<1>2. passes \in Seq(PassRow) /\ passes' = Append(passes, row)
  BY DEF DeskTypes, Enqueued
<1>3. passes' \in Seq(PassRow) /\ Len(passes') = Len(passes) + 1 /\ Len(passes) \in Nat
  BY <1>1, <1>2
<1>4. PassIds = 1..Len(passes) /\ PassIds' = 1..(Len(passes) + 1)
  BY <1>2, <1>3 DEF PassIds
<1>5. \A p \in PassIds : passes'[p] = passes[p]
  BY <1>1, <1>2, <1>3, <1>4
<1>6. passes'[Len(passes) + 1] = row
  BY <1>1, <1>2
<1>7. row.type = type /\ row.status = "queued"
  OBVIOUS
<1>8. PassIds' = PassIds \cup {Len(passes) + 1} /\ Len(passes) + 1 \notin PassIds
  BY <1>3, <1>4
<1> HIDE DEF row
<1> QED
  BY <1>3, <1>5, <1>6, <1>7, <1>8

\* Which rows an enqueue takes.
LEMMA RouteRows ==
    ASSUME DeskTypes, Route
    PROVE  /\ Active("channel") = {} /\ RowsAs("pending") # {}
           /\ Enqueued("channel", RowsAs("pending")) /\ RowsAs("pending") \in Claims
           /\ inbox' \in [Rows -> InboxRow]
           /\ \A r \in Rows :
                /\ inbox[r].status = "pending" =>
                     inbox'[r] = [status |-> "claimed", pass |-> Len(passes) + 1]
                /\ inbox[r].status # "pending" => inbox'[r] = inbox[r]
<1>1. Len(passes) \in Nat
  BY PassesAreRows
<1>2. [status |-> "claimed", pass |-> Len(passes) + 1] \in InboxRow
  BY <1>1 DEF InboxRow, Numbers
<1> QED
  BY <1>2 DEF Route, CanRoute, RowsAs, DeskTypes, Claims

\* The rows of passes, all there still, and none active again that was not.
RowsKept ==
    /\ passes' \in Seq(PassRow) /\ PassIds' = PassIds /\ Len(passes') = Len(passes)
    /\ \A p \in PassIds :
         /\ passes'[p].type = passes[p].type
         /\ passes'[p].status \in {"queued", "running"} => passes[p].status \in {"queued", "running"}

LEMMA SameRows == ASSUME DeskTypes, UNCHANGED passes PROVE RowsKept
  BY PassesAreRows DEF RowsKept, DeskTypes, PassIds

LEMMA FinishKeeps ==
    ASSUME DeskTypes, NEW ps, NEW status \in {"done", "error"},
           NEW class \in {"none", "ok", "no_send", "fault"},
           passes' = Finished(ps, status, class)
    PROVE  RowsKept
<1>1. PassIds' = PassIds
  BY FinishedRows DEF PassIds
<1> QED
  <2>1. /\ passes' \in Seq(PassRow) /\ Len(passes') = Len(passes)
        /\ \A p \in PassIds :
             /\ passes'[p].type = passes[p].type
             /\ p \in ps => passes'[p].status = status
             /\ p \notin ps => passes'[p] = passes[p]
    BY FinishedRows
  <2>2. \A p \in PassIds : passes'[p].status \in {"queued", "running"}
                              => passes[p].status \in {"queued", "running"}
    BY <2>1
  <2> QED
    BY <1>1, <2>1, <2>2 DEF RowsKept

LEMMA ClassOfPass == ASSUME DeskTypes, lane.at \in {"ok", "fault"}, NEW progressed
                     PROVE  Classify(progressed) \in {"none", "ok", "no_send", "fault"}
  BY DEF Classify

\* What the queue's own steps do to the rows and the lane.
LEMMA QueueKeeps ==
    ASSUME DeskTypes, QueueStep
    PROVE  RowsKept /\ lane' \in [pass : Numbers, at : LaneAt]
<1>1. /\ Len(passes) \in Nat /\ PassIds = 1..Len(passes)
      /\ \A p \in PassIds : passes[p] \in PassRow
  BY PassesAreRows
<1>2. Resting \in [pass : Numbers, at : LaneAt] /\ lane \in [pass : Numbers, at : LaneAt]
  BY DEF Resting, Numbers, LaneAt, DeskTypes
<1>3. CASE PassLane
  <2>1. Swept \in Seq(PassRow) /\ DOMAIN Swept = PassIds /\ Len(Swept) = Len(passes)
        /\ \A p \in PassIds :
             /\ Swept[p].type = passes[p].type
             /\ p \in Stale => Swept[p].status = "error"
             /\ p \notin Stale => Swept[p] = passes[p]
    BY FinishedRows DEF Swept
  <2>2. CASE passes' = Swept /\ UNCHANGED lane
    <3>1. RowsKept
      BY <2>2, FinishKeeps DEF Swept
    <3> QED
      BY <1>2, <2>2, <3>1
  <2>3. ASSUME NEW p \in Waits, passes' = [Swept EXCEPT ![p].status = "running"],
               lane' = [pass |-> p, at |-> "claimed"]
        PROVE  RowsKept /\ lane' \in [pass : Numbers, at : LaneAt]
    <3>1. p \in PassIds /\ Swept[p].status = "queued"
      BY <2>3 DEF Waits
    <3>2. Swept[p] = passes[p] /\ passes[p] \in PassRow
      BY <1>1, <2>1, <3>1
    <3>3. [passes[p] EXCEPT !.status = "running"] \in PassRow
          /\ [passes[p] EXCEPT !.status = "running"].type = passes[p].type
      BY <3>2 DEF PassRow
    <3>4. passes' = [Swept EXCEPT ![p] = [passes[p] EXCEPT !.status = "running"]]
      BY <2>3, <3>2
    <3>5. passes' \in Seq(PassRow) /\ Len(passes') = Len(passes) /\ DOMAIN passes' = PassIds
      BY <1>1, <2>1, <3>1, <3>3, <3>4
    <3>6. \A q \in PassIds :
            /\ passes'[q].type = passes[q].type
            /\ passes'[q].status \in {"queued", "running"}
                 => passes[q].status \in {"queued", "running"}
      BY <2>1, <3>1, <3>2, <3>3, <3>4
    <3>7. lane' \in [pass : Numbers, at : LaneAt]
      BY <1>1, <2>3, <3>1 DEF Numbers, LaneAt
    <3> QED
      BY <3>5, <3>6, <3>7 DEF RowsKept, PassIds
  <2> QED
    BY <1>3, <2>2, <2>3 DEF PassLane
<1>4. CASE SpawnError
  BY <1>2, <1>4, FinishKeeps DEF SpawnError
<1>5. CASE SpawnRaises \/ Spawn \/ (\E rc \in {"ok", "fault"} : Exits(rc))
           \/ (\E why \in {"timeout", "paused"} : Babysits(why))
           \/ (\E p \in PassIds : GoesOverdue(p)) \/ SetPaused \/ Starts \/ Killed
           \/ RevokeToken \/ LetIn
  <2>1. RowsKept
    BY <1>5, SameRows DEF SpawnRaises, Spawn, Exits, Babysits, GoesOverdue, SetPaused, Starts,
         Killed, Gone, RevokeToken, LetIn
  <2>2. lane' \in [pass : Numbers, at : LaneAt]
    BY <1>2, <1>5 DEF SpawnRaises, Spawn, Exits, Babysits, GoesOverdue, SetPaused, Starts,
         Killed, Gone, RevokeToken, LetIn, LaneAt
  <2> QED
    BY <2>1, <2>2
<1>6. CASE Stops
  BY <1>2, <1>6, FinishKeeps, SameRows DEF Stops, Gone
<1> QED
  BY <1>3, <1>4, <1>5, <1>6 DEF QueueStep

\* Notices only ever come after those there are.
LEMMA NoticesGrow ==
    ASSUME DeskTypes, NEW n \in NoticeRow, notices' = Append(notices, n)
    PROVE  /\ notices' \in Seq(NoticeRow) /\ Len(notices) \in Nat
           /\ DOMAIN notices = 1..Len(notices) /\ DOMAIN notices' = 1..(Len(notices) + 1)
           /\ \A m \in DOMAIN notices : notices'[m] = notices[m]
           /\ notices'[Len(notices) + 1] = n
<1>1. notices \in Seq(NoticeRow)
  BY DEF DeskTypes
<1>2. Len(notices) \in Nat /\ DOMAIN notices = 1..Len(notices)
      /\ notices' \in Seq(NoticeRow) /\ Len(notices') = Len(notices) + 1
  BY <1>1
<1>3. DOMAIN notices' = 1..(Len(notices) + 1)
  BY <1>2
<1>4. \A m \in DOMAIN notices : notices'[m] = notices[m]
  BY <1>1, <1>2
<1> QED
  BY <1>1, <1>2, <1>3, <1>4

LEMMA NoticesAreRows ==
    ASSUME DeskTypes
    PROVE  /\ Len(notices) \in Nat /\ DOMAIN notices = 1..Len(notices)
           /\ \A n \in DOMAIN notices : notices[n] \in NoticeRow
<1>1. notices \in Seq(NoticeRow)
  BY DEF DeskTypes
<1> QED
  BY <1>1

\* A row taken to be the oldest is a number.
LEMMA RowsAreNumbers == Rows \subseteq Nat
<1>1. Cardinality(Rows) \in Nat /\ Rows = 1..Cardinality(Rows)
  BY SellerDeskAssumption, FS_CardinalityType
<1> QED
  BY <1>1

\* Every variable keeps its type.
LEMMA DeskTypesInit == DeskInit => DeskTypes
<1> SUFFICES ASSUME DeskInit PROVE DeskTypes
  OBVIOUS
<1>1. passes = <<>> /\ notices = <<>> /\ lane = [pass |-> 0, at |-> "idle"] /\ settling = 0
  BY DEF DeskInit, QueueInit, Resting
<1>2. inbox \in [Rows -> InboxRow]
  BY DEF DeskInit, InboxRow, Numbers
<1>3. heard \in [Threads -> Numbers]
  BY SellerDeskAssumption DEF DeskInit, Numbers
<1>4. passes \in Seq(PassRow) /\ notices \in Seq(NoticeRow) /\ settling \in Numbers
  BY <1>1 DEF Numbers
<1>5. lane \in [pass : Numbers, at : LaneAt]
  BY <1>1 DEF Numbers, LaneAt
<1> QED
  BY <1>2, <1>3, <1>4, <1>5 DEF DeskTypes

\* The order of the failed passes the fold tells of.
LEMMA FoldsRows ==
    ASSUME DeskTypes, FoldLane
    PROVE  LET failed == {p \in Settled : passes[p].status = "error"}
           IN  /\ inbox' \in [Rows -> InboxRow]
               /\ \A r \in Rows :
                    /\ inbox'[r].pass = inbox[r].pass
                    /\ inbox[r].status = "claimed" /\ inbox[r].pass \in Settled
                         => inbox'[r].status = IF inbox[r].pass \in failed THEN "failed" ELSE "handled"
                    /\ ~(inbox[r].status = "claimed" /\ inbox[r].pass \in Settled)
                         => inbox'[r] = inbox[r]
<1> DEFINE failed == {p \in Settled : passes[p].status = "error"}
<1>1. inbox' = [r \in Rows |->
             IF inbox[r].status = "claimed" /\ inbox[r].pass \in Settled
             THEN [inbox[r] EXCEPT !.status = IF inbox[r].pass \in failed THEN "failed"
                                                                         ELSE "handled"]
             ELSE inbox[r]]
  BY DEF FoldLane
<1>2. \A r \in Rows : inbox[r] \in InboxRow
  BY DEF DeskTypes
<1>3. \A r \in Rows, s \in {"failed", "handled"} :
        /\ [inbox[r] EXCEPT !.status = s] \in InboxRow
        /\ [inbox[r] EXCEPT !.status = s].pass = inbox[r].pass
        /\ [inbox[r] EXCEPT !.status = s].status = s
  BY <1>2 DEF InboxRow
<1> HIDE DEF failed
<1>4. \A r \in Rows :
                    /\ inbox'[r].pass = inbox[r].pass
                    /\ inbox[r].status = "claimed" /\ inbox[r].pass \in Settled
                         => inbox'[r].status = IF inbox[r].pass \in failed THEN "failed" ELSE "handled"
                    /\ ~(inbox[r].status = "claimed" /\ inbox[r].pass \in Settled)
                         => inbox'[r] = inbox[r]
  BY <1>1, <1>3
<1>5. inbox' \in [Rows -> InboxRow]
  BY <1>1, <1>2, <1>3
<1> QED
  BY <1>4, <1>5 DEF failed

LEMMA FoldsNotices ==
    ASSUME DeskTypes, NEW failed, failed \subseteq PassIds, NEW c \in Nat,
           NEW order \in [1..c -> failed],
           notices' = notices \o [i \in DOMAIN order |-> Notice("failure", order[i], 0)]
    PROVE  /\ notices' \in Seq(NoticeRow) /\ DOMAIN notices' = 1..(Len(notices) + c)
           /\ \A n \in DOMAIN notices : notices'[n] = notices[n]
           /\ \A i \in 1..c : notices'[Len(notices) + i] = Notice("failure", order[i], 0)
<1> DEFINE told == [i \in 1..c |-> Notice("failure", order[i], 0)]
<1>1. \A i \in 1..c : Notice("failure", order[i], 0) \in NoticeRow
  BY PassesAreRows DEF Notice, NoticeRow, Numbers
<1>2. told \in Seq(NoticeRow) /\ Len(told) = c
  BY <1>1
<1>3. notices \in Seq(NoticeRow) /\ Len(notices) \in Nat /\ DOMAIN notices = 1..Len(notices)
  BY NoticesAreRows DEF DeskTypes
<1>4. notices' = notices \o told
  OBVIOUS
<1>5. \A i \in 1..c : told[i] = Notice("failure", order[i], 0)
  OBVIOUS
<1> HIDE DEF told
<1>6. /\ notices' \in Seq(NoticeRow) /\ Len(notices') = Len(notices) + c
      /\ \A i \in 1..(Len(notices) + c) :
           notices'[i] = IF i <= Len(notices) THEN notices[i] ELSE told[i - Len(notices)]
  <2>1. notices \in Seq(NoticeRow) /\ told \in Seq(NoticeRow)
    BY <1>2, <1>3
  <2>2. /\ notices \o told \in Seq(NoticeRow)
        /\ Len(notices \o told) = Len(notices) + Len(told)
        /\ \A i \in 1..Len(notices) + Len(told) :
             (notices \o told)[i] = IF i <= Len(notices) THEN notices[i] ELSE told[i - Len(notices)]
    BY <2>1, ConcatProperties, Zenon
  <2> QED
    BY <1>2, <1>4, <2>2, Zenon
<1>7. DOMAIN notices' = 1..(Len(notices) + c)
  BY <1>3, <1>6
<1>8. \A n \in DOMAIN notices : notices'[n] = notices[n]
  BY <1>3, <1>6
<1>9. ASSUME NEW i \in 1..c PROVE notices'[Len(notices) + i] = told[i]
  <2>1. Len(notices) + i \in 1..(Len(notices) + c) /\ ~(Len(notices) + i <= Len(notices))
        /\ (Len(notices) + i) - Len(notices) = i
    BY <1>3
  <2> QED
    BY <1>6, <2>1
<1> QED
  BY <1>5, <1>6, <1>7, <1>8, <1>9

LEMMA DeskTypesStep ==
    ASSUME DeskTypes, [Next]_vars
    PROVE  DeskTypes'
<1> USE DEF DeskTypes
<1>1. /\ Len(passes) \in Nat /\ PassIds = 1..Len(passes)
      /\ \A p \in PassIds : passes[p] \in PassRow
  BY PassesAreRows
<1>2. CASE QueueSteps
  <2>1. RowsKept /\ lane' \in [pass : Numbers, at : LaneAt]
    BY <1>2, QueueKeeps DEF QueueSteps
  <2>2. settling' \in Numbers
    BY <1>2 DEF QueueSteps, Forgets, Numbers
  <2> QED
    BY <1>2, <2>1, <2>2 DEF QueueSteps, RowsKept
<1>3. ASSUME NEW r \in Rows, Ingest(r)
      PROVE  DeskTypes'
  <2>1. [inbox[r] EXCEPT !.status = "pending"] \in InboxRow
    BY DEF InboxRow
  <2>2. inbox' \in [Rows -> InboxRow]
    BY <1>3, <2>1 DEF Ingest
  <2>3. settling' \in Numbers
    BY <1>3, RowsAreNumbers DEF Ingest, Numbers
  <2> QED
    BY <1>3, <2>2, <2>3 DEF Ingest, queue
<1>4. CASE SettleBatch
  <2>1. passes' \in Seq(PassRow) /\ inbox' \in [Rows -> InboxRow]
    <3>1. CASE Route
      BY <3>1, RouteRows, EnqueuedRows
    <3> QED
      BY <1>4, <3>1 DEF SettleBatch
  <2>2. notices' \in Seq(NoticeRow)
    <3> DEFINE active == {p \in DOMAIN passes' : /\ passes'[p].type = "channel"
                                                 /\ passes'[p].status \in {"queued", "running"}}
    <3>1. PICK on \in (IF active = {} THEN {0} ELSE active) :
             notices' = IF settling \in Taps /\ ~paused
                        THEN Append(notices, Notice("unplaced", on, settling))
                        ELSE notices
      BY <1>4 DEF SettleBatch
    <3>2. DOMAIN passes' \subseteq Nat
      BY <2>1
    <3>3. on \in Numbers
      BY <3>2 DEF Numbers
    <3>4. Notice("unplaced", on, settling) \in NoticeRow
      BY <3>3 DEF Notice, NoticeRow
    <3> HIDE DEF active
    <3> QED
      BY <3>1, <3>4
  <2> QED
    BY <1>4, <2>1, <2>2 DEF SettleBatch, Numbers
<1>5. CASE RouteLane
  <2>1. passes' \in Seq(PassRow) /\ inbox' \in [Rows -> InboxRow]
    BY <1>5, RouteRows, EnqueuedRows DEF RouteLane
  <2> QED
    BY <1>5, <2>1 DEF RouteLane
<1>6. CASE CooldownEnds \/ UNCHANGED vars
  BY <1>6 DEF CooldownEnds, vars, queue, desk
<1>7. ASSUME NEW p \in PassIds, SendMessage(p)
      PROVE  DeskTypes'
  <2>1. Notice("word", p, 0) \in NoticeRow
    BY <1>1 DEF Notice, NoticeRow, Numbers
  <2> QED
    BY <1>7, <2>1 DEF SendMessage
<1>8. CASE Finishes
  <2>1. RowsKept
    BY <1>8, FinishKeeps, ClassOfPass DEF Finishes, FinishPass
  <2>2. lane' \in [pass : Numbers, at : LaneAt]
    BY <1>8 DEF Finishes, FinishPass, LaneAt
  <2> QED
    BY <1>8, <2>1, <2>2 DEF Finishes, RowsKept
<1>9. CASE FoldLane
  <2> DEFINE failed == {p \in Settled : passes[p].status = "error"}
  <2>1. inbox' \in [Rows -> InboxRow]
    BY <1>9, FoldsRows
  <2>2. PICK order \in [1..Cardinality(failed) -> failed] :
          notices' = notices \o [i \in DOMAIN order |-> Notice("failure", order[i], 0)]
    BY <1>9 DEF FoldLane
  <2>3. failed \subseteq PassIds /\ Cardinality(failed) \in Nat
    <3>1. failed \subseteq 1..Len(passes)
      BY <1>1 DEF Settled
    <3> QED
      <4>1. IsFiniteSet(1..Len(passes))
        <5>1. 1 \in Int /\ Len(passes) \in Int
          BY <1>1
        <5> QED
          BY <5>1, FS_Interval
      <4>2. IsFiniteSet(failed)
        BY <3>1, <4>1, FS_Subset
      <4> QED
        BY <1>1, <3>1, <4>2, FS_CardinalityType
  <2> HIDE DEF failed
  <2>4. notices' \in Seq(NoticeRow)
    BY <2>2, <2>3, FoldsNotices
  <2> QED
    BY <1>9, <2>1, <2>4 DEF FoldLane, queue
<1>10. CASE Deliver
  <2>1. PICK n \in Undelivered : notices' = [notices EXCEPT ![n].delivered = TRUE]
    BY <1>10 DEF Deliver
  <2>2. n \in DOMAIN notices /\ notices[n] \in NoticeRow
    BY NoticesAreRows DEF Undelivered
  <2>3. [notices[n] EXCEPT !.delivered = TRUE] \in NoticeRow
    BY <2>2 DEF NoticeRow
  <2>4. notices' \in Seq(NoticeRow)
    BY <2>1, <2>2, <2>3
  <2> QED
    BY <1>10, <2>4 DEF Deliver, queue
<1>11. CASE SellerWaiting
  <2>1. PICK r \in Unsettled : notices' = Append(notices, Notice("waiting", 0, r))
    BY <1>11 DEF SellerWaiting
  <2>2. Notice("waiting", 0, r) \in NoticeRow
    BY RowsAreNumbers DEF Unsettled, RowsAs, Notice, NoticeRow, Numbers
  <2> QED
    BY <1>11, <2>1, <2>2 DEF SellerWaiting, queue
<1>12. ASSUME NEW p \in PassIds, NEW t \in Threads, SendReply(p, t)
       PROVE  DeskTypes'
  BY <1>12 DEF SendReply
<1>13. ASSUME NEW t \in Threads, BuyerWrites(t)
       PROVE  DeskTypes'
  <2>1. heard[t] + 1 \in Numbers
    BY DEF Numbers
  <2> QED
    BY <1>13, <2>1 DEF BuyerWrites, queue
<1>14. ASSUME NEW skip \in SUBSET Threads, ReplyLane(skip)
       PROVE  DeskTypes'
  <2>1. {<<t, heard[t]>> : t \in Claimable(skip)} \in Claims
    <3>1. \A t \in Claimable(skip) : t \in Threads /\ heard[t] \in Numbers
      BY DEF Claimable, Waiting
    <3> QED
      BY <3>1 DEF Claims
  <2>2. passes' \in Seq(PassRow)
    BY <1>14, <2>1, EnqueuedRows DEF ReplyLane
  <2> QED
    BY <1>14, <2>2 DEF ReplyLane, desk
<1> QED
  BY <1>2, <1>3, <1>4, <1>5, <1>6, <1>7, <1>8, <1>9, <1>10, <1>11, <1>12, <1>13, <1>14 DEF Next

-----------------------------------------------------------------------------
(* One hand: whoever holds a token is the pass the lane runs, its row is   *)
(* running or just settled, no sweep writes it off, and every younger row  *)
(* is still queued, as rows leave the queue in their order.                *)

Hands ==
    /\ lane.at # "idle" =>
         /\ lane.pass \in PassIds /\ lane.pass \notin overdue
         /\ passes[lane.pass].status = "running" \/ lane.at = "settled"
    /\ tokens \subseteq {lane.pass}
    /\ lane.at \in {"idle", "claimed"} => tokens = {}
    /\ \A p \in overdue : p \in PassIds /\ passes[p].status = "running"

IsQueued(p) == passes[p].status = "queued"

InOrder ==
    /\ \A p, q \in PassIds : p < q /\ IsQueued(p) => IsQueued(q)
    /\ lane.at # "idle" =>
         /\ ~IsQueued(lane.pass)
         /\ \A q \in PassIds : lane.pass < q => IsQueued(q)

\* A row leaves the running ones only by the lane's hand or once it is overdue.
LEMMA HandsQueue ==
    ASSUME DeskTypes, Hands, QueueStep
    PROVE  Hands'
<1>1. /\ Len(passes) \in Nat /\ PassIds = 1..Len(passes)
      /\ \A p \in PassIds : passes[p] \in PassRow
      /\ lane \in [pass : Numbers, at : LaneAt]
  BY PassesAreRows DEF DeskTypes
<1>2. Resting.at = "idle" /\ Resting.pass = 0
  BY DEF Resting
<1>3. CASE PassLane
  <2>1. /\ DOMAIN Swept = PassIds /\ Swept \in Seq(PassRow)
        /\ \A p \in PassIds : p \notin Stale => Swept[p] = passes[p]
        /\ \A p \in PassIds : p \in Stale => Swept[p].status = "error"
    BY FinishedRows DEF Swept
  <2>2. overdue' = {} /\ UNCHANGED tokens /\ lane.at = "idle" /\ tokens = {}
    BY <1>3 DEF PassLane, Stale, Hands
  <2>3. CASE UNCHANGED lane
    BY <2>2, <2>3 DEF Hands
  <2>4. ASSUME NEW p \in Waits, passes' = [Swept EXCEPT ![p].status = "running"],
               lane' = [pass |-> p, at |-> "claimed"]
        PROVE  Hands'
    <3>1. p \in PassIds /\ Swept[p].status = "queued" /\ p \in DOMAIN Swept
      BY <2>1, <2>4 DEF Waits
    <3>2. Swept[p] \in PassRow
      BY <2>1, <3>1
    <3>3. passes'[p].status = "running" /\ p \in DOMAIN passes'
      BY <2>4, <3>1, <3>2 DEF PassRow
    <3>4. lane'.pass = p /\ lane'.at = "claimed"
      BY <2>4
    <3> QED
      BY <2>2, <3>3, <3>4 DEF Hands, PassIds
  <2> QED
    BY <1>3, <2>3, <2>4 DEF PassLane
<1>4. CASE SpawnError
  <2>1. lane.at = "claimed" /\ passes' = Finished({lane.pass}, "error", "fault")
        /\ lane' = Resting /\ UNCHANGED <<tokens, overdue>>
    BY <1>4 DEF SpawnError
  <2>2. PassIds' = PassIds /\ \A p \in PassIds : p # lane.pass => passes'[p] = passes[p]
    BY <2>1, FinishedRows DEF PassIds
  <2> QED
    BY <1>2, <2>1, <2>2 DEF Hands
<1>5. CASE SpawnRaises
  BY <1>2, <1>5 DEF SpawnRaises, Hands, PassIds
<1>6. CASE Spawn
  <2>1. lane'.at = "watching" /\ lane'.pass = lane.pass /\ tokens' = tokens \cup {lane.pass}
        /\ lane.at = "claimed" /\ UNCHANGED <<passes, overdue>>
    BY <1>1, <1>6 DEF Spawn
  <2> QED
    BY <2>1 DEF Hands, PassIds
<1>7. CASE (\E rc \in {"ok", "fault"} : Exits(rc)) \/ (\E why \in {"timeout", "paused"} : Babysits(why))
  <2>1. lane'.at \in {"ok", "fault"} /\ lane'.pass = lane.pass /\ lane.at = "watching"
        /\ UNCHANGED <<passes, overdue, tokens>>
    BY <1>1, <1>7 DEF Exits, Babysits
  <2> QED
    BY <2>1 DEF Hands, PassIds
<1>13. CASE RevokeToken
  <2>1. lane'.at = "idle" /\ tokens' = {} /\ UNCHANGED <<passes, overdue>>
    BY <1>2, <1>13 DEF RevokeToken, Hands
  <2> QED
    BY <2>1 DEF Hands, PassIds
<1>14. CASE LetIn
  BY <1>14 DEF LetIn, Hands, PassIds
<1>8. ASSUME NEW p \in PassIds, GoesOverdue(p)
      PROVE  Hands'
  BY <1>8 DEF GoesOverdue, Hands, PassIds
<1>9. CASE SetPaused \/ Starts
  BY <1>9 DEF SetPaused, Starts, Hands, PassIds
<1>10. ASSUME NEW rows, Gone(rows), DOMAIN rows = PassIds,
              \A p \in overdue : rows[p].status = "running"
       PROVE  Hands'
  BY <1>2, <1>10 DEF Gone, Hands, PassIds
<1>11. CASE Killed
  <2>1. DOMAIN passes = PassIds /\ \A p \in overdue : passes[p].status = "running"
    BY DEF PassIds, Hands
  <2> QED
    BY <1>10, <1>11, <2>1 DEF Killed
<1>12. CASE Stops
  <2>1. DOMAIN passes = PassIds /\ \A p \in overdue : passes[p].status = "running"
    BY DEF PassIds, Hands
  <2>2. CASE lane.at = "watching" /\ Gone(Finished({lane.pass}, "error", "fault"))
    <3>1. \A p \in overdue : p \in PassIds /\ p # lane.pass
      BY <2>2 DEF Hands
    <3>2. "error" \in {"done", "error"} /\ "fault" \in {"none", "ok", "no_send", "fault"}
      OBVIOUS
    <3>3. DOMAIN Finished({lane.pass}, "error", "fault") = PassIds
      BY <3>2, FinishedRows
    <3>4. \A p \in PassIds : p \notin {lane.pass}
                             => Finished({lane.pass}, "error", "fault")[p] = passes[p]
      BY <3>2, FinishedRows
    <3> QED
      BY <1>10, <2>1, <2>2, <3>1, <3>3, <3>4
  <2> QED
    BY <1>10, <1>12, <2>1, <2>2 DEF Stops
<1> QED
  BY <1>3, <1>4, <1>5, <1>6, <1>7, <1>8, <1>9, <1>11, <1>12, <1>13, <1>14
     DEF QueueStep

\* A row that is added is queued, and nobody's.
LEMMA HandsEnqueued ==
    ASSUME DeskTypes, Hands, NEW type \in {"channel", "reply"}, NEW claim \in Claims,
           Enqueued(type, claim), UNCHANGED <<lane, tokens, overdue>>
    PROVE  Hands'
<1>1. /\ PassIds' = PassIds \cup {Len(passes) + 1}
      /\ \A p \in PassIds : passes'[p] = passes[p]
  BY EnqueuedRows
<1> QED
  BY <1>1 DEF Hands

LEMMA HandsStep ==
    ASSUME DeskTypes, Hands, [Next]_vars
    PROVE  Hands'
<1>1. CASE QueueSteps
  BY <1>1, HandsQueue DEF QueueSteps
<1>2. CASE SettleBatch \/ RouteLane
  <2>1. UNCHANGED <<lane, tokens, overdue>> /\ (Route \/ UNCHANGED passes)
    BY <1>2 DEF SettleBatch, RouteLane
  <2>2. CASE Route
    BY <2>1, <2>2, RouteRows, HandsEnqueued
  <2>3. CASE UNCHANGED passes
    BY <2>1, <2>3 DEF Hands, PassIds
  <2> QED
    BY <2>1, <2>2, <2>3
<1>3. CASE Finishes
  <2>1. PICK class \in {"ok", "no_send", "fault"} :
          /\ passes' = Finished({lane.pass}, IF class = "ok" THEN "done" ELSE "error", class)
          /\ lane' = [lane EXCEPT !.at = "settled"] /\ UNCHANGED <<tokens, overdue>>
          /\ lane.at \in {"ok", "fault"}
    BY <1>3 DEF Finishes, FinishPass, Classify
  <2>2. PassIds' = PassIds /\ \A p \in PassIds : p # lane.pass => passes'[p] = passes[p]
    BY <2>1, FinishedRows DEF PassIds
  <2>3. lane'.at = "settled" /\ lane'.pass = lane.pass
    BY <2>1 DEF DeskTypes
  <2>4. \A p \in overdue' : p \in PassIds' /\ passes'[p].status = "running"
    BY <2>1, <2>2 DEF Hands
  <2>5. lane.pass \in PassIds /\ lane.pass \notin overdue /\ tokens \subseteq {lane.pass}
    BY <2>1 DEF Hands
  <2>6. lane'.at # "idle" => /\ lane'.pass \in PassIds' /\ lane'.pass \notin overdue'
                             /\ passes'[lane'.pass].status = "running" \/ lane'.at = "settled"
    BY <2>1, <2>2, <2>3, <2>5
  <2>7. tokens' \subseteq {lane'.pass} /\ lane'.at \notin {"idle", "claimed"}
    BY <2>1, <2>3, <2>5
  <2> QED
    BY <2>4, <2>6, <2>7 DEF Hands
<1>4. ASSUME NEW skip \in SUBSET Threads, ReplyLane(skip)
      PROVE  Hands'
  <2>1. {<<t, heard[t]>> : t \in Claimable(skip)} \in Claims
    <3>1. \A t \in Claimable(skip) : t \in Threads /\ heard[t] \in Numbers
      BY DEF Claimable, Waiting, DeskTypes
    <3> QED
      BY <3>1 DEF Claims
  <2> QED
    BY <1>4, <2>1, HandsEnqueued DEF ReplyLane
<1>5. CASE UNCHANGED <<passes, lane, tokens, overdue>>
  BY <1>5 DEF Hands, PassIds
<1> QED
  BY <1>1, <1>2, <1>3, <1>4, <1>5 DEF Next, Ingest, CooldownEnds, SendMessage, FoldLane, Deliver,
     SellerWaiting, SendReply, BuyerWrites, vars, queue

\* The order lasts while no row enters or leaves the queue.
LEMMA OrderKept ==
    ASSUME InOrder, PassIds' = PassIds, \A p \in PassIds : IsQueued(p)' <=> IsQueued(p),
           lane'.at = "idle" \/ (lane.at # "idle" /\ lane'.pass = lane.pass /\ lane.pass \in PassIds)
    PROVE  InOrder'
<1>1. \A p, q \in PassIds' : p < q /\ IsQueued(p)' => IsQueued(q)'
  BY DEF InOrder
<1>2. lane'.at # "idle" => /\ ~IsQueued(lane.pass)'
                           /\ \A q \in PassIds' : lane.pass < q => IsQueued(q)'
  BY DEF InOrder
<1>3. lane'.at # "idle" => lane'.pass = lane.pass
  OBVIOUS
<1> QED
  BY <1>1, <1>2, <1>3 DEF InOrder, IsQueued

\* A row that is settled was not in the queue.
LEMMA SettledKept ==
    ASSUME DeskTypes, NEW ps, \A p \in ps \cap PassIds : ~IsQueued(p),
           NEW status \in {"done", "error"}, NEW class \in {"none", "ok", "no_send", "fault"}
    PROVE  /\ DOMAIN Finished(ps, status, class) = PassIds
           /\ \A p \in PassIds :
                Finished(ps, status, class)[p].status = "queued" <=> IsQueued(p)
<1>1. /\ DOMAIN Finished(ps, status, class) = PassIds
      /\ \A p \in PassIds :
           /\ p \in ps => Finished(ps, status, class)[p].status = status
           /\ p \notin ps => Finished(ps, status, class)[p] = passes[p]
  BY FinishedRows
<1>2. status # "queued"
  OBVIOUS
<1> QED
  BY <1>1, <1>2 DEF IsQueued

LEMMA OrderClaimed ==
    ASSUME DeskTypes, Hands, InOrder, PassLane
    PROVE  InOrder'
<1>1. Len(passes) \in Nat /\ PassIds = 1..Len(passes)
  BY PassesAreRows
<1>2. /\ DOMAIN Swept = PassIds /\ Swept \in Seq(PassRow)
      /\ \A p \in PassIds : Swept[p].status = "queued" <=> IsQueued(p)
  <2>1. \A p \in Stale \cap PassIds : ~IsQueued(p)
    BY DEF Stale, IsQueued
  <2> QED
    BY <2>1, SettledKept, FinishedRows DEF Swept
<1>3. lane.at = "idle"
  BY DEF PassLane
<1>4. CASE passes' = Swept /\ UNCHANGED lane
  <2>1. PassIds' = PassIds /\ \A p \in PassIds : IsQueued(p)' <=> IsQueued(p)
    BY <1>2, <1>4 DEF PassIds, IsQueued
  <2> QED
    BY <1>3, <1>4, <2>1, OrderKept
<1>5. ASSUME NEW p \in Waits, \A q \in Waits : p <= q,
             passes' = [Swept EXCEPT ![p].status = "running"],
             lane' = [pass |-> p, at |-> "claimed"]
      PROVE  InOrder'
  <2>1. p \in PassIds /\ IsQueued(p)
    BY <1>2, <1>5 DEF Waits
  <2>2. \A q \in PassIds : IsQueued(q) => p <= q
    BY <1>2, <1>5 DEF Waits
  <2>3. \A q \in PassIds : p < q => IsQueued(q)
    BY <2>1 DEF InOrder
  <2>4. PassIds' = PassIds
    BY <1>2, <1>5 DEF PassIds
  <2>5. passes'[p].status = "running"
    <3>1. Swept[p] \in PassRow
      BY <1>2, <2>1
    <3> QED
      BY <1>2, <1>5, <2>1, <3>1 DEF PassRow
  <2>6. \A q \in PassIds : q # p => passes'[q] = Swept[q]
    BY <1>2, <1>5
  <2>7. \A q \in PassIds : IsQueued(q)' <=> IsQueued(q) /\ q # p
    BY <1>2, <2>5, <2>6 DEF IsQueued
  <2>8. \A q, o \in PassIds : q < o /\ IsQueued(q)' => IsQueued(o)'
    BY <1>1, <2>1, <2>2, <2>3, <2>7
  <2>9. ~IsQueued(p)' /\ \A q \in PassIds : p < q => IsQueued(q)'
    BY <1>1, <2>1, <2>3, <2>7
  <2>10. lane'.pass = p
    BY <1>5
  <2> QED
    BY <2>4, <2>8, <2>9, <2>10 DEF InOrder, IsQueued
<1> QED
  BY <1>4, <1>5 DEF PassLane

LEMMA OrderQueue ==
    ASSUME DeskTypes, Hands, InOrder, QueueStep
    PROVE  InOrder'
<1>1. lane \in [pass : Numbers, at : LaneAt] /\ Resting.at = "idle"
  BY DEF DeskTypes, Resting
<1>2. lane.at # "idle" => lane.pass \in PassIds /\ ~IsQueued(lane.pass)
  BY DEF Hands, InOrder
<1>3. "error" \in {"done", "error"} /\ "fault" \in {"none", "ok", "no_send", "fault"}
  OBVIOUS
<1>4. ASSUME passes' = Finished({lane.pass}, "error", "fault"), lane.at # "idle", lane' = Resting
      PROVE  InOrder'
  <2>1. PassIds' = PassIds /\ \A p \in PassIds : IsQueued(p)' <=> IsQueued(p)
    BY <1>2, <1>3, <1>4, SettledKept DEF PassIds, IsQueued
  <2> QED
    BY <1>1, <1>4, <2>1, OrderKept
<1>5. ASSUME UNCHANGED passes, lane'.at = "idle" \/ (lane.at # "idle" /\ lane'.pass = lane.pass)
      PROVE  InOrder'
  BY <1>2, <1>5, OrderKept DEF PassIds, IsQueued
<1>6. ASSUME UNCHANGED <<passes, lane>>
      PROVE  InOrder'
  BY <1>6 DEF InOrder, PassIds, IsQueued
<1>7. CASE SpawnError
  BY <1>4, <1>7 DEF SpawnError
<1>8. CASE SpawnRaises \/ Spawn \/ (\E rc \in {"ok", "fault"} : Exits(rc))
           \/ (\E why \in {"timeout", "paused"} : Babysits(why)) \/ RevokeToken \/ Killed
  BY <1>1, <1>5, <1>8 DEF SpawnRaises, Spawn, Exits, Babysits, RevokeToken, Killed, Gone
<1>9. CASE (\E p \in PassIds : GoesOverdue(p)) \/ LetIn \/ SetPaused \/ Starts
  BY <1>6, <1>9 DEF GoesOverdue, LetIn, SetPaused, Starts
<1>10. CASE Stops
  BY <1>1, <1>4, <1>5, <1>10 DEF Stops, Gone
<1> QED
  BY <1>7, <1>8, <1>9, <1>10, OrderClaimed DEF QueueStep

LEMMA OrderEnqueued ==
    ASSUME DeskTypes, Hands, InOrder, NEW type \in {"channel", "reply"}, NEW claim \in Claims,
           Enqueued(type, claim), UNCHANGED lane
    PROVE  InOrder'
<1>1. PICK m \in Nat : m = Len(passes) + 1
  BY PassesAreRows
<1>2. /\ PassIds' = PassIds \cup {m}
      /\ \A p \in PassIds : passes'[p] = passes[p]
      /\ passes'[m].status = "queued"
  BY <1>1, EnqueuedRows
<1>3. PassIds = 1..(m - 1)
  BY <1>1, PassesAreRows
<1>4. IsQueued(m)' /\ \A p \in PassIds : IsQueued(p)' <=> IsQueued(p)
  BY <1>2 DEF IsQueued
<1>5. \A p, q \in PassIds' : p < q /\ IsQueued(p)' => IsQueued(q)'
  BY <1>2, <1>3, <1>4 DEF InOrder
<1>6. lane.at # "idle" => /\ ~IsQueued(lane.pass)' /\ lane.pass \in PassIds
                          /\ \A q \in PassIds' : lane.pass < q => IsQueued(q)'
  <2>1. HAVE lane.at # "idle"
  <2>2. lane.pass \in PassIds /\ ~IsQueued(lane.pass)
        /\ \A q \in PassIds : lane.pass < q => IsQueued(q)
    BY <2>1 DEF Hands, InOrder
  <2>3. \A q \in PassIds' : lane.pass < q => IsQueued(q)'
    BY <1>2, <1>4, <2>2
  <2>4. ~IsQueued(lane.pass)'
    BY <1>2, <2>2 DEF IsQueued
  <2> QED
    BY <2>2, <2>3, <2>4
<1> QED
  BY <1>5, <1>6 DEF InOrder, IsQueued

LEMMA OrderStep ==
    ASSUME DeskTypes, Hands, InOrder, [Next]_vars
    PROVE  InOrder'
<1>1. CASE QueueSteps
  BY <1>1, OrderQueue DEF QueueSteps
<1>2. CASE UNCHANGED <<passes, lane>>
  BY <1>2 DEF InOrder, PassIds, IsQueued
<1>3. CASE SettleBatch \/ RouteLane
  <2>1. UNCHANGED lane /\ (Route \/ UNCHANGED passes)
    BY <1>3 DEF SettleBatch, RouteLane
  <2> QED
    BY <1>2, <2>1, RouteRows, OrderEnqueued
<1>4. CASE Finishes
  <2>1. PICK class \in {"ok", "no_send", "fault"} :
          /\ passes' = Finished({lane.pass}, IF class = "ok" THEN "done" ELSE "error", class)
          /\ lane' = [lane EXCEPT !.at = "settled"] /\ lane.at \in {"ok", "fault"}
    BY <1>4 DEF Finishes, FinishPass, Classify
  <2>2. lane.pass \in PassIds /\ ~IsQueued(lane.pass) /\ lane.at # "idle"
    BY <2>1 DEF Hands, InOrder
  <2>3. PassIds' = PassIds /\ \A p \in PassIds : IsQueued(p)' <=> IsQueued(p)
    BY <2>1, <2>2, SettledKept DEF PassIds, IsQueued
  <2>4. lane'.pass = lane.pass
    BY <2>1 DEF DeskTypes
  <2> QED
    BY <2>2, <2>3, <2>4, OrderKept
<1>5. ASSUME NEW skip \in SUBSET Threads, ReplyLane(skip)
      PROVE  InOrder'
  <2>1. {<<t, heard[t]>> : t \in Claimable(skip)} \in Claims
    <3>1. \A t \in Claimable(skip) : t \in Threads /\ heard[t] \in Numbers
      BY DEF Claimable, Waiting, DeskTypes
    <3> QED
      BY <3>1 DEF Claims
  <2> QED
    BY <1>5, <2>1, OrderEnqueued DEF ReplyLane
<1> QED
  BY <1>1, <1>2, <1>3, <1>4, <1>5 DEF Next, Ingest, CooldownEnds, SendMessage, FoldLane, Deliver,
     SellerWaiting, SendReply, BuyerWrites, vars, queue

\* Whatever a stop, a kill, a raised spawn or a stale sweep does, a call is let in only for
\* the pass in hand, the youngest that ever left the queue: what the passes before it can
\* still do is finish the calls they had.
THEOREM OnlyOneBegins == Spec => OneHand
<1> DEFINE Begins(p) == /\ p = lane.pass /\ p \notin overdue
                        /\ passes[p].status = "running" \/ lane.at = "settled"
                        /\ \A q \in PassIds : q > p => passes[q].status = "queued"
<1>1. DeskInit => Hands /\ InOrder
  <2> SUFFICES ASSUME DeskInit PROVE Hands /\ InOrder
    OBVIOUS
  <2>1. passes = <<>> /\ lane.at = "idle" /\ tokens = {} /\ overdue = {}
    BY DEF DeskInit, QueueInit, Resting
  <2> QED
    BY <2>1 DEF Hands, InOrder, PassIds
<1>2. DeskTypes /\ Hands /\ InOrder /\ [Next]_vars => DeskTypes' /\ Hands' /\ InOrder'
  BY DeskTypesStep, HandsStep, OrderStep
<1>3. DeskTypes /\ Hands /\ InOrder /\ [Next]_vars
        => [\A p \in calls' \ calls : Begins(p)]_vars
  <2> SUFFICES ASSUME DeskTypes, Hands, InOrder, Next, NEW p \in calls', p \notin calls
               PROVE  Begins(p)
    OBVIOUS
  <2>1. QueueSteps
    BY DEF Next, Ingest, SettleBatch, RouteLane, CooldownEnds, Finishes, FinishPass, FoldLane,
       Deliver, SellerWaiting, SendMessage, SendReply, BuyerWrites, ReplyLane, queue
  <2>2. LetIn
    BY <2>1 DEF QueueSteps, QueueStep, PassLane, SpawnError, SpawnRaises, Spawn, Exits, Babysits,
       RevokeToken, GoesOverdue, SetPaused, Stops, Killed, Gone, Starts
  <2>3. p \in tokens
    BY <2>2 DEF LetIn
  <2>4. p = lane.pass /\ lane.at # "idle"
    BY <2>3 DEF Hands
  <2>5. /\ p \in PassIds /\ p \notin overdue
        /\ passes[p].status = "running" \/ lane.at = "settled"
    BY <2>4 DEF Hands
  <2>6. \A q \in PassIds : q > p => passes[q].status = "queued"
    <3>1. p \in Nat /\ PassIds \subseteq Nat
      BY <2>5, PassesAreRows
    <3> QED
      BY <2>4, <3>1 DEF InOrder, IsQueued
  <2> QED
    BY <2>4, <2>5, <2>6
<1> QED
  BY <1>1, <1>2, <1>3, DeskTypesInit, PTL DEF Spec, OneHand

-----------------------------------------------------------------------------
(* Typing: an active channel pass was made of rows that only a fold, which *)
(* takes settled passes alone, lets go of.                                 *)

Holds == \A p \in Active("channel") : \E r \in Rows : inbox[r] = [status |-> "claimed", pass |-> p]

\* The rows an active pass holds outlast whatever adds no channel pass and no fold.
LEMMA HoldsKept ==
    ASSUME Holds, Active("channel")' \subseteq Active("channel"),
           \A r \in Rows : inbox[r].status = "claimed" => inbox'[r] = inbox[r]
    PROVE  Holds'
<1> SUFFICES ASSUME NEW p \in Active("channel")'
             PROVE  \E r \in Rows : inbox'[r] = [status |-> "claimed", pass |-> p]
  BY DEF Holds
<1>1. PICK r \in Rows : inbox[r] = [status |-> "claimed", pass |-> p]
  BY DEF Holds
<1>2. inbox'[r] = inbox[r]
  BY <1>1
<1> QED
  BY <1>1, <1>2

LEMMA KeptActive == ASSUME RowsKept PROVE Active("channel")' \subseteq Active("channel")
  BY DEF RowsKept, Active, PassIds

LEMMA HoldsStep ==
    ASSUME DeskTypes, Holds, [Next]_vars
    PROVE  Holds'
<1>1. CASE Route
  <2>1. /\ Active("channel") = {} /\ RowsAs("pending") # {}
        /\ PassIds' = PassIds \cup {Len(passes) + 1}
        /\ \A p \in PassIds : passes'[p] = passes[p]
        /\ \A r \in Rows : inbox[r].status = "pending" =>
                             inbox'[r] = [status |-> "claimed", pass |-> Len(passes) + 1]
    BY <1>1, RouteRows, EnqueuedRows
  <2>2. \A p \in Active("channel")' : p = Len(passes) + 1
    BY <2>1 DEF Active
  <2> QED
    BY <2>1, <2>2 DEF Holds, RowsAs
<1>2. ASSUME NEW skip \in SUBSET Threads, ReplyLane(skip)
      PROVE  Holds'
  <2>1. {<<t, heard[t]>> : t \in Claimable(skip)} \in Claims
    <3>1. \A t \in Claimable(skip) : t \in Threads /\ heard[t] \in Numbers
      BY DEF Claimable, Waiting, DeskTypes
    <3> QED
      BY <3>1 DEF Claims
  <2>2. /\ PassIds' = PassIds \cup {Len(passes) + 1} /\ \A p \in PassIds : passes'[p] = passes[p]
        /\ passes'[Len(passes) + 1].type = "reply"
    BY <1>2, <2>1, EnqueuedRows DEF ReplyLane
  <2>3. Active("channel")' \subseteq Active("channel")
    BY <2>2 DEF Active
  <2> QED
    BY <1>2, <2>3, HoldsKept DEF ReplyLane, desk
<1>3. CASE QueueSteps
  BY <1>3, QueueKeeps, KeptActive, HoldsKept DEF QueueSteps
<1>4. CASE Finishes
  <2>1. RowsKept
    BY <1>4, FinishKeeps, ClassOfPass DEF Finishes, FinishPass
  <2> QED
    BY <1>4, <2>1, KeptActive, HoldsKept DEF Finishes
<1>5. CASE UNCHANGED <<passes, inbox>>
  BY <1>5, SameRows, KeptActive, HoldsKept
<1>6. ASSUME NEW r \in Rows, Ingest(r)
      PROVE  Holds'
  <2>1. inbox[r].status = "unsent" /\ inbox' = [inbox EXCEPT ![r].status = "pending"]
        /\ UNCHANGED passes
    BY <1>6 DEF Ingest, queue
  <2>2. \A q \in Rows : inbox[q].status = "claimed" => inbox'[q] = inbox[q]
    BY <2>1 DEF DeskTypes
  <2> QED
    BY <2>1, <2>2, SameRows, KeptActive, HoldsKept
<1>7. CASE FoldLane
  <2>1. UNCHANGED passes
    BY <1>7 DEF FoldLane, queue
  <2>2. Active("channel")' = Active("channel")
    BY <2>1 DEF Active, PassIds
  <2>3. SUFFICES ASSUME NEW p \in Active("channel")
                 PROVE  \E r \in Rows : inbox'[r] = [status |-> "claimed", pass |-> p]
    BY <2>2 DEF Holds
  <2>4. PICK r \in Rows : inbox[r] = [status |-> "claimed", pass |-> p]
    BY DEF Holds
  <2>5. p \notin Settled
    BY DEF Active, Settled, Terminal
  <2>6. inbox[r].pass = p
    BY <2>4
  <2>7. inbox'[r] = inbox[r]
    BY <1>7, <2>5, <2>6, FoldsRows
  <2> QED
    BY <2>4, <2>7
<1> QED
  BY <1>1, <1>2, <1>3, <1>4, <1>5, <1>6, <1>7 DEF Next, SettleBatch, RouteLane, CooldownEnds,
     SendMessage, Deliver, SellerWaiting, SendReply, BuyerWrites, vars, queue, desk

\* While the chat shows the agent typing, a message of the seller's is held by the pass it
\* shows it for, though the indicator never reads the messages.
THEOREM TypingMeansOwed == Spec => []TypingIsOwed
<1>1. DeskInit => Holds
  BY DEF DeskInit, QueueInit, Holds, Active, PassIds
<1>2. DeskTypes /\ Holds /\ [Next]_vars => DeskTypes' /\ Holds'
  BY DeskTypesStep, HoldsStep
<1>3. Holds => TypingIsOwed
  BY DEF Holds, TypingIsOwed, Lit
<1> QED
  BY <1>1, <1>2, <1>3, DeskTypesInit, PTL DEF Spec

-----------------------------------------------------------------------------
(* Told: the failed rows and the failure notices are of the same passes,   *)
(* and a pass is failed whole, so no fold comes back to it.                *)

FailedRows   == {r \in Rows : inbox[r].status = "failed"}
ClaimedRows  == {r \in Rows : inbox[r].status = "claimed"}
FailureTold  == {n \in DOMAIN notices : notices[n].kind = "failure"}

Told ==
    /\ \A r \in FailedRows : inbox[r].pass \in PassIds
    /\ \A n \in FailureTold : \E r \in FailedRows : inbox[r].pass = notices[n].pass
    /\ \A r \in FailedRows : \E n \in FailureTold : notices[n].pass = inbox[r].pass
    /\ \A m, n \in FailureTold : notices[m].pass = notices[n].pass => m = n
    /\ \A q \in ClaimedRows, r \in FailedRows : inbox[q].pass # inbox[r].pass

\* A step that folds nothing: it may claim rows for a pass that is new and add notices of
\* any kind but failure.
LEMMA ToldKept ==
    ASSUME Told, PassIds \subseteq PassIds',
           \A r \in Rows : inbox[r].status = "failed" \/ inbox'[r].status = "failed"
                             => inbox'[r] = inbox[r],
           \A r \in Rows : inbox'[r].status = "claimed"
                             => inbox'[r] = inbox[r] \/ inbox'[r].pass \notin PassIds,
           DOMAIN notices \subseteq DOMAIN notices',
           \A n \in DOMAIN notices : /\ notices'[n].kind = notices[n].kind
                                     /\ notices'[n].pass = notices[n].pass,
           \A n \in DOMAIN notices' : n \notin DOMAIN notices => notices'[n].kind # "failure"
    PROVE  Told'
<1>1. FailedRows' = FailedRows /\ \A r \in FailedRows : inbox'[r] = inbox[r]
  BY DEF FailedRows
<1>2. FailureTold' = FailureTold /\ \A n \in FailureTold : notices'[n].pass = notices[n].pass
  BY DEF FailureTold
<1>3. ASSUME NEW q \in ClaimedRows', NEW r \in FailedRows
      PROVE  inbox'[q].pass # inbox'[r].pass
  <2>1. inbox[r].pass \in PassIds /\ inbox'[r] = inbox[r]
    BY <1>1 DEF Told
  <2>2. CASE inbox'[q] = inbox[q]
    BY <2>1, <2>2 DEF Told, ClaimedRows
  <2>3. CASE inbox'[q].pass \notin PassIds
    BY <2>1, <2>3
  <2> QED
    BY <2>2, <2>3 DEF ClaimedRows
<1>4. \A r \in FailedRows' : inbox'[r].pass \in PassIds'
  BY <1>1 DEF Told
<1>5. \A n \in FailureTold' : \E r \in FailedRows' : inbox'[r].pass = notices'[n].pass
  BY <1>1, <1>2 DEF Told
<1>6. \A r \in FailedRows' : \E n \in FailureTold' : notices'[n].pass = inbox'[r].pass
  BY <1>1, <1>2 DEF Told
<1>7. \A m, n \in FailureTold' : notices'[m].pass = notices'[n].pass => m = n
  BY <1>2 DEF Told
<1> QED
  BY <1>1, <1>3, <1>4, <1>5, <1>6, <1>7 DEF Told

\* A list without repeats as long as a finite set is big names all of it.
LEMMA NamesAll ==
    ASSUME NEW S, IsFiniteSet(S), NEW order \in [1..Cardinality(S) -> S],
           \A i, j \in 1..Cardinality(S) : order[i] = order[j] => i = j
    PROVE  \A x \in S : \E i \in 1..Cardinality(S) : order[i] = x
<1> DEFINE c == Cardinality(S)
           T == {order[i] : i \in 1..c}
<1>1. c \in Nat
  BY FS_CardinalityType
<1>2. IsFiniteSet(1..c) /\ Cardinality(1..c) = c
  <2>1. 1 \in Int /\ c \in Int
    BY <1>1
  <2>2. IsFiniteSet(1..c) /\ Cardinality(1..c) = IF 1 > c THEN 0 ELSE c - 1 + 1
    BY <2>1, FS_Interval
  <2> QED
    BY <1>1, <2>2
<1>3. T \subseteq S
  OBVIOUS
<1>4. order \in Bijection(1..c, T)
  BY DEF Bijection, Injection, Surjection, IsInjective
<1>5. Cardinality(T) = c /\ IsFiniteSet(T)
  <2>1. ExistsBijection(1..c, T)
    BY <1>4 DEF ExistsBijection
  <2> QED
    BY <1>2, <2>1, FS_Bijection
<1>6. T = S
  BY <1>3, <1>5, FS_Subset
<1> QED
  BY <1>6

\* The fold: the passes it tells of had no failed row, lose every claimed one, and are
\* told of once each.
LEMMA FoldTells ==
    ASSUME DeskTypes, Told, FoldLane
    PROVE  Told'
<1> DEFINE failed == {p \in Settled : passes[p].status = "error"}
<1>1. /\ \A r \in Rows :
           /\ inbox'[r].pass = inbox[r].pass
           /\ inbox[r].status = "claimed" /\ inbox[r].pass \in Settled
                => inbox'[r].status = IF inbox[r].pass \in failed THEN "failed" ELSE "handled"
           /\ ~(inbox[r].status = "claimed" /\ inbox[r].pass \in Settled) => inbox'[r] = inbox[r]
  BY FoldsRows
<1>2. UNCHANGED passes /\ PassIds' = PassIds /\ Settled \subseteq PassIds
  BY DEF FoldLane, queue, PassIds, Settled
<1>3. \A p \in Settled : \E r \in ClaimedRows : inbox[r].pass = p
  BY DEF Settled, RowsAs, ClaimedRows
<1>4. IsFiniteSet(failed) /\ Cardinality(failed) \in Nat /\ failed \subseteq PassIds
  <2>1. failed \subseteq 1..Len(passes) /\ failed \subseteq PassIds /\ Len(passes) \in Nat
    BY <1>2, PassesAreRows
  <2>2. IsFiniteSet(1..Len(passes))
    <3>1. 1 \in Int /\ Len(passes) \in Int
      BY <2>1
    <3> QED
      BY <3>1, FS_Interval
  <2> QED
    BY <2>1, <2>2, FS_Subset, FS_CardinalityType
<1> DEFINE c == Cardinality(failed)
<1>5. PICK order \in [1..c -> failed] :
        /\ \A i, j \in DOMAIN order : i < j => order[i] < order[j]
        /\ notices' = notices \o [i \in DOMAIN order |-> Notice("failure", order[i], 0)]
  BY DEF FoldLane
<1>6. failed \subseteq Settled
  OBVIOUS
<1> HIDE DEF failed, c
<1>7. \A i, j \in 1..c : order[i] = order[j] => i = j
  <2> SUFFICES ASSUME NEW i \in 1..c, NEW j \in 1..c, order[i] = order[j] PROVE i = j
    OBVIOUS
  <2>1. order[i] \in Int /\ c \in Nat
    BY <1>4, PassesAreRows DEF c
  <2>2. ~(i < j) /\ ~(j < i)
    BY <1>5, <2>1
  <2> QED
    BY <2>1, <2>2
<1>8. \A p \in failed : \E i \in 1..c : order[i] = p
  <2>1. order \in [1..Cardinality(failed) -> failed]
        /\ \A i, j \in 1..Cardinality(failed) : order[i] = order[j] => i = j
    BY <1>7 DEF c
  <2> QED
    BY <1>4, <2>1, NamesAll DEF c
<1>9. /\ DOMAIN notices' = 1..(Len(notices) + c)
      /\ \A n \in DOMAIN notices : notices'[n] = notices[n]
      /\ \A i \in 1..c : notices'[Len(notices) + i] = Notice("failure", order[i], 0)
  BY <1>4, <1>5, FoldsNotices DEF c
<1>10. /\ Len(notices) \in Nat /\ DOMAIN notices = 1..Len(notices) /\ c \in Nat
  BY <1>4, NoticesAreRows DEF c
<1>11. \A i \in 1..c : /\ notices'[Len(notices) + i].kind = "failure"
                       /\ notices'[Len(notices) + i].pass = order[i]
                       /\ Len(notices) + i \in DOMAIN notices'
  <2>1. \A i \in 1..c : Len(notices) + i \in 1..(Len(notices) + c)
    BY <1>10
  <2>2. \A p : Notice("failure", p, 0).kind = "failure" /\ Notice("failure", p, 0).pass = p
    BY DEF Notice
  <2>3. \A i \in 1..c : Len(notices) + i \in DOMAIN notices'
    BY <1>9, <2>1
  <2> QED
    BY <1>9, <2>2, <2>3
\* The failed rows: those there were, and the claimed ones of the passes told of.
<1>12. FailedRows' = FailedRows \cup {r \in ClaimedRows : inbox[r].pass \in failed}
  <2>1. ASSUME NEW r \in Rows
        PROVE  inbox'[r].status = "failed" <=> \/ inbox[r].status = "failed"
                                               \/ inbox[r].status = "claimed" /\ inbox[r].pass \in failed
    BY <1>1, <1>6 DEF failed
  <2> QED
    BY <2>1 DEF FailedRows, ClaimedRows
<1>13. ClaimedRows' = {r \in ClaimedRows : inbox[r].pass \notin Settled}
  <2>1. ASSUME NEW r \in Rows
        PROVE  inbox'[r].status = "claimed"
                 <=> inbox[r].status = "claimed" /\ inbox[r].pass \notin Settled
    BY <1>1
  <2> QED
    BY <2>1 DEF ClaimedRows
<1>14. \A r \in Rows : inbox'[r].pass = inbox[r].pass
  BY <1>1
\* The failure notices: those there were, and one of each pass told of.
<1>15. FailureTold' = FailureTold \cup {Len(notices) + i : i \in 1..c}
  <2>1. ASSUME NEW n \in DOMAIN notices'
        PROVE  n \in DOMAIN notices \/ \E i \in 1..c : n = Len(notices) + i
    <3>1. n \in 1..(Len(notices) + c)
      BY <1>9
    <3>2. CASE n <= Len(notices)
      BY <1>10, <3>1, <3>2
    <3>3. CASE n > Len(notices)
      <4>1. n - Len(notices) \in 1..c /\ n = Len(notices) + (n - Len(notices))
        BY <1>10, <3>1, <3>3
      <4> QED
        BY <4>1
    <3> QED
      BY <1>10, <3>1, <3>2, <3>3
  <2>2. DOMAIN notices \subseteq DOMAIN notices'
    BY <1>9, <1>10
  <2> QED
    BY <1>9, <1>11, <2>1, <2>2 DEF FailureTold
<1>16. \A n \in FailureTold : notices'[n].pass = notices[n].pass /\ notices[n].pass \notin failed
  <2> SUFFICES ASSUME NEW n \in FailureTold
               PROVE  notices'[n].pass = notices[n].pass /\ notices[n].pass \notin failed
    OBVIOUS
  <2>1. notices'[n] = notices[n]
    BY <1>9 DEF FailureTold
  <2>2. \E r \in FailedRows : inbox[r].pass = notices[n].pass
    BY DEF Told
  <2> QED
    BY <1>3, <1>6, <2>1, <2>2 DEF Told
<1>17. \A r \in FailedRows' : inbox'[r].pass \in PassIds'
  BY <1>2, <1>4, <1>12, <1>14 DEF Told, FailedRows, ClaimedRows
<1>18. \A n \in FailureTold' : \E r \in FailedRows' : inbox'[r].pass = notices'[n].pass
  <2>1. \A n \in FailureTold : \E r \in FailedRows' : inbox'[r].pass = notices'[n].pass
    BY <1>12, <1>14, <1>16 DEF Told, FailedRows
  <2>2. \A i \in 1..c : \E r \in FailedRows' : inbox'[r].pass = notices'[Len(notices) + i].pass
    <3> SUFFICES ASSUME NEW i \in 1..c
                 PROVE  \E r \in FailedRows' : inbox'[r].pass = notices'[Len(notices) + i].pass
      OBVIOUS
    <3>1. order[i] \in failed /\ order[i] \in Settled
      BY <1>6
    <3>2. PICK r \in ClaimedRows : inbox[r].pass = order[i]
      BY <1>3, <3>1
    <3>3. r \in FailedRows' /\ inbox'[r].pass = order[i]
      BY <1>12, <1>14, <3>1, <3>2 DEF ClaimedRows
    <3> QED
      BY <1>11, <3>3
  <2> QED
    BY <1>15, <2>1, <2>2
<1>19. \A r \in FailedRows' : \E n \in FailureTold' : notices'[n].pass = inbox'[r].pass
  <2>1. ASSUME NEW r \in FailedRows
        PROVE  \E n \in FailureTold' : notices'[n].pass = inbox'[r].pass
    BY <1>14, <1>15, <1>16 DEF Told, FailedRows
  <2>2. ASSUME NEW r \in ClaimedRows, inbox[r].pass \in failed
        PROVE  \E n \in FailureTold' : notices'[n].pass = inbox'[r].pass
    <3>1. PICK i \in 1..c : order[i] = inbox[r].pass
      BY <1>8, <2>2
    <3>2. inbox'[r].pass = inbox[r].pass
      BY <1>14 DEF ClaimedRows
    <3> QED
      BY <1>11, <1>15, <3>1, <3>2
  <2> QED
    BY <1>12, <2>1, <2>2
<1>20. \A m, n \in FailureTold' : notices'[m].pass = notices'[n].pass => m = n
  <2>1. \A m, n \in FailureTold : notices'[m].pass = notices'[n].pass => m = n
    BY <1>16 DEF Told
  <2>2. \A m \in FailureTold, i \in 1..c : notices'[m].pass # notices'[Len(notices) + i].pass
    BY <1>11, <1>16
  <2>3. \A i, j \in 1..c : notices'[Len(notices) + i].pass = notices'[Len(notices) + j].pass => i = j
    BY <1>7, <1>11
  <2> QED
    BY <1>15, <2>1, <2>2, <2>3
<1>21. \A q \in ClaimedRows', r \in FailedRows' : inbox'[q].pass # inbox'[r].pass
  BY <1>6, <1>12, <1>13, <1>14 DEF Told, ClaimedRows, FailedRows
<1> QED
  BY <1>17, <1>18, <1>19, <1>20, <1>21 DEF Told

LEMMA ToldStep ==
    ASSUME DeskTypes, Told, [Next]_vars
    PROVE  Told'
<1>1. CASE Route /\ UNCHANGED notices
  <2>1. /\ PassIds' = PassIds \cup {Len(passes) + 1} /\ Len(passes) + 1 \notin PassIds
        /\ \A r \in Rows :
             /\ inbox[r].status = "pending" =>
                  inbox'[r] = [status |-> "claimed", pass |-> Len(passes) + 1]
             /\ inbox[r].status # "pending" => inbox'[r] = inbox[r]
    BY <1>1, RouteRows, EnqueuedRows
  <2> QED
    BY <1>1, <2>1, ToldKept
<1>2. ASSUME UNCHANGED inbox, PassIds \subseteq PassIds', UNCHANGED notices
      PROVE  Told'
  BY <1>2, ToldKept
<1>3. ASSUME UNCHANGED inbox, UNCHANGED passes,
             NEW n \in NoticeRow, n.kind # "failure", notices' = Append(notices, n)
      PROVE  Told'
  <2>1. PassIds' = PassIds
    BY <1>3 DEF PassIds
  <2>2. /\ DOMAIN notices = 1..Len(notices) /\ DOMAIN notices' = 1..(Len(notices) + 1)
        /\ Len(notices) \in Nat
        /\ \A m \in DOMAIN notices : notices'[m] = notices[m]
        /\ notices'[Len(notices) + 1] = n
    BY <1>3, NoticesGrow
  <2>3. \A m \in DOMAIN notices' : m \notin DOMAIN notices => m = Len(notices) + 1
    BY <2>2
  <2>4. DOMAIN notices \subseteq DOMAIN notices'
    BY <2>2
  <2> QED
    BY <1>3, <2>1, <2>2, <2>3, <2>4, ToldKept
<1>4. CASE SettleBatch
  <2> DEFINE active == {p \in DOMAIN passes' : /\ passes'[p].type = "channel"
                                               /\ passes'[p].status \in {"queued", "running"}}
  <2>1. PICK on \in (IF active = {} THEN {0} ELSE active) :
           notices' = IF settling \in Taps /\ ~paused
                      THEN Append(notices, Notice("unplaced", on, settling))
                      ELSE notices
    BY <1>4 DEF SettleBatch
  <2>2. passes' \in Seq(PassRow)
    <3>1. CASE Route
      BY <3>1, RouteRows, EnqueuedRows
    <3> QED
      BY <1>4, <3>1 DEF SettleBatch, DeskTypes
  <2>3. on \in Numbers
    <3>1. DOMAIN passes' \subseteq Nat
      BY <2>2
    <3> QED
      BY <3>1 DEF Numbers
  <2>4. /\ Notice("unplaced", on, settling) \in NoticeRow
        /\ Notice("unplaced", on, settling).kind = "unplaced"
    BY <2>3 DEF Notice, NoticeRow, DeskTypes
  <2>5. /\ DOMAIN notices \subseteq DOMAIN notices'
        /\ \A m \in DOMAIN notices : notices'[m] = notices[m]
        /\ \A m \in DOMAIN notices' : m \notin DOMAIN notices => notices'[m].kind # "failure"
    <3> HIDE DEF active
    <3>1. CASE notices' = notices
      BY <3>1
    <3>2. CASE notices' = Append(notices, Notice("unplaced", on, settling))
      <4>1. /\ DOMAIN notices = 1..Len(notices) /\ DOMAIN notices' = 1..(Len(notices) + 1)
            /\ Len(notices) \in Nat
            /\ \A m \in DOMAIN notices : notices'[m] = notices[m]
            /\ notices'[Len(notices) + 1] = Notice("unplaced", on, settling)
        BY <2>4, <3>2, NoticesGrow
      <4>2. \A m \in DOMAIN notices' : m \notin DOMAIN notices => m = Len(notices) + 1
        BY <4>1
      <4> QED
        BY <2>4, <4>1, <4>2
    <3> QED
      BY <2>1, <3>1, <3>2
  <2>6. CASE Route
    <3>1. /\ PassIds' = PassIds \cup {Len(passes) + 1} /\ Len(passes) + 1 \notin PassIds
          /\ \A r \in Rows :
               /\ inbox[r].status = "pending" =>
                    inbox'[r] = [status |-> "claimed", pass |-> Len(passes) + 1]
               /\ inbox[r].status # "pending" => inbox'[r] = inbox[r]
      BY <2>6, RouteRows, EnqueuedRows
    <3> QED
      BY <2>5, <3>1, ToldKept
  <2>7. CASE UNCHANGED <<passes, inbox>>
    <3>1. PassIds' = PassIds
      BY <2>7 DEF PassIds
    <3> QED
      BY <2>5, <2>7, <3>1, ToldKept
  <2> QED
    BY <1>4, <2>6, <2>7 DEF SettleBatch
<1>5. ASSUME NEW r \in Rows, Ingest(r)
      PROVE  Told'
  <2>1. inbox[r].status = "unsent" /\ inbox' = [inbox EXCEPT ![r].status = "pending"]
        /\ UNCHANGED <<passes, notices>>
    BY <1>5 DEF Ingest, queue
  <2>2. \A q \in Rows : q # r => inbox'[q] = inbox[q]
    BY <2>1 DEF DeskTypes
  <2>3. inbox'[r].status = "pending"
    <3>1. inbox[r] \in InboxRow /\ inbox'[r] = [inbox[r] EXCEPT !.status = "pending"]
      BY <2>1 DEF DeskTypes
    <3> QED
      BY <3>1 DEF InboxRow
  <2>4. PassIds' = PassIds
    BY <2>1 DEF PassIds
  <2>5. /\ \A q \in Rows : inbox[q].status = "failed" \/ inbox'[q].status = "failed"
                            => inbox'[q] = inbox[q]
        /\ \A q \in Rows : inbox'[q].status = "claimed" => inbox'[q] = inbox[q]
    BY <2>1, <2>2, <2>3
  <2> QED
    BY <2>1, <2>4, <2>5, ToldKept
<1>6. ASSUME NEW p \in PassIds, SendMessage(p)
      PROVE  Told'
  <2>1. Notice("word", p, 0) \in NoticeRow /\ Notice("word", p, 0).kind = "word"
    BY PassesAreRows DEF Notice, NoticeRow, Numbers
  <2> QED
    BY <1>3, <1>6, <2>1 DEF SendMessage
<1>7. CASE SellerWaiting
  <2>1. PICK r \in Unsettled : notices' = Append(notices, Notice("waiting", 0, r))
    BY <1>7 DEF SellerWaiting
  <2>2. Notice("waiting", 0, r) \in NoticeRow /\ Notice("waiting", 0, r).kind = "waiting"
    BY RowsAreNumbers DEF Unsettled, RowsAs, Notice, NoticeRow, Numbers
  <2> QED
    BY <1>3, <1>7, <2>1, <2>2 DEF SellerWaiting, queue
<1>8. CASE Deliver
  <2>1. PICK n \in Undelivered : notices' = [notices EXCEPT ![n].delivered = TRUE]
    BY <1>8 DEF Deliver
  <2>2. n \in DOMAIN notices /\ \A m \in DOMAIN notices : notices[m] \in NoticeRow
    BY NoticesAreRows DEF Undelivered
  <2>3. /\ DOMAIN notices' = DOMAIN notices
        /\ notices'[n] = [notices[n] EXCEPT !.delivered = TRUE]
        /\ \A m \in DOMAIN notices : m # n => notices'[m] = notices[m]
    BY <2>1, <2>2
  <2>4. notices'[n].kind = notices[n].kind /\ notices'[n].pass = notices[n].pass
    BY <2>2, <2>3 DEF NoticeRow
  <2>5. \A m \in DOMAIN notices : /\ notices'[m].kind = notices[m].kind
                                  /\ notices'[m].pass = notices[m].pass
    BY <2>3, <2>4
  <2>6. UNCHANGED inbox /\ PassIds' = PassIds
    BY <1>8 DEF Deliver, queue, PassIds
  <2> QED
    BY <2>3, <2>5, <2>6, ToldKept
<1>9. CASE QueueSteps
  <2>1. PassIds' = PassIds
    BY <1>9, QueueKeeps DEF QueueSteps, RowsKept
  <2> QED
    BY <1>2, <1>9, <2>1 DEF QueueSteps
<1>10. CASE Finishes
  <2>1. PassIds' = PassIds
    BY <1>10, FinishKeeps, ClassOfPass DEF Finishes, FinishPass, RowsKept
  <2> QED
    BY <1>2, <1>10, <2>1 DEF Finishes
<1>11. ASSUME NEW skip \in SUBSET Threads, ReplyLane(skip)
       PROVE  Told'
  <2>1. {<<t, heard[t]>> : t \in Claimable(skip)} \in Claims
    <3>1. \A t \in Claimable(skip) : t \in Threads /\ heard[t] \in Numbers
      BY DEF Claimable, Waiting, DeskTypes
    <3> QED
      BY <3>1 DEF Claims
  <2>2. PassIds' = PassIds \cup {Len(passes) + 1}
    BY <1>11, <2>1, EnqueuedRows DEF ReplyLane
  <2> QED
    BY <1>2, <1>11, <2>2 DEF ReplyLane, desk
<1>12. CASE RouteLane
  BY <1>1, <1>12 DEF RouteLane
<1>13. CASE UNCHANGED <<passes, inbox, notices>>
  BY <1>2, <1>13 DEF PassIds
<1> QED
  BY <1>4, <1>5, <1>6, <1>7, <1>8, <1>9, <1>10, <1>11, <1>12, <1>13, FoldTells DEF Next,
     CooldownEnds, SendReply, BuyerWrites, vars, queue, desk

\* A message is written off exactly when the seller is asked, once, to say it again, however
\* crashes and folds fall.
THEOREM WrittenOffIsTold == Spec => []FailedIsTold
<1>1. DeskInit => Told
  BY DEF DeskInit, QueueInit, Told, FailedRows, FailureTold, ClaimedRows
<1>2. DeskTypes /\ Told /\ [Next]_vars => DeskTypes' /\ Told'
  BY DeskTypesStep, ToldStep
<1>3. DeskTypes /\ Told => FailedIsTold
  <2> SUFFICES ASSUME DeskTypes, Told, NEW p \in PassIds
               PROVE  Cardinality({n \in OwnNotices(p) : notices[n].kind = "failure"})
                        = IF \E r \in Rows : inbox[r] = [status |-> "failed", pass |-> p] THEN 1 ELSE 0
    BY DEF FailedIsTold
  <2> DEFINE of == {n \in OwnNotices(p) : notices[n].kind = "failure"}
  <2>1. of = {n \in FailureTold : notices[n].pass = p}
    BY DEF OwnNotices, FailureTold
  <2>2. (\E r \in Rows : inbox[r] = [status |-> "failed", pass |-> p])
           <=> \E r \in FailedRows : inbox[r].pass = p
    BY DEF FailedRows, DeskTypes, InboxRow
  <2> HIDE DEF of
  <2>3. CASE \E r \in FailedRows : inbox[r].pass = p
    <3>1. PICK n \in FailureTold : notices[n].pass = p
      BY <2>3 DEF Told
    <3>2. of = {n}
      BY <2>1, <3>1 DEF Told
    <3>3. Cardinality(of) = 1
      BY <3>2, FS_Singleton
    <3> QED
      BY <2>2, <2>3, <3>3 DEF of
  <2>4. CASE ~ \E r \in FailedRows : inbox[r].pass = p
    <3>1. of = {}
      BY <2>1, <2>4 DEF Told
    <3>2. Cardinality(of) = 0
      BY <3>1, FS_EmptySet
    <3> QED
      BY <2>2, <2>4, <3>2 DEF of
  <2> QED
    BY <2>3, <2>4
<1> QED
  BY <1>1, <1>2, <1>3, DeskTypesInit, PTL DEF Spec
=============================================================================
