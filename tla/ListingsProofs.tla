--------------------------- MODULE ListingsProofs ---------------------------
(***************************************************************************)
(* Proofs about Listings, for any fields, any number of listings, edits    *)
(* and troubles, and every number of attempts: one invariant carries the   *)
(* three lanes, and every step of each keeps it.                           *)
(***************************************************************************)
EXTENDS Listings, SequenceTheorems, FiniteSetTheorems, WellFoundedInduction, TLAPS

-----------------------------------------------------------------------------
(* What holds of the thing, its rows, its edits and its survey.            *)

Versions == [Fields -> Nat]
Item == [known : BOOLEAN, rail : BOOLEAN, sold : BOOLEAN, rec : Versions, url : Nat]
PostRow == [up : {"up", "review", "down"}, shows : Versions, hand : BOOLEAN]
PublishRow == [status : {"queued", "running", "done", "error"}, unverified : BOOLEAN,
               retired : BOOLEAN, review : BOOLEAN,
               reported : {"owed", "said", "silent", "closed"}]
RevisionRow == [changed : SUBSET Fields, tries : Nat, reported : BOOLEAN,
                status : {"pending", "running", "done", "failed", "superseded"}]

\* Every row, and what the lanes keep in process.
ThingShape ==
    /\ kind \in {"driven", "craigslist", "recipe"}
    /\ item \in Item /\ posts \in Seq(PostRow) /\ item.url <= Len(posts) /\ want \in Versions

CrossShape ==
    /\ rows \in Seq(PublishRow) /\ check \in {"no", "flagged", "expired"}
    /\ drive \in [at : {"idle", "filling", "ledgered", "clicked"}, shows : Versions, post : Nat]
    /\ drive.post <= Len(posts)

Edit == [at : {"idle", "claimed", "filling", "saved", "passed", "attached", "left"},
         changed : SUBSET Fields, shows : Versions, post : Nat,
         pass : {"none", "alive", "looked", "ended"}]
EditShape ==
    revs \in Seq(RevisionRow) /\ call \subseteq Fields /\ failed \subseteq Fields /\ edit \in Edit

Answers == {"none", "pending", "accepted", "declined", "expired", "adopted", "failed"}
Owings == {"none", "owed", "queued", "done", "failed"}
Disc == [st : Answers, tries : Nat, relist : BOOLEAN, railTries : Nat, rail : Owings]
SurveyShape ==
    /\ survey \in [state : {"none", "due", "done", "abandoned"}, tries : Nat] /\ disc \in Disc
    /\ adopt \in [at : {"idle", "reading", "queueing"}, pass : {"none", "running", "ended"}]

ShopShape == ThingShape /\ CrossShape /\ EditShape /\ SurveyShape

\* A thing nothing is known of is on no marketplace but where the seller put it up by hand, and
\* nothing was done for it; the adoption reads the page of no other.
Unknown ==
    /\ ~item.known => /\ ~Listed /\ rows = <<>> /\ drive.at = "idle" /\ check = "no"
                      /\ \A p \in Posts : posts[p].hand
    /\ adopt.at = "reading" => ~item.known

\* The seller's own listing is the first, is never taken down, and not on Craigslist.
ByHand ==
    \A p \in Posts : posts[p].hand => p = Hand /\ posts[p].up = "up" /\ kind # "craigslist"

\* A pass publishes a recipe and nothing else, one at a time, while the thing is not listed, or
\* is by what the pass has just put up.
ByPass ==
    /\ \A n \in Rows : UnsettledPosts(rows[n]) => kind = "recipe"
    /\ \A m, n \in Rows : UnsettledPosts(rows[m]) /\ UnsettledPosts(rows[n]) => m = n
    /\ \A n \in Rows : rows[n].status = "queued" => ~Listed
    /\ \A n \in Rows : rows[n].status = "running" /\ Listed => item.url = Len(posts)
    /\ \A n \in Rows : rows[n].review => kind # "recipe"

\* A drive runs for a thing that is not listed; its row is written before its click.
ByDrive ==
    /\ drive.at # "idle" => kind # "recipe" /\ ~Listed /\ check = "no"
    /\ drive.at \in {"ledgered", "clicked"} => rows # <<>> /\ rows[Len(rows)].unverified

\* Where the form is driven: one listing is in sight or in review, it is the one the item names
\* if it names any, and none is while a drive has not clicked; one the lane put up is named, or
\* its row is unverified; the seller's own is named or was found, once the look is done.
OneLive ==
    kind # "recipe" =>
      /\ \A p, q \in Posts : Live(p) /\ Live(q) => p = q
      /\ \A p \in Posts : Live(p) /\ Listed => p = item.url
      /\ drive.at \in {"filling", "ledgered"} => \A p \in Posts : ~Live(p)
      /\ \A p \in Posts : Live(p) /\ ~posts[p].hand
                          => Listed \/ \E n \in Rows : rows[n].unverified
      /\ disc.st # "none" => posts # <<>> /\ posts[Hand].hand

Found ==
    /\ disc.st # "none" => posts # <<>>
    /\ \A p \in Posts : posts[p].hand /\ survey.state = "done"
                        => Listed \/ disc.st # "none" \/ item.sold

\* What is wanted of a listing is what the item says.
Wants ==
    /\ ~Listed => \A f \in Fields : want[f] = 0
    /\ \A f \in Fields : want[f] # 0 => want[f] = item.rec[f]

\* One edit runs, and its row is the one the lane, or the pass it was handed to, works from.
OneEdit ==
    /\ edit.at = "idle" <=> InStatus("running") = {}
    /\ \A m, n \in InStatus("running") : m = n
    /\ \A n \in Owing : ~revs[n].reported
    /\ edit.at \in {"filling", "saved", "passed", "attached"} =>
         \A n \in InStatus("running") : revs[n].changed = edit.changed
    /\ edit.at \in {"passed", "attached"} => kind = "recipe" /\ Listed /\ edit.post = item.url

\* Whoever drives the edit has looked at what to show.
HasLooked == \/ edit.at \in {"filling", "saved"}
             \/ edit.at \in {"passed", "attached"} /\ edit.pass = "looked"

\* An edit that was overtaken, by a newer one or by another listing, leaves nothing behind that
\* is not asked for again.
Overtaken ==
    \A f \in edit.changed :
        HasLooked /\ Listed /\ want[f] # 0 /\ (edit.post # item.url \/ edit.shows[f] # want[f])
        => \/ f \in call \cup failed
           \/ \E n \in InStatus("pending") : f \in revs[n].changed

LaneInv == Unknown /\ ByHand /\ ByPass /\ ByDrive /\ OneLive /\ Found
EditInv == Wants /\ OneEdit /\ Overtaken /\ EditIsOwed
ShopInv == ShopShape /\ LaneInv /\ EditInv

\* A row put at the end, or in the place of another.
LEMMA AppendRow ==
    ASSUME NEW S, NEW s \in Seq(S), NEW r \in S
    PROVE  /\ Append(s, r) \in Seq(S) /\ Len(Append(s, r)) = Len(s) + 1 /\ Len(s) \in Nat
           /\ \A k \in 1..Len(s) : Append(s, r)[k] = s[k]
           /\ Append(s, r)[Len(s) + 1] = r
           /\ Append(s, r) # <<>>
  OBVIOUS

LEMMA ReplaceRow ==
    ASSUME NEW S, NEW s \in Seq(S), NEW n \in 1..Len(s), NEW r \in S, NEW t,
           t = [s EXCEPT ![n] = r]
    PROVE  /\ t \in Seq(S) /\ Len(t) = Len(s) /\ t[n] = r
           /\ \A k \in 1..Len(s) : k # n => t[k] = s[k]
<1>1. t \in [1..Len(s) -> S]
  OBVIOUS
<1> QED
  BY <1>1

\* The edits stand as they are while another lane works: it leaves what listings show, and what
\* the item says as long as it is listed.
LEMMA EditsKept ==
    ASSUME ShopShape, EditInv, UNCHANGED <<kind, reviseVars>>,
           posts' \in Seq(PostRow), Len(posts) <= Len(posts'),
           \A p \in Posts : posts'[p].shows = posts[p].shows,
           \/ want' = want /\ item'.url = item.url /\ item'.rec = item.rec
           \/ ~Listed /\ want' = want
           \/ kind # "recipe" /\ want' = [f \in Fields |-> 0] /\ item'.url = NoUrl
    PROVE  EditInv'
<1>1. Wants'
  BY DEF EditInv, Wants, Listed, NoUrl, ShopShape, ThingShape, Versions
<1>2. OneEdit'
  BY DEF EditInv, OneEdit, Wants, Listed, NoUrl, reviseVars, InStatus, Revs, Owing
<1>3. Overtaken'
  BY DEF EditInv, Overtaken, Wants, Listed, NoUrl, reviseVars, InStatus, Revs, HasLooked, ShopShape,
         EditShape, Edit
<1>4. EditIsOwed'
  <2> SUFFICES ASSUME NEW f \in Fields, Listed', want'[f] # 0,
                      posts'[item'.url].shows[f] # want'[f]
               PROVE  \/ f \in call \cup failed \cup Owed
                      \/ \E n \in InStatus("failed") \cap Unreported : f \in revs[n].changed
    BY DEF EditIsOwed, reviseVars, InStatus, Revs, Owed, Owing, Unreported
  <2>1. want' = want /\ item'.url = item.url /\ Listed
    BY DEF EditInv, Wants, Listed, NoUrl
  <2>2. item.url \in Posts
    BY <2>1 DEF ShopShape, ThingShape, Listed, NoUrl, Posts, Item
  <2> QED
    BY <2>1, <2>2 DEF EditInv, EditIsOwed
<1> QED
  BY <1>1, <1>2, <1>3, <1>4 DEF EditInv

\* The other lanes stand as they are while an edit is made: it changes what the item says and
\* what its listing shows.
LEMMA LanesKept ==
    ASSUME ShopShape, LaneInv, UNCHANGED <<kind, crossVars, surveyVars>>,
           Len(posts') = Len(posts),
           \A p \in Posts : posts'[p].up = posts[p].up /\ posts'[p].hand = posts[p].hand,
           posts = <<>> <=> posts' = <<>>,
           item'.url = item.url, item'.known = item.known, item'.sold = item.sold
    PROVE  LaneInv'
<1>0. /\ Posts' = Posts /\ Listed' = Listed /\ Rows' = Rows
      /\ UNCHANGED <<kind, rows, drive, gone, check, survey, disc, adopt>>
  BY DEF Posts, Listed, Rows, crossVars, surveyVars
<1>1. ASSUME NEW p \in Posts
      PROVE  /\ posts'[p].up = posts[p].up /\ posts'[p].hand = posts[p].hand
             /\ Live(p)' <=> Live(p)
  BY DEF Live
<1>2. Unknown'
  BY <1>0, <1>1, Zenon DEF LaneInv, Unknown
<1>3. ByHand'
  BY <1>0, <1>1, Zenon DEF LaneInv, ByHand
<1>4. ByPass'
  BY <1>0 DEF LaneInv, ByPass, UnsettledPosts
<1>5. ByDrive'
  BY <1>0 DEF LaneInv, ByDrive
<1>6. Found'
  BY <1>0, <1>1 DEF LaneInv, Found
<1>7. OneLive'
  <2>1. posts # <<>> => Hand \in Posts
    BY EmptySeq DEF ShopShape, ThingShape, Posts, Hand
  <2> QED
    BY <1>0, <1>1, <2>1 DEF LaneInv, OneLive
<1> QED
  BY <1>2, <1>3, <1>4, <1>5, <1>6, <1>7 DEF LaneInv

-----------------------------------------------------------------------------
(* An edit, from the tool to the report.                                   *)

LEMMA ReviseKeeps ==
    ASSUME ShopShape, LaneInv, EditInv, NEW changed \in SUBSET Fields, Revise(changed)
    PROVE  ThingShape' /\ EditShape' /\ EditInv' /\ item'.url = item.url
           /\ item'.known = item.known /\ item'.sold = item.sold
<1> DEFINE rec == [f \in Fields |-> item.rec[f] + (IF f \in changed THEN 1 ELSE 0)]
<1>0. item \in Item /\ item.rec \in Versions /\ rec \in Versions
  BY DEF ShopShape, ThingShape, Item, Versions
<1>1. item' = [item EXCEPT !.rec = rec]
  BY DEF Revise
<1> HIDE DEF rec
<1>2. /\ item' \in Item /\ item'.url = item.url /\ item'.known = item.known
      /\ item'.sold = item.sold /\ item'.rec = rec
  BY <1>0, <1>1 DEF Item
<1>3. /\ UNCHANGED <<kind, posts, revs, edit>>
      /\ Listed' = Listed /\ (Listed => call' = changed)
      /\ \A f \in Fields : want'[f] = IF Listed /\ f \in changed THEN item.rec[f] + 1 ELSE want[f]
      /\ \A f \in Fields : rec[f] = IF f \in changed THEN item.rec[f] + 1 ELSE item.rec[f]
      /\ want' \in Versions /\ call' \subseteq Fields /\ failed' = failed \ changed
  BY <1>0, <1>2 DEF Revise, ShopShape, ThingShape, EditShape, Listed, Versions, rec
<1>4. ThingShape' /\ EditShape'
  BY <1>2, <1>3 DEF ShopShape, ThingShape, EditShape
<1>5. Wants'
  BY <1>2, <1>3 DEF EditInv, Wants
<1>6. OneEdit'
  BY <1>2, <1>3 DEF EditInv, OneEdit, InStatus, Revs, Owing
<1>7. Overtaken'
  <2>1. HasLooked' = HasLooked /\ InStatus("pending")' = InStatus("pending")
        /\ edit.changed \subseteq Fields /\ call = {}
    BY <1>3 DEF HasLooked, InStatus, Revs, ShopShape, EditShape, Edit, Revise
  <2> QED
    BY <1>2, <1>3, <2>1 DEF EditInv, Overtaken
<1>8. EditIsOwed'
  <2>1. Owed' = Owed /\ (InStatus("failed") \cap Unreported)' = InStatus("failed") \cap Unreported
        /\ call = {}
    BY <1>3 DEF Owed, Owing, InStatus, Unreported, Revs, Revise
  <2> QED
    BY <1>2, <1>3, <2>1 DEF EditInv, EditIsOwed
<1> QED
  BY <1>2, <1>4, <1>5, <1>6, <1>7, <1>8 DEF EditInv

\* The rows once a new one supersedes what was pending.
LEMMA QueueKeeps ==
    ASSUME ShopShape, LaneInv, EditInv, QueueRevision
    PROVE  EditShape' /\ EditInv'
<1> DEFINE row == Pending(call \cup Owed)
<1> DEFINE old == Superseded
<1>0. revs \in Seq(RevisionRow) /\ Revs = 1..Len(revs) /\ Len(revs) \in Nat
      /\ \A n \in Revs : revs[n] \in RevisionRow
  BY DEF ShopShape, EditShape, Revs
<1>1. Owed \subseteq Fields /\ row \in RevisionRow
  <2>1. Owed \subseteq Fields
    BY <1>0 DEF Owed, Owing, RevisionRow
  <2> QED
    BY <2>1 DEF Pending, RevisionRow, ShopShape, EditShape
<1>2. /\ old \in Seq(RevisionRow) /\ Len(old) = Len(revs)
      /\ \A n \in Revs : /\ old[n].changed = revs[n].changed
                         /\ old[n].reported = revs[n].reported
                         /\ old[n].status = IF revs[n].status = "pending" THEN "superseded"
                                            ELSE revs[n].status
  <2>1. \A n \in Revs : /\ old[n] \in RevisionRow
                        /\ old[n].changed = revs[n].changed
                        /\ old[n].reported = revs[n].reported
                        /\ old[n].status = IF revs[n].status = "pending" THEN "superseded"
                                           ELSE revs[n].status
    BY <1>0 DEF Superseded, RevisionRow
  <2>2. old \in [1..Len(revs) -> RevisionRow]
    BY <1>0, <2>1 DEF Superseded
  <2> QED
    BY <1>0, <2>1, <2>2
<1>3. revs' = Append(old, row) /\ call' = {} /\ UNCHANGED <<thing, edit, failed>>
  BY DEF QueueRevision
<1>4. row.changed = call \cup Owed /\ row.status = "pending" /\ ~row.reported
  BY DEF Pending
<1> HIDE DEF row, old
<1>5. /\ revs' \in Seq(RevisionRow) /\ Revs' = 1..(Len(revs) + 1)
      /\ revs'[Len(revs) + 1] = row /\ \A n \in Revs : revs'[n] = old[n]
  BY <1>0, <1>1, <1>2, <1>3, AppendRow DEF Revs
<1>6. /\ InStatus("running")' = InStatus("running")
      /\ \A n \in InStatus("running") : revs'[n].changed = revs[n].changed
      /\ InStatus("failed")' = InStatus("failed")
      /\ InStatus("failed")' \cap Unreported' = InStatus("failed") \cap Unreported
      /\ \A n \in InStatus("failed") : revs'[n].changed = revs[n].changed
      /\ Len(revs) + 1 \in InStatus("pending")'
      /\ Owed' = call \cup Owed
  <2>1. \A n \in Revs' : n \in Revs \/ n = Len(revs) + 1
    BY <1>0, <1>5
  <2>0. Len(revs) + 1 \in Revs' /\ Len(revs) + 1 \notin Revs
    BY <1>0, <1>5
  <2>2. /\ InStatus("running")' = InStatus("running")
        /\ InStatus("failed")' = InStatus("failed")
        /\ Len(revs) + 1 \in InStatus("pending")'
    <3>1. \A n \in Revs' : revs'[n].status = IF n = Len(revs) + 1 THEN "pending"
                          ELSE IF revs[n].status = "pending" THEN "superseded" ELSE revs[n].status
      BY <1>2, <1>4, <1>5, <2>0, <2>1
    <3>2. Revs \subseteq Revs'
      BY <1>0, <1>5
    <3> QED
      BY <2>0, <2>1, <3>1, <3>2 DEF InStatus
  <2>7. /\ \A n \in InStatus("running") : revs'[n].changed = revs[n].changed
        /\ \A n \in InStatus("failed") : revs'[n].changed = revs[n].changed
    BY <1>2, <1>5 DEF InStatus
  <2>3. InStatus("failed")' \cap Unreported' = InStatus("failed") \cap Unreported
    BY <1>0, <1>2, <1>4, <1>5, <2>1 DEF InStatus, Unreported
  <2>4. Len(revs) + 1 \in Owing'
    BY <1>0, <1>4, <1>5 DEF Owing
  <2>5. \A n \in Owing' : revs'[n].changed \subseteq call \cup Owed
    <3> TAKE n \in Owing'
    <3>1. CASE n = Len(revs) + 1
      BY <1>4, <1>5, <3>1
    <3>2. CASE n \in Revs
      BY <1>2, <1>5, <3>2 DEF Owing, Owed
    <3> QED
      BY <2>1, <3>1, <3>2 DEF Owing
  <2>6. Owed' = call \cup Owed
    BY <1>4, <1>5, <2>4, <2>5 DEF Owed
  <2> QED
    BY <2>2, <2>3, <2>6, <2>7
<1>7. EditShape'
  BY <1>3, <1>5 DEF ShopShape, EditShape
<1>8. Wants' /\ OneEdit'
  <2>1. Listed' = Listed /\ UNCHANGED <<kind, item, posts, want, edit>>
    BY <1>3 DEF thing, Listed
  <2>2. Wants'
    BY <2>1 DEF EditInv, Wants
  <2>3. \A n \in Owing' : ~revs'[n].reported
    <3> SUFFICES ASSUME NEW n \in Owing' PROVE ~revs'[n].reported
      OBVIOUS
    <3>1. CASE n = Len(revs) + 1
      BY <1>4, <1>5, <3>1
    <3>2. CASE n \in Revs
      <4>1. n \in Owing
        BY <1>2, <1>5, <3>2 DEF Owing
      <4> QED
        BY <4>1, <1>2, <1>5, <3>2 DEF EditInv, OneEdit
    <3> QED
      BY <1>0, <1>5, <3>1, <3>2 DEF Owing
  <2> QED
    BY <2>1, <2>2, <2>3, <1>6 DEF EditInv, OneEdit
<1>9. Overtaken'
  <2>1. Listed' = Listed /\ HasLooked' = HasLooked /\ UNCHANGED <<item, want, edit, failed>>
    BY <1>3 DEF thing, Listed, HasLooked
  <2>2. ASSUME NEW n \in InStatus("pending") PROVE revs[n].changed \subseteq Owed
    BY DEF Owed, Owing, InStatus
  <2> QED
    BY <1>4, <1>5, <1>6, <2>1, <2>2 DEF EditInv, Overtaken
<1>10. EditIsOwed'
  <2>1. Listed' = Listed /\ UNCHANGED <<item, posts, want, failed>>
    BY <1>3 DEF thing, Listed
  <2> QED
    BY <1>3, <1>6, <2>1 DEF EditInv, EditIsOwed
<1> QED
  BY <1>7, <1>8, <1>9, <1>10 DEF EditInv

LEMMA RunningIs ==
    ASSUME ShopShape, EditInv, edit.at # "idle"
    PROVE  /\ Running \in Revs /\ revs[Running].status = "running"
           /\ InStatus("running") = {Running}
<1>1. \E n \in Revs : revs[n].status = "running"
  BY DEF EditInv, OneEdit, InStatus
<1>2. Running \in Revs /\ revs[Running].status = "running"
  BY <1>1 DEF Running
<1> QED
  BY <1>2 DEF EditInv, OneEdit, InStatus

\* One row comes to another status.
LEMMA RowMoves ==
    ASSUME EditShape, NEW n \in Revs, NEW r \in RevisionRow, r.changed = revs[n].changed,
           revs' = [revs EXCEPT ![n] = r]
    PROVE  /\ revs' \in Seq(RevisionRow) /\ Revs' = Revs
           /\ \A m \in Revs : revs'[m].changed = revs[m].changed
           /\ \A m \in Revs : m # n => revs'[m] = revs[m]
           /\ revs'[n] = r
<1> QED
  BY ReplaceRow DEF EditShape, Revs

\* The lane is done with the edit it ran, in whatever way: it is owed again, or failed and the
\* seller will hear, or it is made, or what is not shown of it is asked for again.
LEMMA FinishKeeps ==
    ASSUME ShopShape, EditInv, edit.at # "idle", NEW st \in {"pending", "failed", "done"},
           Finish(st), edit'.at = "idle", edit' \in Edit, UNCHANGED <<thing, call, failed>>,
           st = "done" =>
             \A f \in revs[Running].changed :
               Listed /\ want[f] # 0 /\ posts[item.url].shows[f] # want[f]
               => \/ f \in call \cup failed
                  \/ \E n \in InStatus("pending") : f \in revs[n].changed
    PROVE  EditShape' /\ EditInv'
<1> DEFINE n == Running
<1> DEFINE r == [revs[n] EXCEPT !.status = st]
<1>0. n \in Revs /\ revs[n].status = "running" /\ InStatus("running") = {n}
  BY RunningIs
<1>1. revs[n] \in RevisionRow /\ revs \in Seq(RevisionRow) /\ Revs = 1..Len(revs)
  BY <1>0 DEF ShopShape, EditShape, Revs
<1>2. r \in RevisionRow /\ r.changed = revs[n].changed /\ r.status = st
      /\ r.reported = revs[n].reported
  BY <1>1 DEF RevisionRow
<1>3. revs' = [revs EXCEPT ![n] = r]
  BY <1>0, <1>1 DEF Finish
<1> HIDE DEF r, n
<1>4. /\ revs' \in Seq(RevisionRow) /\ Revs' = Revs /\ revs'[n] = r
      /\ \A m \in Revs : revs'[m].changed = revs[m].changed
      /\ \A m \in Revs : m # n => revs'[m] = revs[m]
  BY <1>0, <1>2, <1>3, RowMoves DEF ShopShape
<1>5. \A m \in Revs : /\ m = n => revs'[m].status = st /\ revs'[m].reported = revs[m].reported
                      /\ m # n => revs'[m] = revs[m]
  BY <1>2, <1>4
<1>10. InStatus("running")' = {}
  BY <1>0, <1>4, <1>5 DEF InStatus
<1>11. InStatus("pending") \subseteq InStatus("pending")'
  BY <1>0, <1>4, <1>5 DEF InStatus
<1>12. InStatus("failed") \cap Unreported \subseteq InStatus("failed")' \cap Unreported'
  BY <1>0, <1>4, <1>5 DEF InStatus, Unreported
<1>13. ~revs[n].reported
  BY <1>0 DEF EditInv, OneEdit, Owing, InStatus
<1>14. /\ st = "pending" => n \in InStatus("pending")'
       /\ st = "failed" => n \in InStatus("failed")' \cap Unreported'
  BY <1>0, <1>4, <1>5, <1>13 DEF InStatus, Unreported
<1>15. \A m \in Owing' : m \in Owing /\ ~revs'[m].reported
  BY <1>0, <1>4, <1>5, <1>13 DEF Owing, EditInv, OneEdit
<1>6. EditShape'
  BY <1>4 DEF ShopShape, EditShape
<1>7. /\ Listed' = Listed /\ UNCHANGED <<kind, item, posts, want, call, failed>>
  BY DEF thing, Listed
<1>8. Wants' /\ OneEdit'
  <2>1. Wants'
    BY <1>7 DEF EditInv, Wants
  <2> QED
    BY <1>10, <1>15, <2>1 DEF OneEdit
<1>9. Overtaken'
  BY DEF Overtaken, HasLooked
<1>16. EditIsOwed'
  <2> SUFFICES ASSUME NEW f \in Fields, Listed, want[f] # 0, posts[item.url].shows[f] # want[f],
                      f \notin call \cup failed
               PROVE  \/ f \in Owed'
                      \/ \E m \in InStatus("failed")' \cap Unreported' : f \in revs'[m].changed
    BY <1>7, Zenon DEF EditIsOwed
  <2>1. ASSUME NEW m \in InStatus("pending"), f \in revs[m].changed PROVE f \in Owed'
    <3>1. m \in InStatus("pending")' /\ m \in Revs
      BY <1>11 DEF InStatus
    <3>2. m \in Owing' /\ f \in revs'[m].changed
      BY <1>4, <2>1, <3>1 DEF InStatus, Owing
    <3> QED
      BY <3>2 DEF Owed
  <2>2. ASSUME f \in revs[n].changed
        PROVE  \/ f \in Owed'
               \/ \E m \in InStatus("failed")' \cap Unreported' : f \in revs'[m].changed
    <3>1. f \in revs'[n].changed
      BY <1>0, <1>4, <2>2
    <3>2. CASE st = "pending"
      BY <1>14, <3>1, <3>2 DEF Owed, Owing, InStatus
    <3>3. CASE st = "failed"
      BY <1>14, <3>1, <3>3
    <3>4. CASE st = "done"
      BY <2>1, <2>2, <3>4 DEF n
    <3> QED
      BY <3>2, <3>3, <3>4
  <2>3. ASSUME NEW m \in InStatus("failed") \cap Unreported, f \in revs[m].changed
        PROVE  \E k \in InStatus("failed")' \cap Unreported' : f \in revs'[k].changed
    BY <1>4, <1>12, <2>3 DEF InStatus
  <2>4. ASSUME NEW m \in Owing, f \in revs[m].changed
        PROVE  m \in InStatus("pending") \/ m = n
    BY <1>0 DEF Owing, InStatus
  <2>5. \/ \E m \in Owing : f \in revs[m].changed
        \/ \E m \in InStatus("failed") \cap Unreported : f \in revs[m].changed
    BY DEF EditInv, EditIsOwed, Owed
  <2> QED
    BY <2>1, <2>2, <2>3, <2>4, <2>5
<1> QED
  BY <1>6, <1>8, <1>9, <1>16 DEF EditInv

\* Where the rows and the thing stand as they are, only what the lane knows is to be looked at.
LEMMA RowsStay ==
    ASSUME ShopShape, EditInv, UNCHANGED <<thing, revs>>, call' \subseteq Fields,
           failed' \subseteq Fields, edit' \in Edit, call \cup failed \subseteq call' \cup failed',
           edit'.at = "idle" <=> edit.at = "idle",
           edit'.at \in {"filling", "saved", "passed", "attached"} =>
             edit'.changed = revs[Running].changed,
           edit'.at \in {"passed", "attached"} => kind = "recipe" /\ Listed /\ edit'.post = item.url,
           Overtaken'
    PROVE  EditShape' /\ EditInv'
<1>1. /\ UNCHANGED <<kind, item, posts, want, revs>> /\ Listed' = Listed
  BY DEF thing, Listed
<1>2. /\ InStatus("running")' = InStatus("running") /\ Owing' = Owing /\ Owed' = Owed
      /\ (InStatus("failed") \cap Unreported)' = InStatus("failed") \cap Unreported
  BY <1>1 DEF InStatus, Owing, Owed, Unreported, Revs
<1>3. EditShape'
  BY <1>1 DEF ShopShape, EditShape
<1>4. Wants'
  BY <1>1 DEF EditInv, Wants
<1>5. OneEdit'
  <2>1. edit'.at # "idle" => InStatus("running") = {Running}
    BY RunningIs
  <2> QED
    BY <1>1, <1>2, <2>1 DEF EditInv, OneEdit
<1>6. EditIsOwed'
  BY <1>1, <1>2 DEF EditInv, EditIsOwed
<1> QED
  BY <1>3, <1>4, <1>5, <1>6 DEF EditInv

LEMMA CallLostKeeps ==
    ASSUME ShopShape, EditInv, CallLost PROVE EditShape' /\ EditInv'
<1>1. /\ UNCHANGED <<thing, revs, edit>> /\ call' = {} /\ failed' = failed \cup call
  BY DEF CallLost
<1>2. Overtaken'
  BY <1>1 DEF EditInv, Overtaken, HasLooked, thing, Listed, InStatus, Revs
<1>3. edit.at # "idle" => Running \in InStatus("running")
  BY RunningIs
<1> QED
  BY <1>1, <1>2, <1>3, RowsStay DEF ShopShape, EditShape, EditInv, OneEdit

LEMMA StartKeeps ==
    ASSUME ShopShape, EditInv, StartEdit PROVE EditShape' /\ EditInv'
<1> DEFINE pass == kind = "recipe"
<1>1. /\ UNCHANGED <<thing, revs, call, failed>> /\ edit.at = "claimed" /\ Listed
      /\ edit' = [at |-> IF kind = "recipe" THEN "passed" ELSE "filling",
                 changed |-> revs[Running].changed, post |-> item.url,
                 shows |-> IF kind = "recipe" THEN NoEdit.shows ELSE item.rec,
                 pass |-> IF kind = "recipe" THEN "alive" ELSE "none"]
  BY DEF StartEdit
<1>2. revs[Running].changed \in SUBSET Fields
  <2>1. Running \in Revs
    BY <1>1, RunningIs
  <2>2. revs[Running] \in RevisionRow
    BY <2>1 DEF ShopShape, EditShape, Revs
  <2> QED
    BY <2>2 DEF RevisionRow
<1>3. /\ edit'.changed = revs[Running].changed /\ edit'.post = item.url
      /\ edit'.at = IF pass THEN "passed" ELSE "filling"
      /\ edit'.pass = IF pass THEN "alive" ELSE "none"
      /\ edit'.shows = IF pass THEN [f \in Fields |-> 0] ELSE item.rec
      /\ edit' = [at |-> edit'.at, changed |-> edit'.changed, shows |-> edit'.shows,
                  post |-> edit'.post, pass |-> edit'.pass]
  BY <1>1 DEF NoEdit
<1>4. edit' \in Edit
  <2>1. item.url \in Nat /\ item.rec \in Versions /\ [f \in Fields |-> 0] \in Versions
    BY DEF ShopShape, ThingShape, Item, Versions
  <2>2. edit'.shows \in Versions
    BY <1>3, <2>1
  <2>3. edit'.at \in {"idle", "claimed", "filling", "saved", "passed", "attached", "left"}
        /\ edit'.pass \in {"none", "alive", "looked", "ended"}
    BY <1>3
  <2> QED
    BY <1>2, <1>3, <2>1, <2>2, <2>3, Zenon DEF Edit
<1>5. Overtaken'
  <2>1. Listed' = Listed /\ UNCHANGED <<item, want>>
    BY <1>1 DEF thing, Listed
  <2>2. HasLooked' => ~pass
    BY <1>3 DEF HasLooked
  <2>3. \A f \in Fields : want[f] # 0 => want[f] = item.rec[f]
    BY DEF EditInv, Wants
  <2> QED
    BY <1>2, <1>3, <2>1, <2>2, <2>3 DEF Overtaken
<1> QED
  BY <1>1, <1>3, <1>4, <1>5, RowsStay DEF ShopShape, EditShape

LEMMA AttachKeeps ==
    ASSUME ShopShape, EditInv, AttachPass PROVE EditShape' /\ EditInv'
<1>1. /\ UNCHANGED <<thing, revs, call, failed>> /\ edit.at = "passed"
      /\ edit' = [edit EXCEPT !.at = "attached"]
  BY DEF AttachPass
<1>2. /\ edit' \in Edit /\ edit'.at = "attached" /\ edit'.changed = edit.changed
      /\ edit'.post = edit.post /\ edit'.shows = edit.shows /\ edit'.pass = edit.pass
  BY <1>1 DEF ShopShape, EditShape, Edit
<1>3. Overtaken'
  <2>1. /\ Listed' = Listed /\ UNCHANGED <<item, want>> /\ HasLooked' = HasLooked
        /\ InStatus("pending")' = InStatus("pending")
    BY <1>1, <1>2 DEF thing, Listed, HasLooked, InStatus, Revs
  <2> QED
    BY <1>1, <1>2, <2>1 DEF EditInv, Overtaken
<1>4. edit.changed = revs[Running].changed
  BY <1>1, RunningIs DEF EditInv, OneEdit
<1> QED
  BY <1>1, <1>2, <1>3, <1>4, RowsStay DEF ShopShape, EditShape, EditInv, OneEdit

LEMMA PassEndKeeps ==
    ASSUME ShopShape, EditInv, EditPassEnds PROVE EditShape' /\ EditInv'
<1>1. /\ UNCHANGED <<thing, revs, call, failed>>
      /\ edit' = [edit EXCEPT !.pass = "ended"]
  BY DEF EditPassEnds
<1>2. /\ edit' \in Edit /\ edit'.at = edit.at /\ edit'.changed = edit.changed
      /\ edit'.post = edit.post /\ edit'.shows = edit.shows /\ edit'.pass = "ended"
  BY <1>1 DEF ShopShape, EditShape, Edit
<1>3. Overtaken'
  <2>1. /\ Listed' = Listed /\ UNCHANGED <<item, want>> /\ (HasLooked' => HasLooked)
        /\ InStatus("pending")' = InStatus("pending")
    BY <1>1, <1>2 DEF thing, Listed, HasLooked, InStatus, Revs
  <2> QED
    BY <1>1, <1>2, <2>1 DEF EditInv, Overtaken
<1>4. edit.at # "idle" => Running \in InStatus("running")
  BY RunningIs
<1> QED
  BY <1>1, <1>2, <1>3, <1>4, RowsStay DEF ShopShape, EditShape, EditInv, OneEdit

LEMMA TriedAgain ==
    ASSUME NEW r \in RevisionRow
    PROVE  /\ Taken(r) \in RevisionRow /\ Taken(r).changed = r.changed
           /\ Taken(r).status = "running" /\ Taken(r).reported = r.reported
<1> DEFINE p == [r EXCEPT !.status = "running"]
           q == [p EXCEPT !.tries = r.tries + 1]
<1>1. p \in RevisionRow /\ p.changed = r.changed /\ p.status = "running"
      /\ p.reported = r.reported
  BY DEF RevisionRow
<1>2. r.tries + 1 \in Nat
  BY DEF RevisionRow
<1>3. Taken(r) = q
  BY Zenon DEF Taken
<1> HIDE DEF p
<1>4. q \in RevisionRow /\ q.changed = p.changed /\ q.status = p.status /\ q.reported = p.reported
  BY <1>1, <1>2 DEF RevisionRow
<1> QED
  BY <1>1, <1>3, <1>4, Zenon

LEMMA ClaimKeeps ==
    ASSUME ShopShape, EditInv, NEW busy, Claim(busy) PROVE EditShape' /\ EditInv'
<1>1. PICK n \in InStatus("pending") :
        revs' = [revs EXCEPT ![n] = Taken(@)]
  BY DEF Claim
<1> DEFINE r == Taken(revs[n])
<1>2. /\ n \in Revs /\ revs[n] \in RevisionRow /\ revs[n].status = "pending"
      /\ revs \in Seq(RevisionRow) /\ Revs = 1..Len(revs)
  BY DEF InStatus, Revs, ShopShape, EditShape
<1>3. revs' = [revs EXCEPT ![n] = r]
  BY <1>1, Zenon
<1>4. r \in RevisionRow /\ r.changed = revs[n].changed /\ r.status = "running"
      /\ r.reported = revs[n].reported
  BY <1>2, TriedAgain, Zenon
<1> HIDE DEF r
<1>5. /\ revs' \in Seq(RevisionRow) /\ Revs' = Revs /\ revs'[n] = r
      /\ \A m \in Revs : revs'[m].changed = revs[m].changed
      /\ \A m \in Revs : m # n => revs'[m] = revs[m]
  BY <1>2, <1>3, <1>4, RowMoves DEF ShopShape
<1>6. /\ UNCHANGED <<kind, item, posts, want, call, failed>> /\ Listed' = Listed
      /\ InStatus("running") = {} /\ edit' = [NoEdit EXCEPT !.at = "claimed"]
  BY DEF Claim, thing, Listed
<1>7. edit' \in Edit /\ edit'.at = "claimed"
  <2>1. [f \in Fields |-> 0] \in Versions
    BY DEF Versions
  <2>2. edit' = [at |-> "claimed", changed |-> {}, shows |-> [f \in Fields |-> 0], post |-> 0,
                 pass |-> "none"]
    BY <1>6 DEF NoEdit
  <2> QED
    BY <2>1, <2>2 DEF Edit
<1>8. InStatus("running")' = {n}
  BY <1>2, <1>4, <1>5, <1>6 DEF InStatus
<1>9. Owing' = Owing
  BY <1>2, <1>4, <1>5 DEF Owing
<1>10. InStatus("failed")' = InStatus("failed")
  BY <1>2, <1>4, <1>5 DEF InStatus
<1>11. InStatus("failed") \cap Unreported \subseteq InStatus("failed")' \cap Unreported'
  BY <1>2, <1>4, <1>5 DEF InStatus, Unreported
<1>12. Owed' = Owed
  <2>1. Owing \subseteq Revs
    BY DEF Owing
  <2> QED
    BY <1>5, <1>9, <2>1 DEF Owed
<1>13. \A m \in Owing : revs'[m].reported = revs[m].reported
  BY <1>4, <1>5 DEF Owing
<1>14. EditShape'
  BY <1>5, <1>6, <1>7 DEF ShopShape, EditShape
<1>15. Wants'
  BY <1>6 DEF EditInv, Wants
<1>16. OneEdit'
  BY <1>7, <1>8, <1>9, <1>13 DEF EditInv, OneEdit
<1>17. Overtaken'
  BY <1>7 DEF Overtaken, HasLooked
<1>18. EditIsOwed'
  <2>1. \A m \in InStatus("failed") : revs'[m].changed = revs[m].changed
    BY <1>5 DEF InStatus
  <2> QED
    BY <1>6, <1>11, <1>12, <2>1 DEF EditInv, EditIsOwed
<1> QED
  BY <1>14, <1>15, <1>16, <1>17, <1>18 DEF EditInv

\* What a save leaves on the page.
LEMMA SavesPosts ==
    ASSUME ShopShape, NEW shows \in Versions, Saves(shows)
    PROVE  \E took \in SUBSET edit.changed :
             /\ posts' \in Seq(PostRow) /\ Len(posts') = Len(posts) /\ (posts = <<>> <=> posts' = <<>>)
             /\ \A p \in Posts : posts'[p].up = posts[p].up /\ posts'[p].hand = posts[p].hand
             /\ \A p \in Posts : \A f \in Fields :
                  posts'[p].shows[f] = IF p = edit.post /\ f \in took THEN shows[f]
                                       ELSE posts[p].shows[f]
<1>1. PICK took \in SUBSET edit.changed :
        posts' = [posts EXCEPT ![edit.post].shows =
                    [f \in Fields |-> IF f \in took THEN shows[f] ELSE @[f]]]
  BY DEF Saves
<1>2. posts \in Seq(PostRow) /\ Posts = 1..Len(posts) /\ \A p \in Posts : posts[p] \in PostRow
  BY DEF ShopShape, ThingShape, Posts
<1>3. CASE edit.post \in Posts
  <2> DEFINE e == edit.post
             now == [f \in Fields |-> IF f \in took THEN shows[f] ELSE posts[e].shows[f]]
             r == [posts[e] EXCEPT !.shows = now]
  <2>1. posts[e] \in PostRow
    BY <1>2, <1>3
  <2>2. now \in Versions
    BY <2>1 DEF PostRow, Versions
  <2>3. posts' = [posts EXCEPT ![e] = r]
    BY <1>1, <1>2, <1>3
  <2>4. \A f \in Fields : now[f] = IF f \in took THEN shows[f] ELSE posts[e].shows[f]
    OBVIOUS
  <2> HIDE DEF now
  <2>5. r \in PostRow /\ r.shows = now /\ r.up = posts[e].up /\ r.hand = posts[e].hand
    BY <2>1, <2>2 DEF PostRow
  <2> HIDE DEF r
  <2>6. /\ posts' \in Seq(PostRow) /\ Len(posts') = Len(posts) /\ posts'[e] = r
        /\ \A p \in Posts : p # e => posts'[p] = posts[p]
    BY <1>2, <1>3, <2>3, <2>5, ReplaceRow
  <2>7. posts = <<>> <=> posts' = <<>>
    BY <1>2, <2>6, EmptySeq
  <2>8. \A p \in Posts : posts'[p].up = posts[p].up /\ posts'[p].hand = posts[p].hand
    BY <2>5, <2>6
  <2>9. \A p \in Posts : \A f \in Fields :
          posts'[p].shows[f] = IF p = e /\ f \in took THEN shows[f] ELSE posts[p].shows[f]
    BY <2>4, <2>5, <2>6
  <2> QED
    BY <2>6, <2>7, <2>8, <2>9
<1>4. CASE edit.post \notin Posts
  <2>1. posts' = posts
    BY <1>1, <1>2, <1>4
  <2> QED
    BY <1>2, <1>4, <2>1
<1> QED
  BY <1>3, <1>4

LEMMA SaveKeeps ==
    ASSUME ShopShape, EditInv, Save
    PROVE  /\ ThingShape' /\ EditShape' /\ EditInv'
           /\ Len(posts') = Len(posts) /\ (posts = <<>> <=> posts' = <<>>)
           /\ \A p \in Posts : posts'[p].up = posts[p].up /\ posts'[p].hand = posts[p].hand
<1>1. /\ UNCHANGED <<kind, item, want, revs, call, failed>> /\ Listed' = Listed
      /\ edit.at = "filling" /\ edit' = [edit EXCEPT !.at = "saved"] /\ Saves(edit.shows)
  BY DEF Save, Listed
<1>2. /\ edit' \in Edit /\ edit'.at = "saved" /\ edit'.changed = edit.changed
      /\ edit'.post = edit.post /\ edit'.shows = edit.shows
      /\ edit.shows \in Versions /\ edit.changed \subseteq Fields
  BY <1>1 DEF ShopShape, EditShape, Edit
<1>3. PICK took \in SUBSET edit.changed :
             /\ posts' \in Seq(PostRow) /\ Len(posts') = Len(posts) /\ (posts = <<>> <=> posts' = <<>>)
             /\ \A p \in Posts : posts'[p].up = posts[p].up /\ posts'[p].hand = posts[p].hand
             /\ \A p \in Posts : \A f \in Fields :
                  posts'[p].shows[f] = IF p = edit.post /\ f \in took THEN edit.shows[f]
                                       ELSE posts[p].shows[f]
  BY <1>1, <1>2, SavesPosts
<1>4. ThingShape' /\ EditShape'
  BY <1>1, <1>2, <1>3 DEF ShopShape, ThingShape, EditShape
<1>5. /\ InStatus("running")' = InStatus("running") /\ Owing' = Owing /\ Owed' = Owed
      /\ (InStatus("failed") \cap Unreported)' = InStatus("failed") \cap Unreported
      /\ InStatus("pending")' = InStatus("pending")
  BY <1>1 DEF InStatus, Owing, Owed, Unreported, Revs
<1>6. edit.changed = revs[Running].changed /\ Running \in Owing
      /\ InStatus("running") = {Running}
  <2>1. Running \in Revs /\ revs[Running].status = "running" /\ InStatus("running") = {Running}
    BY <1>1, RunningIs
  <2> QED
    BY <1>1, <2>1 DEF EditInv, OneEdit, Owing
<1>7. Wants'
  BY <1>1 DEF EditInv, Wants
<1>8. OneEdit'
  BY <1>1, <1>2, <1>5, <1>6 DEF EditInv, OneEdit
<1>9. Overtaken'
  <2>1. HasLooked
    BY <1>1 DEF HasLooked
  <2> QED
    BY <1>1, <1>2, <1>5, <2>1 DEF EditInv, Overtaken
<1>10. EditIsOwed'
  <2> SUFFICES ASSUME NEW f \in Fields, Listed, want[f] # 0, posts'[item.url].shows[f] # want[f]
               PROVE  \/ f \in call \cup failed \cup Owed
                      \/ \E n \in InStatus("failed") \cap Unreported : f \in revs[n].changed
    BY <1>1, <1>5 DEF EditIsOwed
  <2>1. item.url \in Posts
    BY DEF ShopShape, ThingShape, Item, Listed, NoUrl, Posts
  <2>2. CASE item.url = edit.post /\ f \in took
    BY <1>3, <1>6, <2>2 DEF Owed
  <2>3. CASE ~(item.url = edit.post /\ f \in took)
    BY <1>3, <2>1, <2>3 DEF EditInv, EditIsOwed
  <2> QED
    BY <2>2, <2>3
<1> QED
  BY <1>3, <1>4, <1>7, <1>8, <1>9, <1>10 DEF EditInv

LEMMA PassSavesKeeps ==
    ASSUME ShopShape, EditInv, PassSaves
    PROVE  /\ ThingShape' /\ EditShape' /\ EditInv'
           /\ Len(posts') = Len(posts) /\ (posts = <<>> <=> posts' = <<>>)
           /\ \A p \in Posts : posts'[p].up = posts[p].up /\ posts'[p].hand = posts[p].hand
<1>1. /\ UNCHANGED <<kind, item, want, revs, call, failed>> /\ Listed' = Listed
      /\ edit' = [edit EXCEPT !.shows = item.rec, !.pass = "looked"] /\ Saves(item.rec)
  BY DEF PassSaves, Listed
<1>0. item.rec \in Versions /\ edit \in Edit /\ edit.changed \subseteq Fields
  BY DEF ShopShape, ThingShape, Item, EditShape, Edit
<1>2. /\ edit' \in Edit /\ edit'.at = edit.at /\ edit'.changed = edit.changed
      /\ edit'.post = edit.post /\ edit'.shows = item.rec
  <2> DEFINE p == [edit EXCEPT !.shows = item.rec]
  <2>1. p \in Edit /\ p.at = edit.at /\ p.changed = edit.changed /\ p.post = edit.post
        /\ p.shows = item.rec
    BY <1>0 DEF Edit
  <2>2. edit' = [p EXCEPT !.pass = "looked"]
    BY <1>1, Zenon
  <2> HIDE DEF p
  <2> QED
    BY <2>1, <2>2 DEF Edit
<1>3. PICK took \in SUBSET edit.changed :
             /\ posts' \in Seq(PostRow) /\ Len(posts') = Len(posts) /\ (posts = <<>> <=> posts' = <<>>)
             /\ \A p \in Posts : posts'[p].up = posts[p].up /\ posts'[p].hand = posts[p].hand
             /\ \A p \in Posts : \A f \in Fields :
                  posts'[p].shows[f] = IF p = edit.post /\ f \in took THEN item.rec[f]
                                       ELSE posts[p].shows[f]
  BY <1>0, <1>1, SavesPosts
<1>4. ThingShape' /\ EditShape'
  BY <1>1, <1>2, <1>3 DEF ShopShape, ThingShape, EditShape
<1>5. /\ InStatus("running")' = InStatus("running") /\ Owing' = Owing /\ Owed' = Owed
      /\ (InStatus("failed") \cap Unreported)' = InStatus("failed") \cap Unreported
      /\ InStatus("pending")' = InStatus("pending")
  BY <1>1 DEF InStatus, Owing, Owed, Unreported, Revs
<1>7. Wants'
  BY <1>1 DEF EditInv, Wants
<1>8. OneEdit'
  BY <1>1, <1>2, <1>5 DEF EditInv, OneEdit
<1>6. \A f \in Fields : want[f] # 0 => item.rec[f] = want[f]
  BY DEF EditInv, Wants
<1>9. Overtaken'
  <2> SUFFICES ASSUME NEW f \in edit.changed, HasLooked', Listed, want[f] # 0,
                      edit.post # item.url \/ item.rec[f] # want[f]
               PROVE  \/ f \in call \cup failed
                      \/ \E n \in InStatus("pending") : f \in revs[n].changed
    BY <1>1, <1>2, <1>5 DEF Overtaken
  <2>1. edit.post # item.url
    BY <1>0, <1>6
  <2>2. HasLooked
    BY <1>2, <2>1 DEF HasLooked, EditInv, OneEdit
  <2> QED
    BY <2>1, <2>2 DEF EditInv, Overtaken
<1>10. EditIsOwed'
  <2> SUFFICES ASSUME NEW f \in Fields, Listed, want[f] # 0, posts'[item.url].shows[f] # want[f]
               PROVE  \/ f \in call \cup failed \cup Owed
                      \/ \E n \in InStatus("failed") \cap Unreported : f \in revs[n].changed
    BY <1>1, <1>5 DEF EditIsOwed
  <2>1. item.url \in Posts
    BY DEF ShopShape, ThingShape, Item, Listed, NoUrl, Posts
  <2>2. ~(item.url = edit.post /\ f \in took)
    BY <1>3, <1>6, <2>1
  <2> QED
    BY <1>3, <2>1, <2>2 DEF EditInv, EditIsOwed
<1> QED
  BY <1>3, <1>4, <1>7, <1>8, <1>9, <1>10 DEF EditInv

LEMMA NoEditIs == NoEdit \in Edit /\ NoEdit.at = "idle"
<1>1. [f \in Fields |-> 0] \in Versions
  BY DEF Versions
<1> QED
  BY <1>1 DEF NoEdit, Edit

\* What the page confirms is what is wanted, or was overtaken.
LEMMA ConfirmedIs ==
    ASSUME ShopShape, EditInv, HasLooked, Confirms
    PROVE  \A f \in revs[Running].changed :
               Listed /\ want[f] # 0 /\ posts[item.url].shows[f] # want[f]
               => \/ f \in call \cup failed
                  \/ \E n \in InStatus("pending") : f \in revs[n].changed
<1>1. edit.at # "idle" /\ edit.at \in {"filling", "saved", "passed", "attached"}
  BY DEF HasLooked
<1>2. edit.changed = revs[Running].changed
  BY <1>1, RunningIs DEF EditInv, OneEdit
<1> QED
  BY <1>2 DEF Confirms, EditInv, Overtaken

LEMMA SettleKeeps ==
    ASSUME ShopShape, EditInv, edit.at # "idle", SettleOrRetry, edit'.at = "idle", edit' \in Edit,
           UNCHANGED <<thing, call, failed>>
    PROVE  EditShape' /\ EditInv'
<1>1. PICK st \in {"pending", "failed"} : Finish(st)
  BY DEF SettleOrRetry
<1> QED
  BY <1>1, FinishKeeps

LEMMA EndsKeep ==
    ASSUME ShopShape, EditInv,
           RefuseEdit \/ Confirm \/ EditFails \/ SettleOrphan
           \/ \E how \in {"done", "failed"} : PassSays(how)
    PROVE  EditShape' /\ EditInv'
<1>1. CASE RefuseEdit
  <2>1. edit.at # "idle" /\ Finish("failed") /\ edit' = NoEdit /\ UNCHANGED <<thing, call, failed>>
    BY <1>1 DEF RefuseEdit
  <2> QED
    BY <2>1, NoEditIs, FinishKeeps
<1>2. CASE Confirm
  <2>1. edit.at = "saved" /\ edit' = NoEdit /\ UNCHANGED <<thing, call, failed>>
    BY <1>2 DEF Confirm
  <2>2. CASE Confirms
    <3>1. Finish("done") /\ HasLooked
      BY <1>2, <2>1, <2>2 DEF Confirm, HasLooked
    <3> QED
      BY <2>1, <2>2, <3>1, NoEditIs, ConfirmedIs, FinishKeeps
  <2>3. CASE ~Confirms
    BY <1>2, <2>1, <2>3, NoEditIs, SettleKeeps DEF Confirm
  <2> QED
    BY <2>2, <2>3
<1>3. CASE EditFails
  <2>1. edit.at # "idle" /\ edit' = NoEdit /\ UNCHANGED <<thing, call, failed>>
        /\ (SettleOrRetry \/ Finish("failed"))
    BY <1>3 DEF EditFails
  <2>2. CASE SettleOrRetry
    BY <2>1, <2>2, NoEditIs, SettleKeeps
  <2>3. CASE Finish("failed")
    BY <2>1, <2>3, NoEditIs, FinishKeeps
  <2> QED
    BY <2>1, <2>2, <2>3
<1>4. CASE SettleOrphan
  <2>1. edit.at # "idle" /\ edit' = [edit EXCEPT !.at = "idle"] /\ UNCHANGED <<thing, call, failed>>
        /\ SettleOrRetry
    BY <1>4 DEF SettleOrphan
  <2>2. edit' \in Edit /\ edit'.at = "idle"
    BY <2>1 DEF ShopShape, EditShape, Edit
  <2> QED
    BY <2>1, <2>2, SettleKeeps
<1>5. ASSUME NEW how \in {"done", "failed"}, PassSays(how) PROVE EditShape' /\ EditInv'
  <2>1. edit.at # "idle" /\ HasLooked /\ Finish(how) /\ edit' = NoEdit
        /\ UNCHANGED <<thing, call, failed>> /\ (how = "done" => Confirms)
    BY <1>5 DEF PassSays, HasLooked
  <2> QED
    BY <2>1, NoEditIs, ConfirmedIs, FinishKeeps
<1> QED
  BY <1>1, <1>2, <1>3, <1>4, <1>5

LEMMA ReportKeeps ==
    ASSUME ShopShape, EditInv, ReportEdit
    PROVE  EditShape' /\ EditInv'
<1>1. PICK n \in Unreported :
         /\ failed' = IF revs[n].status = "failed" /\ ~Covered(n)
                      THEN failed \cup revs[n].changed ELSE failed
         /\ revs' = [revs EXCEPT ![n].reported = TRUE]
  BY DEF ReportEdit
<1> DEFINE r == [revs[n] EXCEPT !.reported = TRUE]
<1>2. /\ n \in Revs /\ revs[n] \in RevisionRow /\ revs[n].status \in {"done", "failed"}
      /\ revs \in Seq(RevisionRow) /\ Revs = 1..Len(revs)
  BY DEF Unreported, InStatus, Revs, ShopShape, EditShape
<1>3. revs' = [revs EXCEPT ![n] = r]
  BY <1>1, <1>2
<1>4. r \in RevisionRow /\ r.changed = revs[n].changed /\ r.status = revs[n].status
  BY <1>2 DEF RevisionRow
<1> HIDE DEF r
<1>5. /\ revs' \in Seq(RevisionRow) /\ Revs' = Revs /\ revs'[n] = r
      /\ \A m \in Revs : revs'[m].changed = revs[m].changed
      /\ \A m \in Revs : m # n => revs'[m] = revs[m]
  BY <1>2, <1>3, <1>4, RowMoves DEF ShopShape
<1>6. \A m \in Revs : revs'[m].status = revs[m].status
  BY <1>4, <1>5
<1>7. /\ UNCHANGED <<kind, item, posts, want, call, edit>> /\ Listed' = Listed
      /\ failed \subseteq failed' /\ HasLooked' = HasLooked
  BY <1>1 DEF ReportEdit, thing, Listed, HasLooked
<1>8. /\ InStatus("running")' = InStatus("running")
      /\ InStatus("pending")' = InStatus("pending")
      /\ InStatus("failed")' = InStatus("failed")
      /\ Owing' = Owing
  BY <1>5, <1>6 DEF InStatus, Owing
<1>9. n \notin Owing
  BY <1>2 DEF Owing
<1>10. Owed' = Owed
  <2>1. Owing \subseteq Revs
    BY DEF Owing
  <2> QED
    BY <1>5, <1>8, <2>1 DEF Owed
<1>11. EditShape'
  BY <1>1, <1>2, <1>5, <1>7 DEF ShopShape, EditShape, RevisionRow
<1>12. Wants'
  BY <1>7 DEF EditInv, Wants
<1>13. OneEdit'
  <2>1. \A m \in Owing : revs'[m] = revs[m]
    BY <1>5, <1>9 DEF Owing
  <2>2. \A m \in InStatus("running") : revs'[m].changed = revs[m].changed
    BY <1>5 DEF InStatus
  <2> QED
    BY <1>7, <1>8, <2>1, <2>2 DEF EditInv, OneEdit
<1>14. Overtaken'
  <2>1. \A m \in InStatus("pending") : revs'[m].changed = revs[m].changed
    BY <1>5 DEF InStatus
  <2> QED
    BY <1>7, <1>8, <2>1 DEF EditInv, Overtaken
<1>15. EditIsOwed'
  <2> SUFFICES ASSUME NEW f \in Fields, Listed, want[f] # 0, posts[item.url].shows[f] # want[f],
                      f \notin call \cup failed' \cup Owed
               PROVE  \E m \in InStatus("failed")' \cap Unreported' : f \in revs'[m].changed
    BY <1>7, <1>10 DEF EditIsOwed
  <2>1. PICK m \in InStatus("failed") \cap Unreported : f \in revs[m].changed
    BY <1>7 DEF EditInv, EditIsOwed
  <2>2. m # n
    <3> SUFFICES ASSUME m = n PROVE FALSE
      OBVIOUS
    <3>1. Covered(n)
      BY <1>1, <2>1 DEF InStatus
    <3> QED
      BY <2>1, <3>1 DEF Covered, Owed
  <2>3. m \in Revs /\ revs'[m] = revs[m]
    BY <1>5, <2>1, <2>2 DEF InStatus
  <2>4. m \in Unreported'
    BY <1>5, <2>1, <2>3 DEF Unreported, InStatus
  <2> QED
    BY <1>8, <2>1, <2>3, <2>4
<1> QED
  BY <1>11, <1>12, <1>13, <1>14, <1>15 DEF EditInv

LEMMA ReviseStepKeeps ==
    ASSUME ShopInv, ReviseStep, UNCHANGED <<crossVars, surveyVars>>
    PROVE  ShopInv'
<1>1. ShopShape /\ LaneInv /\ EditInv
  BY DEF ShopInv
<1>2. CrossShape /\ SurveyShape /\ drive.post <= Len(posts') => CrossShape' /\ SurveyShape'
  BY DEF CrossShape, SurveyShape, crossVars, surveyVars
<1>3. ASSUME UNCHANGED thing, EditShape', EditInv' PROVE ShopInv'
  <2>1. /\ UNCHANGED <<kind, item, posts, want>> /\ ThingShape' = ThingShape
    BY <1>3 DEF thing, ThingShape
  <2>2. LaneInv'
    BY <1>1, <2>1, LanesKept DEF Posts
  <2>3. CrossShape' /\ SurveyShape'
    BY <1>1, <1>2, <2>1 DEF ShopShape, CrossShape
  <2> QED
    BY <1>1, <1>3, <2>1, <2>2, <2>3 DEF ShopInv, ShopShape
<1>4. ASSUME ThingShape', EditShape', EditInv', Len(posts') = Len(posts), UNCHANGED kind,
             posts = <<>> <=> posts' = <<>>,
             \A p \in Posts : posts'[p].up = posts[p].up /\ posts'[p].hand = posts[p].hand,
             item'.url = item.url, item'.known = item.known, item'.sold = item.sold
      PROVE  ShopInv'
  <2>1. LaneInv'
    BY <1>1, <1>4, LanesKept
  <2>2. CrossShape' /\ SurveyShape'
    BY <1>1, <1>2, <1>4 DEF ShopShape, CrossShape
  <2> QED
    BY <1>4, <2>1, <2>2 DEF ShopInv, ShopShape
<1>5. ASSUME NEW changed \in SUBSET Fields, Revise(changed) PROVE ShopInv'
  <2>1. UNCHANGED <<kind, posts>>
    BY <1>5 DEF Revise
  <2> QED
    BY <1>1, <1>4, <1>5, <2>1, ReviseKeeps
<1>6. CASE QueueRevision
  BY <1>1, <1>3, <1>6, QueueKeeps DEF QueueRevision
<1>7. ASSUME NEW busy, Claim(busy) PROVE ShopInv'
  BY <1>1, <1>3, <1>7, ClaimKeeps DEF Claim
<1>8. CASE StartEdit
  BY <1>1, <1>3, <1>8, StartKeeps DEF StartEdit
<1>9. CASE AttachPass
  BY <1>1, <1>3, <1>9, AttachKeeps DEF AttachPass
<1>10. CASE Save
  <2>1. UNCHANGED <<kind, item>>
    BY <1>10 DEF Save
  <2> QED
    BY <1>1, <1>4, <1>10, <2>1, SaveKeeps
<1>11. CASE PassSaves
  <2>1. UNCHANGED <<kind, item>>
    BY <1>11 DEF PassSaves
  <2> QED
    BY <1>1, <1>4, <1>11, <2>1, PassSavesKeeps
<1>12. ASSUME RefuseEdit \/ Confirm \/ EditFails \/ SettleOrphan
           \/ \E how \in {"done", "failed"} : PassSays(how)
       PROVE  ShopInv'
  <2>1. UNCHANGED thing
    BY <1>12 DEF RefuseEdit, Confirm, EditFails, SettleOrphan, PassSays
  <2> QED
    BY <1>1, <1>3, <1>12, <2>1, EndsKeep
<1>13. CASE ReportEdit
  BY <1>1, <1>3, <1>13, ReportKeeps DEF ReportEdit
<1>14. CASE CallLost
  BY <1>1, <1>3, <1>14, CallLostKeeps DEF CallLost
<1>15. CASE EditPassEnds
  BY <1>1, <1>3, <1>15, PassEndKeeps DEF EditPassEnds
<1> QED
  BY <1>5, <1>6, <1>7, <1>8, <1>9, <1>10, <1>11, <1>12, <1>13, <1>14, <1>15 DEF ReviseStep

-----------------------------------------------------------------------------
(* A publish, from the lane's choice to the report.                        *)

\* What holds of 0 and of each number after one it holds of holds of them all.
LEMMA UpTo ==
    ASSUME NEW m \in Nat, NEW T, 0 \in T, \A n \in 0..m : n # m /\ n \in T => n + 1 \in T
    PROVE  \A n \in 0..m : n \in T
<1> SUFFICES ASSUME {n \in 0..m : n \notin T} # {} PROVE FALSE
  OBVIOUS
<1> DEFINE below == {ss \in Nat \X Nat : ss[1] < ss[2]}
           Rest == {n \in 0..m : n \notin T}
<1>1. IsWellFoundedOn(below, Nat)
  BY NatLessThanWellFounded DEF OpToRel
<1>2. Rest \subseteq Nat /\ Rest # {}
  OBVIOUS
<1>3. PICK x \in Rest : \A y \in Rest : <<y, x>> \notin below
  BY <1>1, <1>2, WFMin
<1>4. x \in 0..m /\ x # 0 /\ x \notin T
  OBVIOUS
<1>5. x - 1 \in 0..m /\ x - 1 # m /\ x - 1 \notin T
  BY <1>3, <1>4
<1>6. x - 1 \in Rest /\ <<x - 1, x>> \in below
  BY <1>4, <1>5
<1> QED
  BY <1>3, <1>6

LEMMA CostIs ==
    ASSUME CrossShape, NEW n \in Rows
    PROVE  Cost(rows[n]) \in Nat /\ (rows[n].unverified => Cost(rows[n]) = Attempts)
<1>1. Attempts \in Nat
  BY CrossPostAssumption
<1> QED
  BY <1>1 DEF Cost, CrossShape, Rows

\* The sum over the rows, and that no row of it is more than the whole.
LEMMA CostsAre ==
    ASSUME CrossShape
    PROVE  \A n \in Rows : Costs[Len(rows)] >= Cost(rows[n])
<1> DEFINE L == Len(rows)
           Sum(g, m) == g = [n \in 0..m |-> IF n = 0 THEN 0 ELSE g[n - 1] + Cost(rows[n])]
<1>0. L \in Nat /\ Rows = 1..L
  BY DEF CrossShape, Rows
<1>1. \E g : Sum(g, L)
  <2> DEFINE T == {m \in 0..L : \E g : Sum(g, m)}
  <2>1. 0 \in T
    <3>1. Sum([n \in 0..0 |-> 0], 0)
      OBVIOUS
    <3>2. \E g : Sum(g, 0)
      BY <3>1
    <3> HIDE DEF Sum
    <3> QED
      BY <1>0, <3>2
  <2>2. ASSUME NEW m \in 0..L, m # L, m \in T PROVE m + 1 \in T
    <3>1. PICK g : Sum(g, m)
      BY <2>2
    <3> DEFINE h == [n \in 0..(m + 1) |-> IF n = m + 1 THEN g[m] + Cost(rows[n]) ELSE g[n]]
    <3>2. m \in Nat /\ m + 1 \in 0..L
      BY <1>0, <2>2
    <3>3. \A n \in 0..m : g[n] = IF n = 0 THEN 0 ELSE g[n - 1] + Cost(rows[n])
      BY <3>1
    <3>4. \A n \in 0..(m + 1) : h[n] = IF n = 0 THEN 0 ELSE h[n - 1] + Cost(rows[n])
      BY <3>2, <3>3
    <3>5. Sum(h, m + 1)
      BY <3>4
    <3> QED
      BY <3>2, <3>5
  <2>3. L \in T
    <3> HIDE DEF T
    <3>1. \A n \in 0..L : n # L /\ n \in T => n + 1 \in T
      BY <2>2
    <3>2. L \in Nat /\ L \in 0..L
      BY <1>0
    <3> HIDE DEF L
    <3>3. \A n \in 0..L : n \in T
      BY <2>1, <3>1, <3>2, UpTo, Zenon
    <3> QED
      BY <3>2, <3>3
  <2> QED
    BY <2>3
<1>2. Sum(Costs, L)
  BY <1>1 DEF Costs
<1>3. \A n \in 0..L : Costs[n] = IF n = 0 THEN 0 ELSE Costs[n - 1] + Cost(rows[n])
  BY <1>2
<1> DEFINE T == {m \in 0..L : Costs[m] \in Nat /\ \A n \in 1..m : Costs[m] >= Cost(rows[n])}
<1>4. 0 \in T
  BY <1>0, <1>3
<1>5. ASSUME NEW m \in 0..L, m # L, m \in T PROVE m + 1 \in T
  <2>1. m + 1 \in 0..L /\ m + 1 \in Rows /\ Costs[m + 1] = Costs[m] + Cost(rows[m + 1])
    BY <1>0, <1>3, <1>5
  <2>2. Cost(rows[m + 1]) \in Nat
    BY <2>1, CostIs
  <2>3. \A n \in 1..m : Cost(rows[n]) \in Nat
    BY <1>0, <1>5, CostIs
  <2>4. \A n \in 1..(m + 1) : n \in 1..m \/ n = m + 1
    BY <1>0, <1>5
  <2> QED
    BY <1>0, <1>5, <2>1, <2>2, <2>3, <2>4
<1>6. L \in T
  <2> HIDE DEF T, L
  <2>1. \A n \in 0..L : n # L /\ n \in T => n + 1 \in T
    BY <1>5
  <2>2. \A n \in 0..L : n \in T
    BY <1>0, <1>4, <2>1, UpTo
  <2> QED
    BY <1>0, <2>2
<1> QED
  BY <1>0, <1>6

LEMMA UnverifiedIsSpent ==
    ASSUME CrossShape, NEW n \in Rows, rows[n].unverified PROVE Spent
<1>1. Attempts \in Nat
  BY CrossPostAssumption
<1> QED
  BY <1>1, CostIs, CostsAre DEF Spent

\* A row of a publish that came to nothing, put at the end.
LEMMA RowIs ==
    ASSUME NEW st \in {"error", "queued"}
    PROVE  Row(st) \in PublishRow /\ Row(st).status = st /\ ~Row(st).review /\ ~Row(st).unverified
  BY DEF Row, PublishRow

LEMMA RowAs ==
    ASSUME NEW r \in PublishRow, NEW v \in BOOLEAN
    PROVE  /\ [r EXCEPT !.retired = v] \in PublishRow
           /\ [r EXCEPT !.retired = v].status = r.status
           /\ [r EXCEPT !.retired = v].review = r.review
           /\ [r EXCEPT !.unverified = v] \in PublishRow
           /\ [r EXCEPT !.unverified = v].status = r.status
           /\ [r EXCEPT !.unverified = v].review = r.review
           /\ [r EXCEPT !.unverified = v].unverified = v
           /\ [r EXCEPT !.reported = "closed"] \in PublishRow
           /\ [r EXCEPT !.reported = "closed"].status = r.status
           /\ [r EXCEPT !.reported = "closed"].review = r.review
<1>1. /\ [r EXCEPT !.retired = v] \in PublishRow
      /\ [r EXCEPT !.retired = v].status = r.status
      /\ [r EXCEPT !.retired = v].review = r.review
  BY DEF PublishRow
<1>2. /\ [r EXCEPT !.unverified = v] \in PublishRow
      /\ [r EXCEPT !.unverified = v].status = r.status
      /\ [r EXCEPT !.unverified = v].review = r.review
      /\ [r EXCEPT !.unverified = v].unverified = v
  BY DEF PublishRow
<1>3. /\ [r EXCEPT !.reported = "closed"] \in PublishRow
      /\ [r EXCEPT !.reported = "closed"].status = r.status
      /\ [r EXCEPT !.reported = "closed"].review = r.review
  BY DEF PublishRow
<1> QED
  BY <1>1, <1>2, <1>3, Zenon

LEMMA ClosedRow ==
    LET r == [Row("error") EXCEPT !.retired = TRUE, !.reported = "closed"] IN
    r \in PublishRow /\ r.status = "error" /\ ~r.review
<1> DEFINE p == [Row("error") EXCEPT !.retired = TRUE]
           r == [Row("error") EXCEPT !.retired = TRUE, !.reported = "closed"]
<1>1. p \in PublishRow /\ p.status = "error" /\ ~p.review
  BY RowIs, RowAs
<1>2. r = [p EXCEPT !.reported = "closed"]
  BY Zenon
<1> HIDE DEF p, r
<1>3. r \in PublishRow /\ r.status = "error" /\ ~r.review
  BY <1>1, <1>2, RowAs
<1> USE DEF r
<1> QED
  BY <1>3, Zenon

LEMMA ErrorRow ==
    ASSUME CrossShape, ByPass, NEW r \in PublishRow, r.status = "error", ~r.review,
           rows' = Append(rows, r), UNCHANGED <<kind, item, posts>>
    PROVE  /\ rows' \in Seq(PublishRow) /\ ByPass' /\ rows' # <<>> /\ rows'[Len(rows')] = r
           /\ \A n \in Rows : n \in Rows' /\ rows'[n] = rows[n]
           /\ Len(rows') \in Rows'
<1>1. /\ rows' \in Seq(PublishRow) /\ Len(rows') = Len(rows) + 1 /\ Len(rows) \in Nat
      /\ \A n \in Rows : rows'[n] = rows[n]
      /\ rows'[Len(rows) + 1] = r /\ rows' # <<>>
  BY AppendRow DEF CrossShape, Rows
<1>2. \A n \in Rows' : n \in Rows \/ n = Len(rows) + 1
  BY <1>1 DEF Rows
<1>3. Listed' = Listed
  BY DEF Listed
<1>4. ByPass'
  BY <1>1, <1>2, <1>3 DEF ByPass, UnsettledPosts
<1> QED
  BY <1>1, <1>4 DEF Rows

\* What a step of another lane than the revisions has to show.
LEMMA CrossKeeps ==
    ASSUME ShopInv, UNCHANGED <<kind, reviseVars, surveyVars>>, ThingShape', CrossShape', LaneInv',
           Len(posts) <= Len(posts'),
           \A p \in Posts : posts'[p].shows = posts[p].shows,
           \/ want' = want /\ item'.url = item.url /\ item'.rec = item.rec
           \/ ~Listed /\ want' = want
           \/ kind # "recipe" /\ want' = [f \in Fields |-> 0] /\ item'.url = NoUrl
    PROVE  ShopInv'
<1>1. EditInv'
  BY EditsKept DEF ShopInv, ThingShape
<1>2. EditShape' /\ SurveyShape'
  BY DEF ShopInv, ShopShape, EditShape, SurveyShape, reviseVars, surveyVars
<1> QED
  BY <1>1, <1>2 DEF ShopInv, ShopShape

\* A step that only keeps the books of the pair.
LEMMA BooksKept ==
    ASSUME ShopInv, UNCHANGED <<thing, reviseVars, surveyVars>>, CrossShape', ByPass', ByDrive',
           item.known \/ (rows' = <<>> /\ drive'.at = "idle" /\ check' = "no"),
           kind # "recipe" /\ drive'.at \in {"filling", "ledgered"} => \A p \in Posts : ~Live(p),
           \/ kind = "recipe"
           \/ \A p \in Posts : ~Live(p)
           \/ \A n \in Rows : rows[n].unverified => n \in Rows' /\ rows'[n].unverified
    PROVE  ShopInv'
<1>1. /\ UNCHANGED <<kind, item, posts, want, survey, disc, adopt>>
      /\ Posts' = Posts /\ Listed' = Listed
      /\ ShopShape /\ LaneInv
  BY DEF ShopInv, thing, surveyVars, Posts, Listed
<1>2. \A p \in Posts : Live(p)' <=> Live(p)
  BY <1>1 DEF Live
<1>3. ThingShape'
  BY <1>1 DEF ShopShape, ThingShape
<1>4. Unknown' /\ ByHand' /\ Found'
  BY <1>1 DEF LaneInv, Unknown, ByHand, Found
<1>5. OneLive'
  <2>1. CASE kind = "recipe"
    BY <1>1, <2>1 DEF OneLive
  <2>2. ASSUME kind # "recipe", NEW p \in Posts, Live(p), ~posts[p].hand
        PROVE  Listed \/ \E n \in Rows' : rows'[n].unverified
    BY <1>1, <2>2 DEF LaneInv, OneLive
  <2> QED
    BY <1>1, <1>2, <2>1, <2>2 DEF LaneInv, OneLive
<1>6. LaneInv'
  BY <1>4, <1>5 DEF LaneInv
<1>7. Len(posts) <= Len(posts')
  BY <1>1 DEF ShopShape, ThingShape
<1> QED
  BY <1>1, <1>3, <1>6, <1>7, CrossKeeps

LEMMA NoDriveIs ==
    /\ NoDrive.at = "idle" /\ NoDrive.post = 0
    /\ NoDrive \in [at : {"idle", "filling", "ledgered", "clicked"}, shows : Versions, post : Nat]
<1>1. [f \in Fields |-> 0] \in Versions
  BY DEF Versions
<1> QED
  BY <1>1 DEF NoDrive

\* Nothing stands where the lane may start a drive: what the seller put up would have been
\* found, and what the lane did is named or still counts against the pair.
LEMMA NothingStands ==
    ASSUME ShopInv, kind # "recipe", Wanted(Looked, There)
    PROVE  \A p \in Posts : ~Live(p)
<1> SUFFICES ASSUME NEW p \in Posts, Live(p) PROVE FALSE
  OBVIOUS
<1>1. /\ ~item.sold /\ ~Listed /\ Looked /\ disc.st = "none" /\ ~Spent /\ CrossShape
  BY DEF Wanted, There, ShopInv, ShopShape
<1>2. CASE posts[p].hand
  <2>1. Surveyable
    BY <1>2 DEF Surveyable, ShopInv, LaneInv, ByHand
  <2> QED
    BY <1>1, <1>2, <2>1 DEF Looked, ShopInv, LaneInv, Found
<1>3. CASE ~posts[p].hand
  <2>1. \E n \in Rows : rows[n].unverified
    BY <1>1, <1>3 DEF ShopInv, LaneInv, OneLive
  <2> QED
    BY <1>1, <2>1, UnverifiedIsSpent
<1> QED
  BY <1>2, <1>3

\* Steps of the drive that end it or bring it on and put a row at the end.
LEMMA StartDriveKeeps ==
    ASSUME ShopInv, StartDrive(Looked, There), UNCHANGED <<reviseVars, surveyVars>>
    PROVE  ShopInv'
<1>1. /\ kind # "recipe" /\ drive.at = "idle" /\ check = "no" /\ item.known /\ ~Listed
      /\ UNCHANGED <<thing, check>> /\ Wanted(Looked, There)
      /\ CrossShape /\ ByPass /\ ByDrive /\ ThingShape
  BY DEF StartDrive, Wanted, ShopInv, ShopShape, LaneInv
<1>2. UNCHANGED <<kind, item, posts>> /\ Listed' = Listed
  BY <1>1 DEF thing, Listed
<1>3. CASE kind = "craigslist" /\ ~Untried
  <2> DEFINE r == [Row("error") EXCEPT !.retired = TRUE]
  <2>1. rows' = Append(rows, r) /\ drive' = drive
    BY <1>3 DEF StartDrive
  <2>2. r \in PublishRow /\ r.status = "error" /\ ~r.review
    BY RowIs, RowAs
  <2> HIDE DEF r
  <2>3. /\ rows' \in Seq(PublishRow) /\ ByPass'
        /\ \A n \in Rows : n \in Rows' /\ rows'[n] = rows[n]
    BY <1>1, <1>2, <2>1, <2>2, ErrorRow
  <2>4. CrossShape' /\ ByDrive'
    BY <1>1, <1>2, <2>1, <2>3 DEF CrossShape, ByDrive
  <2> QED
    BY <1>1, <1>2, <2>1, <2>3, <2>4, BooksKept
<1>4. CASE ~(kind = "craigslist" /\ ~Untried)
  <2>1. rows' = rows /\ drive' = [at |-> "filling", shows |-> item.rec, post |-> 0]
    BY <1>4 DEF StartDrive
  <2>2. \A p \in Posts : ~Live(p)
    BY <1>1, NothingStands
  <2>3. CrossShape' /\ ByDrive'
    BY <1>1, <1>2, <2>1 DEF CrossShape, ByDrive, ThingShape, Item
  <2>4. ByPass'
    BY <1>1, <1>2, <2>1 DEF ByPass, UnsettledPosts, Rows
  <2> QED
    BY <1>1, <2>2, <2>3, <2>4, BooksKept
<1> QED
  BY <1>3, <1>4

LEMMA HandedBackKeeps ==
    ASSUME ShopInv, HandedBack \/ NotAttempted, UNCHANGED <<reviseVars, surveyVars>>
    PROVE  ShopInv'
<1>1. /\ drive.at = "filling" /\ UNCHANGED <<thing, check>> /\ drive' = NoDrive
      /\ rows' = rows \/ rows' = Append(rows, Row("error"))
  BY DEF HandedBack, NotAttempted
<1>2. /\ CrossShape /\ ByPass /\ ByDrive /\ item.known /\ kind # "recipe"
  BY <1>1 DEF ShopInv, ShopShape, LaneInv, ByDrive, Unknown
<1>3. UNCHANGED <<kind, item, posts>> /\ Listed' = Listed /\ Len(posts) \in Nat
  BY <1>1 DEF thing, Listed, ShopInv, ShopShape, ThingShape
<1>4. /\ rows' \in Seq(PublishRow) /\ ByPass'
      /\ \A n \in Rows : n \in Rows' /\ rows'[n] = rows[n]
  <2>1. CASE rows' = rows
    BY <1>2, <1>3, <2>1 DEF CrossShape, ByPass, UnsettledPosts, Rows
  <2>2. CASE rows' = Append(rows, Row("error"))
    BY <1>2, <1>3, <2>2, RowIs, ErrorRow
  <2> QED
    BY <1>1, <2>1, <2>2
<1>5. CrossShape' /\ ByDrive'
  BY <1>1, <1>2, <1>3, <1>4, NoDriveIs DEF CrossShape, ByDrive
<1> QED
  BY <1>1, <1>2, <1>4, <1>5, NoDriveIs, BooksKept

LEMMA BeforeCommitKeeps ==
    ASSUME ShopInv, BeforeCommit, UNCHANGED <<reviseVars, surveyVars>>
    PROVE  ShopInv'
<1> DEFINE r == [Row("error") EXCEPT !.unverified = TRUE]
<1>1. /\ drive.at = "filling" /\ UNCHANGED <<thing, check>>
      /\ drive' = [drive EXCEPT !.at = "ledgered"] /\ rows' = Append(rows, r)
  BY DEF BeforeCommit
<1>2. /\ CrossShape /\ ByPass /\ ByDrive /\ item.known /\ kind # "recipe"
      /\ ~Listed /\ check = "no" /\ \A p \in Posts : ~Live(p)
  BY <1>1 DEF ShopInv, ShopShape, LaneInv, ByDrive, Unknown, OneLive
<1>3. UNCHANGED <<kind, item, posts>> /\ Listed' = Listed
  BY <1>1 DEF thing, Listed
<1>4. r \in PublishRow /\ r.status = "error" /\ ~r.review /\ r.unverified
  BY RowIs, RowAs
<1> HIDE DEF r
<1>5. /\ rows' \in Seq(PublishRow) /\ ByPass' /\ rows' # <<>> /\ rows'[Len(rows')] = r
  BY <1>1, <1>2, <1>3, <1>4, ErrorRow
<1>6. /\ drive' \in [at : {"idle", "filling", "ledgered", "clicked"}, shows : Versions, post : Nat]
      /\ drive'.post = drive.post /\ drive'.at = "ledgered"
  BY <1>1, <1>2 DEF CrossShape
<1>7. CrossShape' /\ ByDrive'
  BY <1>1, <1>2, <1>3, <1>4, <1>5, <1>6 DEF CrossShape, ByDrive
<1> QED
  BY <1>1, <1>2, <1>5, <1>7, BooksKept

LEMMA ClickRefusedKeeps ==
    ASSUME ShopInv, ClickRefused, UNCHANGED <<reviseVars, surveyVars>>
    PROVE  ShopInv'
<1>1. /\ drive.at = "ledgered" /\ UNCHANGED <<thing, check>> /\ drive' = NoDrive
      /\ \/ rows' = [rows EXCEPT ![Len(rows)].unverified = FALSE]
         \/ rows' = SubSeq(rows, 1, Len(rows) - 1)
  BY DEF ClickRefused
<1>2. /\ CrossShape /\ ByPass /\ ByDrive /\ item.known /\ kind # "recipe"
      /\ rows # <<>> /\ \A p \in Posts : ~Live(p)
  BY <1>1 DEF ShopInv, ShopShape, LaneInv, ByDrive, Unknown, OneLive
<1>3. UNCHANGED <<kind, item, posts>> /\ Listed' = Listed /\ Len(posts) \in Nat
  BY <1>1 DEF thing, Listed, ShopInv, ShopShape, ThingShape
<1>4. Len(rows) \in Rows /\ rows \in Seq(PublishRow) /\ Rows = 1..Len(rows) /\ Len(rows) \in Nat
      /\ \A n \in Rows : rows[n] \in PublishRow
  BY <1>2, EmptySeq DEF CrossShape, Rows
<1>5. /\ rows' \in Seq(PublishRow)
      /\ \A n \in Rows' : n \in Rows /\ rows'[n].status = rows[n].status
                          /\ rows'[n].review = rows[n].review
  <2>1. CASE rows' = [rows EXCEPT ![Len(rows)].unverified = FALSE]
    <3> DEFINE r == [rows[Len(rows)] EXCEPT !.unverified = FALSE]
    <3>1. rows' = [rows EXCEPT ![Len(rows)] = r]
      BY <2>1
    <3>2. r \in PublishRow /\ r.status = rows[Len(rows)].status /\ r.review = rows[Len(rows)].review
      BY <1>4, RowAs
    <3> HIDE DEF r
    <3>3. /\ rows' \in Seq(PublishRow) /\ Len(rows') = Len(rows) /\ rows'[Len(rows)] = r
          /\ \A n \in Rows : n # Len(rows) => rows'[n] = rows[n]
      BY <1>4, <3>1, <3>2, ReplaceRow
    <3> QED
      BY <1>4, <3>2, <3>3 DEF Rows
  <2>2. CASE rows' = SubSeq(rows, 1, Len(rows) - 1)
    <3>1. /\ rows' \in Seq(PublishRow) /\ Len(rows') = Len(rows) - 1
          /\ \A n \in 1..Len(rows) - 1 : rows'[n] = rows[n]
      <4> DEFINE k == Len(rows) - 1
      <4>1. k \in Nat /\ \A n \in 1..k : n \in Rows /\ rows[n] \in PublishRow
        BY <1>4
      <4>2. rows' = SubSeq(rows, 1, k)
        BY <2>2
      <4> HIDE DEF k
      <4>3. /\ rows' \in Seq(PublishRow) /\ Len(rows') = IF 1 <= k THEN k - 1 + 1 ELSE 0
            /\ \A n \in 1..k - 1 + 1 : rows'[n] = rows[1 + n - 1]
        BY <4>1, <4>2, SubSeqProperties
      <4>4. k - 1 + 1 = k /\ \A n \in 1..k : 1 + n - 1 = n
        BY <4>1
      <4>5. Len(rows') = k /\ \A n \in 1..k : rows'[n] = rows[n]
        BY <4>1, <4>3, <4>4
      <4> USE DEF k
      <4> QED
        BY <4>3, <4>5
    <3> QED
      BY <1>4, <3>1 DEF Rows
  <2> QED
    BY <1>1, <2>1, <2>2
<1>6. ByPass'
  BY <1>2, <1>3, <1>5 DEF ByPass, UnsettledPosts
<1>7. CrossShape' /\ ByDrive'
  BY <1>1, <1>2, <1>3, <1>5, NoDriveIs DEF CrossShape, ByDrive
<1> QED
  BY <1>1, <1>2, <1>6, <1>7, NoDriveIs, BooksKept

LEMMA EnqueueKeeps ==
    ASSUME ShopInv, NEW for, EnqueuePublish(for), for => item.known /\ ~Listed,
           UNCHANGED <<reviseVars, surveyVars>>
    PROVE  ShopInv'
<1>1. /\ kind = "recipe" /\ ~PublishInFlight /\ rows' = Append(rows, Row("queued"))
      /\ UNCHANGED <<thing, drive, check>> /\ item.known /\ ~Listed
  BY DEF EnqueuePublish
<1>2. /\ CrossShape /\ ByPass /\ ByDrive
  BY DEF ShopInv, ShopShape, LaneInv
<1>3. UNCHANGED <<kind, item, posts>> /\ Listed' = Listed
  BY <1>1 DEF thing, Listed
<1>4. /\ rows' \in Seq(PublishRow) /\ Len(rows') = Len(rows) + 1 /\ Len(rows) \in Nat
      /\ \A n \in Rows : rows'[n] = rows[n]
      /\ rows'[Len(rows) + 1] = Row("queued")
  BY <1>1, <1>2, RowIs, AppendRow DEF CrossShape, Rows
<1>5. \A n \in Rows' : n \in Rows \/ n = Len(rows) + 1
  BY <1>4 DEF Rows
<1>6. \A n \in Rows : ~UnsettledPosts(rows'[n]) /\ ~(rows'[n].status = "running")
                      /\ ~(rows'[n].status = "queued")
  BY <1>1, <1>4 DEF PublishInFlight, UnsettledPosts
<1>7. ByPass'
  BY <1>1, <1>2, <1>3, <1>4, <1>5, <1>6, RowIs DEF ByPass
<1>8. CrossShape' /\ ByDrive'
  BY <1>1, <1>2, <1>3, <1>4 DEF CrossShape, ByDrive
<1> QED
  BY <1>1, <1>2, <1>7, <1>8, BooksKept

LEMMA PublishEndsKeeps ==
    ASSUME ShopInv, PublishPassEnds, UNCHANGED <<reviseVars, surveyVars>>
    PROVE  ShopInv'
<1>1. PICK n \in Rows, how \in {"done", "error"} :
        rows[n].status = "running" /\ rows' = [rows EXCEPT ![n].status = how]
  BY DEF PublishPassEnds
<1>2. /\ CrossShape /\ ByPass /\ ByDrive /\ UNCHANGED <<thing, drive, check>>
      /\ Rows = 1..Len(rows) /\ rows \in Seq(PublishRow) /\ rows[n] \in PublishRow
  BY DEF ShopInv, ShopShape, LaneInv, PublishPassEnds, CrossShape, Rows
<1>3. UNCHANGED <<kind, item, posts>> /\ Listed' = Listed
  BY <1>2 DEF thing, Listed
<1>4. kind = "recipe" /\ item.known /\ drive.at = "idle"
  BY <1>1, <1>2 DEF ByPass, ByDrive, UnsettledPosts, ShopInv, LaneInv, Unknown, Rows
<1> DEFINE r == [rows[n] EXCEPT !.status = how]
<1>5. rows' = [rows EXCEPT ![n] = r]
  BY <1>1
<1>6. r \in PublishRow /\ r.status = how /\ r.review = rows[n].review
  BY <1>2 DEF PublishRow
<1> HIDE DEF r
<1>7. /\ rows' \in Seq(PublishRow) /\ Rows' = Rows /\ rows'[n] = r
      /\ \A m \in Rows : m # n => rows'[m] = rows[m]
  BY <1>2, <1>5, <1>6, ReplaceRow DEF Rows
<1>8. ByPass'
  BY <1>1, <1>2, <1>3, <1>6, <1>7 DEF ByPass, UnsettledPosts
<1>9. CrossShape' /\ ByDrive'
  BY <1>2, <1>3, <1>4, <1>7 DEF CrossShape, ByDrive
<1> QED
  BY <1>2, <1>4, <1>8, <1>9, BooksKept

LEMMA SettleCheckKeeps ==
    ASSUME ShopInv, SettleCheck, UNCHANGED <<reviseVars, surveyVars>>
    PROVE  ShopInv'
<1> DEFINE r == [Row("error") EXCEPT !.retired = TRUE, !.reported = "closed"]
<1>1. /\ check # "no" /\ check' = "no" /\ UNCHANGED <<thing, drive>>
      /\ rows' = rows \/ rows' = Append(rows, r)
  BY DEF SettleCheck
<1>2. /\ CrossShape /\ ByPass /\ ByDrive /\ item.known /\ drive.at = "idle"
  BY <1>1 DEF ShopInv, ShopShape, LaneInv, ByDrive, Unknown
<1>3. UNCHANGED <<kind, item, posts>> /\ Listed' = Listed
  BY <1>1 DEF thing, Listed
<1>4. r \in PublishRow /\ r.status = "error" /\ ~r.review
  BY ClosedRow, Zenon
<1> HIDE DEF r
<1>5. /\ rows' \in Seq(PublishRow) /\ ByPass'
      /\ \A n \in Rows : n \in Rows' /\ rows'[n] = rows[n]
  <2>1. CASE rows' = rows
    BY <1>2, <1>3, <2>1 DEF CrossShape, ByPass, UnsettledPosts, Rows
  <2>2. CASE rows' = Append(rows, r)
    BY <1>2, <1>3, <1>4, <2>2, ErrorRow
  <2> QED
    BY <1>1, <2>1, <2>2
<1>6. CrossShape' /\ ByDrive'
  BY <1>1, <1>2, <1>3, <1>5 DEF CrossShape, ByDrive
<1> QED
  BY <1>1, <1>2, <1>5, <1>6, BooksKept

\* Rows that say the same of a pair but for their report, or that have ended.
LEMMA RowsAlike ==
    ASSUME ShopInv, rows' \in Seq(PublishRow), Len(rows') = Len(rows),
           UNCHANGED <<thing, reviseVars, surveyVars>>, CrossShape',
           \A n \in Rows : /\ rows'[n].status = rows[n].status \/ rows'[n].status = "error"
                           /\ rows'[n].unverified = rows[n].unverified
                           /\ rows'[n].review = rows[n].review,
           UNCHANGED <<drive, check>> \/ (drive' = NoDrive /\ check' = "no")
    PROVE  ShopInv'
<1>1. /\ CrossShape /\ ByPass /\ ByDrive /\ Unknown /\ Rows' = Rows
  BY DEF ShopInv, ShopShape, LaneInv, Rows
<1>2. UNCHANGED <<kind, item, posts>> /\ Listed' = Listed
  BY DEF thing, Listed
<1>3. ByPass'
  BY <1>1, <1>2 DEF ByPass, UnsettledPosts
<1>4. rows = <<>> <=> rows' = <<>>
  BY <1>1, EmptySeq DEF CrossShape
<1>5. rows # <<>> => Len(rows) \in Rows
  BY <1>1, EmptySeq DEF CrossShape, Rows
<1>6. ByDrive'
  BY <1>1, <1>2, <1>4, <1>5, NoDriveIs DEF ByDrive
<1>7. item.known \/ (rows' = <<>> /\ drive'.at = "idle" /\ check' = "no")
  BY <1>1, <1>4, NoDriveIs DEF Unknown
<1>8. kind # "recipe" /\ drive'.at \in {"filling", "ledgered"} => \A p \in Posts : ~Live(p)
  BY NoDriveIs DEF ShopInv, LaneInv, OneLive
<1> QED
  BY <1>1, <1>3, <1>6, <1>7, <1>8, BooksKept

LEMMA ReportPublishKeeps ==
    ASSUME ShopInv, ReportPublish, UNCHANGED <<reviseVars, surveyVars>>
    PROVE  ShopInv'
<1>1. PICK tells \in BOOLEAN :
        rows' = [n \in Rows |->
                     IF UnsettledPosts(rows[n]) \/ rows[n].reported # "owed" THEN rows[n]
                     ELSE [rows[n] EXCEPT !.reported = IF tells \/ rows[n].review THEN "said"
                                                       ELSE "silent"]]
  BY DEF ReportPublish
<1>2. /\ CrossShape /\ UNCHANGED <<thing, drive, check>> /\ Rows = 1..Len(rows) /\ Len(rows) \in Nat
      /\ \A n \in Rows : rows[n] \in PublishRow
  BY DEF ReportPublish, ShopInv, ShopShape, CrossShape, Rows
<1>3. ASSUME NEW r \in PublishRow, NEW x \in {"said", "silent"}
      PROVE  /\ [r EXCEPT !.reported = x] \in PublishRow
             /\ [r EXCEPT !.reported = x].status = r.status
             /\ [r EXCEPT !.reported = x].unverified = r.unverified
             /\ [r EXCEPT !.reported = x].review = r.review
  BY DEF PublishRow
<1>4. \A n \in Rows : /\ rows'[n] \in PublishRow
                      /\ rows'[n].status = rows[n].status
                      /\ rows'[n].unverified = rows[n].unverified
                      /\ rows'[n].review = rows[n].review
  <2> TAKE n \in Rows
  <2> DEFINE x == IF tells \/ rows[n].review THEN "said" ELSE "silent"
  <2>1. x \in {"said", "silent"}
    OBVIOUS
  <2>2. rows'[n] = rows[n] \/ rows'[n] = [rows[n] EXCEPT !.reported = x]
    BY <1>1
  <2> HIDE DEF x
  <2>3. rows[n] \in PublishRow
    BY <1>2
  <2>4. CASE rows'[n] = rows[n]
    BY <2>3, <2>4
  <2>5. CASE rows'[n] = [rows[n] EXCEPT !.reported = x]
    <3>1. /\ [rows[n] EXCEPT !.reported = x] \in PublishRow
          /\ [rows[n] EXCEPT !.reported = x].status = rows[n].status
          /\ [rows[n] EXCEPT !.reported = x].unverified = rows[n].unverified
          /\ [rows[n] EXCEPT !.reported = x].review = rows[n].review
      BY <1>3, <2>1, <2>3, Zenon
    <3> QED
      BY <2>5, <3>1, Zenon
  <2> QED
    BY <2>2, <2>4, <2>5
<1>5. rows' \in Seq(PublishRow) /\ Len(rows') = Len(rows)
  <2>1. \E F \in [Rows -> PublishRow] : rows' = F
    <3>1. rows' = [n \in Rows |-> rows'[n]]
      BY <1>1
    <3> QED
      BY <1>4, <3>1
  <2> QED
    BY <1>2, <2>1
<1>6. CrossShape'
  BY <1>2, <1>5 DEF CrossShape, thing
<1> QED
  BY <1>2, <1>4, <1>5, <1>6, RowsAlike

\* The marketplace's pages: one goes up, or one comes to another place.
LEMMA PostedIs ==
    ASSUME ShopShape, NEW shows \in Versions, Post(shows)
    PROVE  /\ posts' \in Seq(PostRow) /\ Len(posts') = Len(posts) + 1 /\ Len(posts) \in Nat
           /\ \A p \in Posts : posts'[p] = posts[p]
           /\ posts' # <<>> /\ ~posts'[Len(posts) + 1].hand
<1>1. PICK up \in {"up", "review"} :
        posts' = Append(posts, [up |-> up, shows |-> shows, hand |-> FALSE])
  BY DEF Post
<1> DEFINE r == [up |-> up, shows |-> shows, hand |-> FALSE]
<1>2. r \in PostRow /\ ~r.hand
  BY DEF PostRow
<1>3. posts' = Append(posts, r)
  BY <1>1
<1> HIDE DEF r
<1> QED
  BY <1>2, <1>3, AppendRow DEF ShopShape, ThingShape, Posts

LEMMA PageMoves ==
    ASSUME ShopShape, NEW p \in Posts, NEW up \in {"up", "review", "down"},
           posts' = [posts EXCEPT ![p].up = up]
    PROVE  /\ posts' \in Seq(PostRow) /\ Len(posts') = Len(posts) /\ Posts' = Posts
           /\ (posts = <<>> <=> posts' = <<>>) /\ posts'[p].up = up
           /\ \A q \in Posts : posts'[q].hand = posts[q].hand /\ posts'[q].shows = posts[q].shows
           /\ \A q \in Posts : q # p => posts'[q] = posts[q]
<1> DEFINE r == [posts[p] EXCEPT !.up = up]
<1>1. posts \in Seq(PostRow) /\ Posts = 1..Len(posts) /\ posts[p] \in PostRow
  BY DEF ShopShape, ThingShape, Posts
<1>2. posts' = [posts EXCEPT ![p] = r]
  OBVIOUS
<1>3. r \in PostRow /\ r.hand = posts[p].hand /\ r.shows = posts[p].shows /\ r.up = up
  BY <1>1 DEF PostRow
<1> HIDE DEF r
<1>4. /\ posts' \in Seq(PostRow) /\ Len(posts') = Len(posts) /\ posts'[p] = r
      /\ \A q \in Posts : q # p => posts'[q] = posts[q]
  BY <1>1, <1>2, <1>3, ReplaceRow
<1>5. posts = <<>> <=> posts' = <<>>
  BY <1>1, <1>4, EmptySeq
<1> QED
  BY <1>3, <1>4, <1>5 DEF Posts

\* The item's row comes to name a listing, or none.
LEMMA NamedIs ==
    ASSUME ShopShape, NEW p \in Nat, item' = RecordUrl(p)
    PROVE  /\ item' \in Item /\ item'.url = p /\ item'.known = item.known
           /\ item'.sold = item.sold /\ item'.rec = item.rec
  BY DEF RecordUrl, ShopShape, ThingShape, Item

LEMMA ClickKeeps ==
    ASSUME ShopInv, Click, UNCHANGED <<reviseVars, surveyVars>>
    PROVE  ShopInv'
<1>1. /\ drive.at = "ledgered" /\ UNCHANGED <<kind, item, want, rows, check>> /\ Listed' = Listed
      /\ Rows' = Rows
  BY DEF Click, Listed, Rows
<1>2. /\ ShopShape /\ LaneInv /\ item.known /\ kind # "recipe" /\ ~Listed /\ check = "no"
      /\ rows # <<>> /\ rows[Len(rows)].unverified /\ \A p \in Posts : ~Live(p)
      /\ Len(posts) \in Nat /\ Len(rows) \in Nat /\ posts \in Seq(PostRow) /\ drive.shows \in Versions
  BY <1>1 DEF ShopInv, ShopShape, ThingShape, CrossShape, LaneInv, ByDrive, Unknown, OneLive
<1>3. CASE Post(drive.shows) /\ drive' = [drive EXCEPT !.at = "clicked", !.post = Len(posts) + 1]
  <2>1. /\ posts' \in Seq(PostRow) /\ Len(posts') = Len(posts) + 1
        /\ \A p \in Posts : posts'[p] = posts[p]
        /\ posts' # <<>> /\ ~posts'[Len(posts) + 1].hand
    BY <1>2, <1>3, PostedIs
  <2>2. /\ drive' \in [at : {"idle", "filling", "ledgered", "clicked"}, shows : Versions, post : Nat]
        /\ drive'.at = "clicked" /\ drive'.post = Len(posts) + 1
    <3> DEFINE d == [drive EXCEPT !.at = "clicked"]
    <3>1. /\ d \in [at : {"idle", "filling", "ledgered", "clicked"}, shows : Versions, post : Nat]
          /\ d.at = "clicked"
      BY <1>2 DEF ShopShape, CrossShape
    <3>2. drive' = [d EXCEPT !.post = Len(posts) + 1]
      BY <1>3, Zenon
    <3> HIDE DEF d
    <3> QED
      BY <1>2, <3>1, <3>2
  <2>3. ThingShape' /\ CrossShape'
    <3>1. ThingShape'
      BY <1>1, <1>2, <2>1 DEF ShopShape, ThingShape, Item
    <3>2. CrossShape'
      BY <1>1, <1>2, <2>1, <2>2 DEF ShopShape, CrossShape
    <3> QED
      BY <3>1, <3>2
  <2>4. \A p \in Posts' : p \in Posts \/ p = Len(posts) + 1
    BY <1>2, <2>1 DEF Posts
  <2>5. UNCHANGED <<survey, disc, adopt>>
    BY DEF surveyVars
  <2>6. Unknown' /\ ByHand'
    BY <1>1, <1>2, <2>1, <2>4, <2>5 DEF Unknown, ByHand, LaneInv
  <2>7. ByPass' /\ ByDrive'
    BY <1>1, <1>2, <2>2 DEF ByPass, ByDrive, LaneInv, UnsettledPosts
  <2>8. Found'
    BY <1>1, <1>2, <2>1, <2>4, <2>5 DEF Found, LaneInv
  <2>9. OneLive'
    <3>1. \A p \in Posts' : Live(p)' => p = Len(posts) + 1
      BY <1>2, <2>1, <2>4 DEF Live
    <3>2. disc'.st # "none" => posts'[Hand].hand
      <4> SUFFICES ASSUME disc.st # "none" PROVE posts'[Hand].hand
        BY <2>5
      <4>1. posts # <<>> /\ posts[Hand].hand
        BY <1>2 DEF LaneInv, OneLive
      <4>2. Hand \in Posts
        BY <1>2, <4>1, EmptySeq DEF Hand, Posts
      <4> QED
        BY <2>1, <4>1, <4>2
    <3>3. Len(rows) \in Rows
      BY <1>2, EmptySeq DEF Rows, ShopShape, CrossShape
    <3> QED
      BY <1>1, <1>2, <2>1, <2>2, <3>1, <3>2, <3>3 DEF OneLive
  <2> QED
    BY <1>1, <1>2, <2>1, <2>3, <2>6, <2>7, <2>8, <2>9, CrossKeeps DEF LaneInv
<1>4. CASE UNCHANGED posts /\ drive' = [drive EXCEPT !.at = "clicked"]
  <2>1. /\ drive' \in [at : {"idle", "filling", "ledgered", "clicked"}, shows : Versions, post : Nat]
        /\ drive'.at = "clicked" /\ drive'.post = drive.post
    BY <1>2, <1>4 DEF ShopShape, CrossShape
  <2>2. CrossShape' /\ ByPass' /\ ByDrive'
    BY <1>1, <1>2, <1>4, <2>1 DEF ShopShape, CrossShape, ByPass, ByDrive, LaneInv, UnsettledPosts
  <2> QED
    BY <1>1, <1>2, <1>4, <2>1, <2>2, BooksKept DEF thing
<1> QED
  BY <1>3, <1>4 DEF Click

LEMMA SettledRow ==
    ASSUME NEW o \in PublishRow, ~UnsettledPosts(o), NEW how
    PROVE  /\ Settled(o, how) \in PublishRow /\ ~UnsettledPosts(Settled(o, how))
           /\ how # "verified" => Settled(o, how).unverified
<1> DEFINE st == IF how = "verified" THEN "done" ELSE o.status
           r1 == [o EXCEPT !.status = st]
           r2 == [r1 EXCEPT !.unverified = how # "verified"]
           r == [r2 EXCEPT !.review = how = "review"]
<1>1. Settled(o, how) = r
  BY Zenon DEF Settled
<1>2. st \in {"queued", "running", "done", "error"} /\ st \notin {"queued", "running"}
  BY DEF PublishRow, UnsettledPosts
<1> HIDE DEF st
<1>3. r1 \in PublishRow /\ ~UnsettledPosts(r1)
  BY <1>2 DEF PublishRow, UnsettledPosts
<1> HIDE DEF r1
<1>4. r2 \in PublishRow /\ r2.status = r1.status /\ (how # "verified" => r2.unverified)
  BY <1>3 DEF PublishRow
<1> HIDE DEF r2
<1>5. r \in PublishRow /\ r.status = r2.status /\ r.unverified = r2.unverified
  BY <1>4 DEF PublishRow
<1> HIDE DEF r
<1> QED
  BY <1>1, <1>3, <1>4, <1>5 DEF UnsettledPosts

LEMMA SettleKeepsAll ==
    ASSUME ShopInv, NEW how \in {"verified", "review", "unknown"}, Settle(how),
           UNCHANGED <<reviseVars, surveyVars>>
    PROVE  ShopInv'
<1>1. /\ drive.at = "clicked" /\ UNCHANGED <<kind, posts, want, check>> /\ drive' = NoDrive
      /\ how = "verified" => drive.post # 0 /\ posts[drive.post].up = "up"
  BY DEF Settle
<1>2. /\ ShopShape /\ LaneInv /\ item.known /\ kind # "recipe" /\ ~Listed /\ check = "no"
      /\ rows # <<>> /\ rows \in Seq(PublishRow) /\ Len(posts) \in Nat
      /\ drive.post \in Nat /\ drive.post <= Len(posts) /\ posts \in Seq(PostRow)
  BY <1>1 DEF ShopInv, ShopShape, ThingShape, CrossShape, LaneInv, ByDrive, Unknown
<1>3. Len(rows) \in Rows /\ Rows = 1..Len(rows) /\ rows[Len(rows)] \in PublishRow
  BY <1>2, EmptySeq DEF Rows
<1>4. \A n \in Rows : ~UnsettledPosts(rows[n])
  BY <1>2 DEF LaneInv, ByPass
<1> DEFINE r == Settled(rows[Len(rows)], how)
<1>5. rows' = [rows EXCEPT ![Len(rows)] = r]
  BY Zenon DEF Settle
<1>6. r \in PublishRow /\ ~UnsettledPosts(r) /\ (how # "verified" => r.unverified)
  BY <1>3, <1>4, SettledRow
<1> HIDE DEF r
<1>7. /\ rows' \in Seq(PublishRow) /\ Rows' = Rows /\ rows'[Len(rows)] = r
      /\ \A n \in Rows : n # Len(rows) => rows'[n] = rows[n]
  BY <1>2, <1>3, <1>5, <1>6, ReplaceRow DEF Rows
<1>8. \A n \in Rows : ~UnsettledPosts(rows'[n])
  BY <1>4, <1>6, <1>7
<1>9. CrossShape'
  BY <1>1, <1>2, <1>7, NoDriveIs DEF ShopShape, CrossShape
<1>10. CASE how = "verified"
  <2>1. /\ item' \in Item /\ item'.url = drive.post /\ item'.known = item.known
        /\ item'.sold = item.sold /\ item'.rec = item.rec
    BY <1>2, <1>10, NamedIs DEF Settle
  <2>2. Listed' /\ drive.post \in Posts /\ Live(drive.post)
    BY <1>1, <1>2, <1>10, <2>1 DEF Listed, NoUrl, Posts, Live
  <2>3. ThingShape'
    BY <1>1, <1>2, <2>1 DEF ShopShape, ThingShape
  <2>4. UNCHANGED <<survey, disc, adopt>> /\ Posts' = Posts /\ \A p \in Posts : Live(p)' <=> Live(p)
    BY <1>1 DEF surveyVars, Posts, Live
  <2>5. Unknown' /\ ByHand'
    BY <1>1, <1>2, <2>1, <2>4 DEF Unknown, ByHand, LaneInv
  <2>6. ByPass' /\ ByDrive'
    BY <1>1, <1>2, <1>7, <1>8, NoDriveIs DEF ByPass, ByDrive, UnsettledPosts
  <2>7. Found'
    BY <1>1, <1>2, <2>2, <2>4 DEF Found, LaneInv
  <2>8. OneLive'
    BY <1>1, <1>2, <2>1, <2>2, <2>4, NoDriveIs DEF OneLive, LaneInv
  <2>9. LaneInv'
    BY <2>5, <2>6, <2>7, <2>8 DEF LaneInv
  <2> QED
    BY <1>1, <1>2, <1>9, <2>3, <2>9, CrossKeeps
<1>11. CASE how # "verified"
  <2>1. item' = item /\ Listed' = Listed
    BY <1>11 DEF Settle, Listed
  <2>2. ByPass' /\ ByDrive'
    BY <1>1, <1>2, <1>7, <1>8, NoDriveIs DEF ByPass, ByDrive, UnsettledPosts
  <2>3. \A n \in Rows : rows[n].unverified => n \in Rows' /\ rows'[n].unverified
    BY <1>6, <1>7, <1>11
  <2> QED
    BY <1>1, <1>2, <1>9, <2>1, <2>2, <2>3, NoDriveIs, BooksKept DEF thing
<1> QED
  BY <1>10, <1>11

LEMMA LinkReviewedKeeps ==
    ASSUME ShopInv, NEW n \in Rows, LinkReviewed(n), UNCHANGED <<reviseVars, surveyVars>>
    PROVE  ShopInv'
<1>1. /\ rows[n].review /\ drive.at = "idle" /\ UNCHANGED <<kind, posts, want, drive, check>>
  BY DEF LinkReviewed
<1>2. /\ ShopShape /\ LaneInv /\ kind # "recipe" /\ rows # <<>> /\ item.known
      /\ rows \in Seq(PublishRow) /\ Rows = 1..Len(rows) /\ rows[n] \in PublishRow
      /\ Len(posts) \in Nat /\ posts \in Seq(PostRow)
  <2>1. kind # "recipe" /\ ShopShape /\ LaneInv
    BY <1>1 DEF ShopInv, LaneInv, ByPass
  <2>2. rows \in Seq(PublishRow) /\ Rows = 1..Len(rows) /\ rows[n] \in PublishRow
        /\ Len(posts) \in Nat /\ posts \in Seq(PostRow)
    BY <2>1 DEF ShopShape, ThingShape, CrossShape, Rows
  <2>3. rows # <<>>
    BY <2>2, EmptySeq
  <2> QED
    BY <2>1, <2>2, <2>3 DEF LaneInv, Unknown
<1>3. PICK p \in Posts : /\ \A q \in Posts : posts[q].up = "up" <=> q = p
                         /\ item' = RecordUrl(p)
  BY DEF LinkReviewed
<1>4. p \in Nat /\ p <= Len(posts) /\ p # 0 /\ Live(p)
  BY <1>2, <1>3 DEF Posts, Live
<1>5. /\ item' \in Item /\ item'.url = p /\ item'.known = item.known
      /\ item'.sold = item.sold /\ item'.rec = item.rec
  BY <1>2, <1>3, <1>4, NamedIs
<1>6. Listed => item.url = p
  BY <1>2, <1>4 DEF LaneInv, OneLive
<1> DEFINE r1 == [rows[n] EXCEPT !.status = "done"]
           r2 == [r1 EXCEPT !.unverified = FALSE]
           r3 == [r2 EXCEPT !.review = FALSE]
           r == [r3 EXCEPT !.reported = "owed"]
<1>7. rows' = [rows EXCEPT ![n] = r]
  <2>1. rows' = [rows EXCEPT ![n] = [@ EXCEPT !.status = "done", !.unverified = FALSE,
                                             !.review = FALSE, !.reported = "owed"]]
    BY DEF LinkReviewed
  <2> QED
    BY <2>1, Zenon
<1>8. r \in PublishRow /\ ~UnsettledPosts(r)
  <2>1. r1 \in PublishRow /\ r1.status = "done"
    BY <1>2 DEF PublishRow
  <2> HIDE DEF r1
  <2>2. r2 \in PublishRow /\ r2.status = "done"
    BY <2>1 DEF PublishRow
  <2> HIDE DEF r2
  <2>3. r3 \in PublishRow /\ r3.status = "done"
    BY <2>2 DEF PublishRow
  <2> HIDE DEF r3
  <2>4. r \in PublishRow /\ r.status = "done"
    BY <2>3 DEF PublishRow
  <2> QED
    BY <2>4 DEF UnsettledPosts
<1> HIDE DEF r
<1>9. /\ rows' \in Seq(PublishRow) /\ Rows' = Rows /\ rows'[n] = r
      /\ \A m \in Rows : m # n => rows'[m] = rows[m]
  BY <1>2, <1>7, <1>8, ReplaceRow DEF Rows
<1>10. \A m \in Rows : ~UnsettledPosts(rows'[m])
  BY <1>2, <1>8, <1>9 DEF LaneInv, ByPass
<1>11. ThingShape' /\ CrossShape'
  BY <1>1, <1>2, <1>4, <1>5, <1>9 DEF ShopShape, ThingShape, CrossShape
<1>12. /\ UNCHANGED <<survey, disc, adopt>> /\ Posts' = Posts /\ Listed'
       /\ \A q \in Posts : Live(q)' <=> Live(q)
  BY <1>1, <1>4, <1>5 DEF surveyVars, Posts, Live, Listed, NoUrl
<1>13. Unknown' /\ ByHand'
  BY <1>1, <1>2, <1>5, <1>12 DEF Unknown, ByHand, LaneInv
<1>14. ByPass' /\ ByDrive'
  BY <1>1, <1>2, <1>9, <1>10 DEF ByPass, ByDrive, UnsettledPosts
<1>15. Found'
  BY <1>1, <1>2, <1>12 DEF Found, LaneInv
<1>16. OneLive'
  BY <1>1, <1>2, <1>3, <1>4, <1>5, <1>12 DEF OneLive, LaneInv
<1>17. LaneInv'
  BY <1>13, <1>14, <1>15, <1>16 DEF LaneInv
<1> QED
  BY <1>1, <1>2, <1>5, <1>6, <1>11, <1>17, CrossKeeps

LEMMA PassPostsKeeps ==
    ASSUME ShopInv, PassPosts, UNCHANGED <<reviseVars, surveyVars>>
    PROVE  ShopInv'
<1>1. PICK n \in Rows : rows[n].status = "queued" /\ rows' = [rows EXCEPT ![n].status = "running"]
  BY DEF PassPosts
<1>2. /\ UNCHANGED <<kind, item, want, drive, check>> /\ Listed' = Listed
      /\ ShopShape /\ LaneInv
  BY DEF PassPosts, ShopInv, Listed
<1>3. /\ rows \in Seq(PublishRow) /\ Rows = 1..Len(rows) /\ rows[n] \in PublishRow
      /\ posts \in Seq(PostRow) /\ Len(posts) \in Nat /\ item.rec \in Versions
      /\ drive.post \in Nat /\ item.url \in Nat
  BY <1>2 DEF ShopShape, ThingShape, CrossShape, Rows, Item
<1>4. kind = "recipe" /\ ~Listed /\ rows # <<>>
  <2>1. rows # <<>>
    BY <1>3, EmptySeq
  <2> QED
    BY <1>1, <1>2, <2>1 DEF LaneInv, ByPass, UnsettledPosts
<1>5. item.known /\ drive.at = "idle"
  BY <1>2, <1>4 DEF LaneInv, Unknown, ByDrive
<1> DEFINE r == [rows[n] EXCEPT !.status = "running"]
<1>6. rows' = [rows EXCEPT ![n] = r]
  BY <1>1
<1>7. r \in PublishRow /\ r.status = "running" /\ r.review = rows[n].review
  BY <1>3 DEF PublishRow
<1> HIDE DEF r
<1>8. /\ rows' \in Seq(PublishRow) /\ Rows' = Rows /\ rows'[n] = r
      /\ \A m \in Rows : m # n => rows'[m] = rows[m]
  BY <1>3, <1>6, <1>7, ReplaceRow DEF Rows
<1>9. \A m \in Rows : /\ UnsettledPosts(rows'[m]) => UnsettledPosts(rows[m])
                      /\ rows'[m].review = rows[m].review
  BY <1>1, <1>7, <1>8 DEF UnsettledPosts
<1>10. ByPass' /\ ByDrive'
  BY <1>2, <1>4, <1>5, <1>8, <1>9 DEF LaneInv, ByPass, ByDrive
<1>11. CASE UNCHANGED posts
  <2>1. CrossShape'
    BY <1>2, <1>8, <1>11 DEF ShopShape, CrossShape
  <2> QED
    BY <1>2, <1>4, <1>5, <1>10, <1>11, <2>1, BooksKept DEF thing
<1>12. CASE Post(item.rec)
  <2>1. /\ posts' \in Seq(PostRow) /\ Len(posts') = Len(posts) + 1
        /\ \A p \in Posts : posts'[p] = posts[p]
        /\ posts' # <<>> /\ ~posts'[Len(posts) + 1].hand
    BY <1>2, <1>3, <1>12, PostedIs
  <2>2. \A p \in Posts' : p \in Posts \/ p = Len(posts) + 1
    BY <1>3, <2>1 DEF Posts
  <2>3. ThingShape'
    BY <1>2, <1>3, <2>1 DEF ShopShape, ThingShape
  <2>4. CrossShape'
    BY <1>2, <1>3, <1>8, <2>1 DEF ShopShape, CrossShape
  <2>5. UNCHANGED <<survey, disc, adopt>>
    BY DEF surveyVars
  <2>6. Unknown' /\ ByHand'
    BY <1>2, <1>5, <2>1, <2>2, <2>5 DEF LaneInv, Unknown, ByHand
  <2>7. Found' /\ OneLive'
    BY <1>2, <1>4, <2>1, <2>2, <2>5 DEF LaneInv, Found, OneLive
  <2>8. LaneInv'
    BY <1>10, <2>6, <2>7 DEF LaneInv
  <2> QED
    BY <1>2, <1>3, <1>4, <2>1, <2>3, <2>4, <2>8, CrossKeeps
<1> QED
  BY <1>11, <1>12 DEF PassPosts

LEMMA PassRecordsKeeps ==
    ASSUME ShopInv, PassRecords, UNCHANGED <<reviseVars, surveyVars>>
    PROVE  ShopInv'
<1>1. PICK n \in Rows : rows[n].status = "running"
  BY DEF PassRecords
<1>2. /\ UNCHANGED <<kind, posts, want, rows, drive, check>> /\ item' = RecordUrl(Len(posts))
      /\ posts # <<>> /\ item.url # Len(posts) /\ ShopShape /\ LaneInv
  BY DEF PassRecords, ShopInv, crossVars
<1>3. /\ rows \in Seq(PublishRow) /\ Rows = 1..Len(rows)
      /\ posts \in Seq(PostRow) /\ Len(posts) \in Nat /\ Len(posts) # 0
  BY <1>2, EmptySeq DEF ShopShape, ThingShape, CrossShape, Rows
<1>4. kind = "recipe" /\ ~Listed /\ rows # <<>>
  <2>1. rows # <<>>
    BY <1>3, EmptySeq
  <2> QED
    BY <1>1, <1>2, <2>1 DEF LaneInv, ByPass, UnsettledPosts
<1>5. item.known /\ drive.at = "idle"
  BY <1>2, <1>4 DEF LaneInv, Unknown, ByDrive
<1>6. /\ item' \in Item /\ item'.url = Len(posts) /\ item'.known = item.known
      /\ item'.sold = item.sold /\ item'.rec = item.rec
  BY <1>2, <1>3, NamedIs
<1>7. ThingShape' /\ CrossShape'
  BY <1>2, <1>3, <1>6 DEF ShopShape, ThingShape, CrossShape
<1>8. UNCHANGED <<survey, disc, adopt>> /\ Posts' = Posts /\ Rows' = Rows
      /\ Listed' /\ \A p \in Posts : Live(p)' <=> Live(p)
  BY <1>2, <1>3, <1>6 DEF surveyVars, Posts, Rows, Listed, NoUrl, Live
<1>9. Unknown' /\ ByHand' /\ Found' /\ OneLive' /\ ByDrive'
  BY <1>2, <1>4, <1>5, <1>6, <1>8 DEF LaneInv, Unknown, ByHand, Found, OneLive, ByDrive
<1>10. ByPass'
  <2>1. \A m \in Rows : rows[m].status # "queued"
    BY <1>1, <1>2 DEF LaneInv, ByPass, UnsettledPosts
  <2> QED
    BY <1>2, <1>4, <1>6, <1>8, <2>1 DEF LaneInv, ByPass, UnsettledPosts
<1>11. LaneInv'
  BY <1>9, <1>10 DEF LaneInv
<1> QED
  BY <1>2, <1>3, <1>4, <1>7, <1>11, CrossKeeps

LEMMA CheckPostKeeps ==
    ASSUME ShopInv, CheckPost, UNCHANGED <<reviseVars, surveyVars>>
    PROVE  ShopInv'
<1>1. /\ UNCHANGED <<kind, posts, rows, drive>> /\ kind = "craigslist" /\ Listed
      /\ posts[item.url].up = "down" /\ check' \in {"no", "flagged", "expired"}
      /\ item' = [item EXCEPT !.url = NoUrl] /\ want' = [f \in Fields |-> 0]
      /\ ShopShape /\ LaneInv
  BY DEF CheckPost, Archive, ShopInv
<1>2. /\ item' \in Item /\ item'.url = NoUrl /\ item'.known = item.known
      /\ item'.sold = item.sold /\ item'.rec = item.rec
  BY <1>1 DEF ShopShape, ThingShape, Item, NoUrl
<1>3. /\ item.known /\ drive.at = "idle" /\ Len(posts) \in Nat
  BY <1>1 DEF LaneInv, Unknown, ByDrive, ShopShape, ThingShape
<1>4. UNCHANGED <<survey, disc, adopt>> /\ Posts' = Posts /\ Rows' = Rows
      /\ ~Listed' /\ \A p \in Posts : Live(p)' <=> Live(p)
  BY <1>1, <1>2 DEF surveyVars, Posts, Rows, Listed, Live
<1>5. \A p \in Posts : ~Live(p)
  BY <1>1 DEF LaneInv, OneLive, Live
<1>6. ThingShape' /\ CrossShape'
  <2>1. want' \in Versions
    BY <1>1 DEF Versions
  <2>2. ThingShape'
    BY <1>1, <1>2, <1>3, <2>1 DEF ShopShape, ThingShape, NoUrl
  <2> QED
    BY <1>1, <2>2 DEF ShopShape, CrossShape
<1>7. Unknown' /\ ByHand' /\ Found' /\ ByDrive'
  BY <1>1, <1>2, <1>3, <1>4 DEF LaneInv, Unknown, ByHand, Found, ByDrive
<1>8. ByPass' /\ OneLive'
  BY <1>1, <1>2, <1>4, <1>5 DEF LaneInv, ByPass, OneLive, UnsettledPosts
<1>9. LaneInv'
  BY <1>7, <1>8 DEF LaneInv
<1> QED
  BY <1>1, <1>2, <1>3, <1>6, <1>9, CrossKeeps

\* A listing comes into sight, or goes: what is in sight or in review does not grow.
LEMMA MarketKeeps ==
    ASSUME ShopInv, NEW p \in Posts, Clears(p) \/ TakenDown(p), UNCHANGED <<reviseVars, surveyVars>>
    PROVE  ShopInv'
<1>1. /\ UNCHANGED <<kind, item, want, rows, drive, check>> /\ ShopShape /\ LaneInv
  BY DEF Clears, TakenDown, ShopInv, crossVars
<1>2. PICK up \in {"up", "down"} : posts' = [posts EXCEPT ![p].up = up]
  BY DEF Clears, TakenDown
<1>3. Live(p)
  BY DEF Clears, TakenDown, Live
<1>4. ~posts[p].hand
  BY <1>1 DEF Clears, TakenDown, LaneInv, ByHand
<1>5. /\ posts' \in Seq(PostRow) /\ Len(posts') = Len(posts) /\ Posts' = Posts
      /\ (posts = <<>> <=> posts' = <<>>) /\ posts'[p].up = up
      /\ \A q \in Posts : posts'[q].hand = posts[q].hand /\ posts'[q].shows = posts[q].shows
      /\ \A q \in Posts : q # p => posts'[q] = posts[q]
  BY <1>1, <1>2, PageMoves
<1>6. Len(posts) \in Nat /\ posts \in Seq(PostRow)
  BY <1>1 DEF ShopShape, ThingShape
<1>7. \A q \in Posts : /\ Live(q)' => Live(q)
                       /\ posts[q].hand => posts'[q].up = posts[q].up
  BY <1>3, <1>4, <1>5 DEF Live
<1>8. UNCHANGED <<survey, disc, adopt>> /\ Rows' = Rows /\ Listed' = Listed
  BY <1>1 DEF surveyVars, Rows, Listed
<1>9. ThingShape' /\ CrossShape'
  BY <1>1, <1>5 DEF ShopShape, ThingShape, CrossShape
<1>10. Unknown' /\ ByHand' /\ Found' /\ ByDrive'
  BY <1>1, <1>5, <1>7, <1>8 DEF LaneInv, Unknown, ByHand, Found, ByDrive
<1>11. ByPass'
  BY <1>1, <1>5, <1>8 DEF LaneInv, ByPass, UnsettledPosts
<1>12. OneLive'
  <2>1. posts # <<>> => Hand \in Posts
    BY <1>6, EmptySeq DEF Posts, Hand
  <2> QED
    BY <1>1, <1>5, <1>7, <1>8, <2>1 DEF LaneInv, OneLive
<1>13. LaneInv'
  BY <1>10, <1>11, <1>12 DEF LaneInv
<1> QED
  BY <1>1, <1>5, <1>6, <1>9, <1>13, CrossKeeps

LEMMA CrossStepKeeps ==
    ASSUME ShopInv, CrossStep, UNCHANGED <<reviseVars, surveyVars>>
    PROVE  ShopInv'
<1>1. ASSUME NEW looked, NEW there, EnqueuePublish(Wanted(looked, there)) PROVE ShopInv'
  BY <1>1, EnqueueKeeps DEF Wanted
<1>2. ASSUME NEW looked, NEW there, EnqueuePublish(Asked(looked, there)) PROVE ShopInv'
  BY <1>2, EnqueueKeeps DEF Asked
<1>3. ASSUME NEW how \in {"verified", "review", "unknown"}, Settle(how) PROVE ShopInv'
  BY <1>3, SettleKeepsAll
<1>4. ASSUME NEW n \in Rows, LinkReviewed(n) PROVE ShopInv'
  BY <1>4, LinkReviewedKeeps
<1>5. ASSUME NEW p \in Posts, Clears(p) \/ TakenDown(p) PROVE ShopInv'
  BY <1>5, MarketKeeps
<1>6. ASSUME \/ StartDrive(Looked, There) \/ BeforeCommit \/ ClickRefused \/ PublishPassEnds
             \/ SettleCheck \/ ReportPublish \/ HandedBack \/ NotAttempted
      PROVE  ShopInv'
  BY <1>6, StartDriveKeeps, BeforeCommitKeeps, ClickRefusedKeeps, PublishEndsKeeps,
     SettleCheckKeeps, ReportPublishKeeps, HandedBackKeeps
<1>7. ASSUME Click \/ PassPosts \/ PassRecords \/ CheckPost PROVE ShopInv'
  BY <1>7, ClickKeeps, PassPostsKeeps, PassRecordsKeeps, CheckPostKeeps
<1> QED
  BY <1>1, <1>2, <1>3, <1>4, <1>5, <1>6, <1>7 DEF CrossStep

-----------------------------------------------------------------------------
(* The look, the ask and the adoption.                                     *)

\* A step of the survey that leaves the thing alone.
LEMMA AskKept ==
    ASSUME ShopInv, UNCHANGED <<thing, crossVars, reviseVars>>, SurveyShape',
           disc'.st # "none" => disc.st # "none",
           survey'.state = "done" => survey.state = "done" /\ (disc.st # "none" => disc'.st # "none"),
           adopt'.at = "reading" => adopt.at = "reading" \/ ~item.known
    PROVE  ShopInv'
<1>1. /\ UNCHANGED <<kind, item, posts, want, rows, drive, check, revs, call, edit, failed>>
      /\ Posts' = Posts /\ Listed' = Listed /\ Rows' = Rows /\ ShopShape /\ LaneInv
  BY DEF ShopInv, thing, crossVars, reviseVars, Posts, Listed, Rows
<1>2. \A p \in Posts : Live(p)' <=> Live(p)
  BY <1>1 DEF Live
<1>3. ThingShape' /\ CrossShape' /\ EditShape'
  BY <1>1 DEF ShopShape, ThingShape, CrossShape, EditShape
<1>4. Unknown' /\ ByHand' /\ Found'
  BY <1>1 DEF LaneInv, Unknown, ByHand, Found
<1>5. ByPass' /\ ByDrive'
  BY <1>1 DEF LaneInv, ByPass, ByDrive, UnsettledPosts
<1>6. OneLive'
  BY <1>1, <1>2 DEF LaneInv, OneLive
<1>7. Len(posts') = Len(posts) /\ Len(posts) \in Nat /\ posts' \in Seq(PostRow)
  BY <1>1 DEF ShopShape, ThingShape
<1>8. EditInv'
  BY <1>1, <1>7, EditsKept DEF ShopInv
<1> QED
  BY <1>3, <1>4, <1>5, <1>6, <1>8 DEF ShopInv, ShopShape, LaneInv

\* One field of the row comes to another value.
LEMMA DiscSt ==
    ASSUME NEW d \in Disc, NEW st \in Answers
    PROVE  [d EXCEPT !.st = st] \in Disc /\ [d EXCEPT !.st = st].st = st
  BY DEF Disc

LEMMA DiscRail ==
    ASSUME NEW d \in Disc, NEW rail \in Owings
    PROVE  [d EXCEPT !.rail = rail] \in Disc /\ [d EXCEPT !.rail = rail].st = d.st
  BY DEF Disc

LEMMA DiscTries ==
    ASSUME NEW d \in Disc, NEW n \in Nat
    PROVE  [d EXCEPT !.tries = n] \in Disc /\ [d EXCEPT !.tries = n].st = d.st
  BY DEF Disc

LEMMA DiscRelist ==
    ASSUME NEW d \in Disc, NEW b \in BOOLEAN
    PROVE  [d EXCEPT !.relist = b] \in Disc /\ [d EXCEPT !.relist = b].st = d.st
  BY DEF Disc

LEMMA DiscRailTries ==
    ASSUME NEW d \in Disc, NEW n \in Nat
    PROVE  [d EXCEPT !.railTries = n] \in Disc /\ [d EXCEPT !.railTries = n].st = d.st
  BY DEF Disc

\* Two do.
LEMMA DiscAnswers ==
    ASSUME NEW d \in Disc, NEW st \in Answers, NEW b \in BOOLEAN
    PROVE  /\ [d EXCEPT !.st = st, !.relist = b] \in Disc
           /\ [d EXCEPT !.st = st, !.relist = b].st = st
<1> DEFINE s == [d EXCEPT !.st = st]
<1>1. [d EXCEPT !.st = st, !.relist = b] = [s EXCEPT !.relist = b]
  BY Zenon
<1>2. s \in Disc /\ s.st = st
  BY DiscSt
<1>3. b \in BOOLEAN
  BY DEF Disc
<1> HIDE DEF s
<1>4. [s EXCEPT !.relist = b] \in Disc /\ [s EXCEPT !.relist = b].st = s.st
  BY <1>2, <1>3, DiscRelist
<1> QED
  BY <1>1, <1>2, <1>4, Zenon

LEMMA DiscAdopted ==
    ASSUME NEW d \in Disc, NEW st \in Answers, NEW rail \in Owings
    PROVE  /\ [d EXCEPT !.st = st, !.rail = rail] \in Disc
           /\ [d EXCEPT !.st = st, !.rail = rail].st = st
<1> DEFINE s == [d EXCEPT !.st = st]
<1>1. [d EXCEPT !.st = st, !.rail = rail] = [s EXCEPT !.rail = rail]
  BY Zenon
<1>2. s \in Disc /\ s.st = st
  BY DiscSt
<1>3. rail \in Owings
  BY DEF Disc
<1> HIDE DEF s
<1>4. [s EXCEPT !.rail = rail] \in Disc /\ [s EXCEPT !.rail = rail].st = s.st
  BY <1>2, <1>3, DiscRail
<1> QED
  BY <1>1, <1>2, <1>4, Zenon

LEMMA DiscFails ==
    ASSUME NEW d \in Disc, NEW st \in Answers
    PROVE  /\ [d EXCEPT !.st = st, !.tries = @ + 1] \in Disc
           /\ [d EXCEPT !.st = st, !.tries = @ + 1].st = st
<1> DEFINE s == [d EXCEPT !.st = st]
<1>1. [d EXCEPT !.st = st, !.tries = @ + 1] = [s EXCEPT !.tries = (d.tries + 1)]
  BY Zenon
<1>2. s \in Disc /\ s.st = st
  BY DiscSt
<1>3. (d.tries + 1) \in Nat
  BY DEF Disc
<1> HIDE DEF s
<1>4. [s EXCEPT !.tries = (d.tries + 1)] \in Disc /\ [s EXCEPT !.tries = (d.tries + 1)].st = s.st
  BY <1>2, <1>3, DiscTries
<1> QED
  BY <1>1, <1>2, <1>4, Zenon

LEMMA DiscOwes ==
    ASSUME NEW d \in Disc, NEW rail \in Owings, NEW n \in Nat
    PROVE  /\ [d EXCEPT !.rail = rail, !.railTries = n] \in Disc
           /\ [d EXCEPT !.rail = rail, !.railTries = n].st = d.st
<1> DEFINE s == [d EXCEPT !.rail = rail]
<1>1. [d EXCEPT !.rail = rail, !.railTries = n] = [s EXCEPT !.railTries = n]
  BY Zenon
<1>2. s \in Disc /\ s.st = d.st
  BY DiscRail
<1>3. n \in Nat
  BY DEF Disc
<1> HIDE DEF s
<1>4. [s EXCEPT !.railTries = n] \in Disc /\ [s EXCEPT !.railTries = n].st = s.st
  BY <1>2, <1>3, DiscRailTries
<1> QED
  BY <1>1, <1>2, <1>4, Zenon

LEMMA DiscQueued ==
    ASSUME NEW d \in Disc, NEW rail \in Owings
    PROVE  /\ [d EXCEPT !.rail = rail, !.railTries = @ + 1] \in Disc
           /\ [d EXCEPT !.rail = rail, !.railTries = @ + 1].st = d.st
<1> DEFINE s == [d EXCEPT !.rail = rail]
<1>1. [d EXCEPT !.rail = rail, !.railTries = @ + 1] = [s EXCEPT !.railTries = (d.railTries + 1)]
  BY Zenon
<1>2. s \in Disc /\ s.st = d.st
  BY DiscRail
<1>3. (d.railTries + 1) \in Nat
  BY DEF Disc
<1> HIDE DEF s
<1>4. [s EXCEPT !.railTries = (d.railTries + 1)] \in Disc /\ [s EXCEPT !.railTries = (d.railTries + 1)].st = s.st
  BY <1>2, <1>3, DiscRailTries
<1> QED
  BY <1>1, <1>2, <1>4, Zenon

LEMMA AdoptedIs ==
    ASSUME disc \in Disc, NEW owed,
           disc' = [disc EXCEPT !.st = "adopted", !.rail = IF owed THEN "owed" ELSE "none"]
    PROVE  disc' \in Disc /\ disc'.st = "adopted"
<1> DEFINE rail == IF owed THEN "owed" ELSE "none"
<1>1. rail \in Owings /\ "adopted" \in Answers
  BY DEF Owings, Answers
<1> HIDE DEF rail
<1>2. /\ [disc EXCEPT !.st = "adopted", !.rail = rail] \in Disc
      /\ [disc EXCEPT !.st = "adopted", !.rail = rail].st = "adopted"
  BY <1>1, DiscAdopted
<1> QED
  BY <1>2 DEF rail

LEMMA NoDiscIs == NoDisc \in Disc /\ NoDisc.st = "none"
  BY DEF NoDisc, Disc, Answers, Owings

\* The ask, its answers, and what becomes of it while nothing is taken over.
LEMMA AskKeeps ==
    ASSUME ShopInv, UNCHANGED <<crossVars, reviseVars>>,
           RequestSurvey \/ Unserved \/ Accept \/ Decline \/ RetryRail \/ Expire \/ Reopen
    PROVE  ShopInv'
<1>1. /\ disc \in Disc /\ survey.tries \in Nat /\ UNCHANGED <<thing, adopt>>
      /\ survey \in [state : {"none", "due", "done", "abandoned"}, tries : Nat]
      /\ adopt \in [at : {"idle", "reading", "queueing"}, pass : {"none", "running", "ended"}]
  BY DEF ShopInv, ShopShape, SurveyShape, RequestSurvey, Unserved, Accept, Decline, RetryRail,
     Expire, Reopen
<1>2. CASE RequestSurvey \/ Unserved
  <2>1. /\ disc' = disc /\ survey'.state # "done"
        /\ survey' \in [state : {"none", "due", "done", "abandoned"}, tries : Nat]
    BY <1>1, <1>2 DEF RequestSurvey, Unserved
  <2> QED
    BY <1>1, <2>1, AskKept DEF SurveyShape
<1>3. CASE Reopen
  <2>1. /\ survey'.state = "due" /\ disc' \in {disc, NoDisc}
        /\ survey' \in [state : {"none", "due", "done", "abandoned"}, tries : Nat]
    BY <1>3 DEF Reopen
  <2> QED
    BY <1>1, <2>1, NoDiscIs, AskKept DEF SurveyShape
<1>4. CASE Accept \/ Decline \/ RetryRail \/ Expire
  <2>1. survey' = survey /\ disc.st # "none"
    BY <1>4 DEF Accept, Decline, RetryRail, Expire
  <2>2. disc' \in Disc /\ disc'.st # "none"
    <3>1. CASE Accept
      <4>1. PICK relist \in BOOLEAN : disc' = [disc EXCEPT !.st = "accepted", !.relist = relist]
        BY <3>1 DEF Accept
      <4>2. "accepted" \in Answers
        BY DEF Answers
      <4> DEFINE d == [disc EXCEPT !.st = "accepted", !.relist = relist]
      <4>3. disc \in Disc
        BY <1>1
      <4>4. d \in Disc /\ d.st = "accepted"
        BY <4>2, <4>3, DiscAnswers, Zenon
      <4> HIDE DEF d
      <4>5. disc' = d
        BY <4>1 DEF d
      <4> QED
        BY <4>4, <4>5
    <3>2. CASE Decline \/ Expire
      <4>1. PICK st \in {"declined", "expired"} : disc' = [disc EXCEPT !.st = st]
        BY <3>2 DEF Decline, Expire
      <4> QED
        BY <1>1, <4>1, DiscSt DEF Answers
    <3>3. CASE RetryRail
      <4>1. disc' = [disc EXCEPT !.rail = "owed", !.railTries = 0] /\ disc.st = "adopted"
        BY <3>3 DEF RetryRail
      <4>2. "owed" \in Owings /\ 0 \in Nat
        BY DEF Owings
      <4>3. disc' \in Disc /\ disc'.st = disc.st
        BY <1>1, <4>1, <4>2, DiscOwes, Zenon
      <4> QED
        BY <4>1, <4>3
    <3> QED
      BY <1>4, <3>1, <3>2, <3>3
  <2> QED
    BY <1>1, <2>1, <2>2, AskKept DEF SurveyShape
<1> QED
  BY <1>2, <1>3, <1>4

\* The adoption while it writes no item, and the carousell.ai listing it owes.
LEMMA AdoptKeeps ==
    ASSUME ShopInv, UNCHANGED <<crossVars, reviseVars>>,
           \/ AdoptReads \/ AdoptFails \/ AdoptRetries \/ RailIsThere \/ RailRefused
           \/ RailQueued \/ SettleRail \/ \E inFlight : RailEnqueues(inFlight)
    PROVE  ShopInv'
<1>1. /\ disc \in Disc /\ UNCHANGED <<thing, survey>>
      /\ survey \in [state : {"none", "due", "done", "abandoned"}, tries : Nat]
      /\ adopt \in [at : {"idle", "reading", "queueing"}, pass : {"none", "running", "ended"}]
  BY DEF ShopInv, ShopShape, SurveyShape, AdoptReads, AdoptFails, AdoptRetries, RailIsThere,
     RailRefused, RailQueued, SettleRail, RailEnqueues
<1>2. /\ adopt' \in [at : {"idle", "reading", "queueing"}, pass : {"none", "running", "ended"}]
      /\ adopt'.at = "reading" => adopt.at = "reading" \/ ~item.known
  BY <1>1 DEF AdoptReads, AdoptFails, AdoptRetries, RailIsThere, RailRefused, RailQueued,
     SettleRail, RailEnqueues
<1>3. \/ disc' = disc
      \/ disc' = [disc EXCEPT !.st = "failed"] /\ disc.st # "none"
      \/ disc' = [disc EXCEPT !.st = "failed", !.tries = @ + 1] /\ disc.st # "none"
      \/ disc' = [disc EXCEPT !.tries = @ + 1]
      \/ \E rail \in {"owed", "done", "failed"} : disc' = [disc EXCEPT !.rail = rail]
      \/ disc' = [disc EXCEPT !.rail = "queued", !.railTries = @ + 1]
  BY DEF AdoptReads, AdoptFails, AdoptRetries, RailIsThere, RailRefused, RailQueued,
     SettleRail, RailEnqueues
<1>4. "failed" \in Answers /\ {"owed", "done", "failed", "queued"} \subseteq Owings
      /\ "queued" \in Owings
  BY DEF Answers, Owings
<1>5. disc' \in Disc /\ (disc'.st = disc.st \/ (disc.st # "none" /\ disc'.st = "failed"))
  <2>1. CASE disc' = disc
    BY <1>1, <2>1
  <2>2. CASE disc' = [disc EXCEPT !.st = "failed"] /\ disc.st # "none"
    BY <1>1, <1>4, <2>2, DiscSt
  <2>3. CASE disc' = [disc EXCEPT !.st = "failed", !.tries = @ + 1] /\ disc.st # "none"
    BY <1>1, <1>4, <2>3, DiscFails, Zenon
  <2>4. CASE disc' = [disc EXCEPT !.tries = @ + 1]
    <3>1. disc.tries + 1 \in Nat /\ disc' = [disc EXCEPT !.tries = disc.tries + 1]
      BY <1>1, <2>4 DEF Disc
    <3> QED
      BY <1>1, <3>1, DiscTries
  <2>5. CASE \E rail \in {"owed", "done", "failed"} : disc' = [disc EXCEPT !.rail = rail]
    BY <1>1, <1>4, <2>5, DiscRail
  <2>6. CASE disc' = [disc EXCEPT !.rail = "queued", !.railTries = @ + 1]
    BY <1>1, <1>4, <2>6, DiscQueued, Zenon
  <2> QED
    BY <1>3, <2>1, <2>2, <2>3, <2>4, <2>5, <2>6
<1> QED
  BY <1>1, <1>2, <1>5, AskKept DEF SurveyShape

\* The item comes to name a listing that stands alone, while nobody else has the browser.
LEMMA TakenOver ==
    ASSUME ShopInv, NEW p \in Posts, item.known, ~Listed \/ item.url = p,
           kind # "recipe" => \A q \in Posts : Live(q) => q = p,
           drive.at = "idle" /\ ~PublishInFlight,
           UNCHANGED <<kind, posts, want, crossVars, reviseVars>>, SurveyShape',
           item' = RecordUrl(p), adopt'.at = "reading" => adopt.at = "reading",
           disc'.st # "none" => disc.st # "none"
    PROVE  ShopInv'
<1>1. /\ UNCHANGED <<kind, posts, want, rows, drive, check>>
      /\ Posts' = Posts /\ Rows' = Rows /\ ShopShape /\ LaneInv
      /\ Len(posts) \in Nat /\ posts \in Seq(PostRow)
  BY DEF ShopInv, ShopShape, ThingShape, crossVars, Posts, Rows
<1>2. p \in Nat /\ p # 0 /\ p <= Len(posts)
  BY <1>1 DEF Posts
<1>3. /\ item' \in Item /\ item'.url = p /\ item'.known = item.known
      /\ item'.sold = item.sold /\ item'.rec = item.rec
  BY <1>1, <1>2, NamedIs
<1>4. Listed' /\ \A q \in Posts : Live(q)' <=> Live(q)
  BY <1>1, <1>2, <1>3 DEF Listed, NoUrl, Live
<1>5. ThingShape' /\ CrossShape'
  BY <1>1, <1>2, <1>3 DEF ShopShape, ThingShape, CrossShape
<1>6. EditShape'
  BY DEF ShopInv, ShopShape, EditShape, reviseVars
<1>7. Unknown' /\ ByHand' /\ Found'
  BY <1>1, <1>3, <1>4 DEF LaneInv, Unknown, ByHand, Found
<1>8. ByPass' /\ ByDrive'
  BY <1>1, <1>3 DEF LaneInv, ByPass, ByDrive, PublishInFlight, UnsettledPosts
<1>9. OneLive'
  BY <1>1, <1>3, <1>4 DEF LaneInv, OneLive
<1>10. LaneInv'
  BY <1>7, <1>8, <1>9 DEF LaneInv
<1>11. EditInv'
  BY <1>1, <1>3, EditsKept DEF ShopInv
<1> QED
  BY <1>5, <1>6, <1>10, <1>11 DEF ShopInv, ShopShape

LEMMA LookKeeps ==
    ASSUME ShopInv, Look, ~ShopBusy, UNCHANGED <<crossVars, reviseVars>>
    PROVE  ShopInv'
<1> DEFINE seen == {p \in Posts : posts[p].up = "up" /\ item.url # p}
<1>1. /\ survey' = [survey EXCEPT !.state = "done"] /\ UNCHANGED <<kind, posts, want, adopt>>
      /\ drive.at = "idle" /\ ~PublishInFlight /\ ShopShape /\ LaneInv
  BY DEF Look, ShopInv, ShopBusy, PassUp
<1>2. survey' \in [state : {"none", "due", "done", "abandoned"}, tries : Nat]
  BY <1>1 DEF ShopShape, SurveyShape
<1>3. /\ UNCHANGED <<kind, posts, want, rows, drive, check>>
      /\ Posts' = Posts /\ Rows' = Rows
      /\ \A q \in Posts : Live(q)' <=> Live(q)
      /\ Len(posts) \in Nat /\ posts \in Seq(PostRow)
  BY <1>1 DEF ShopShape, ThingShape, crossVars, Posts, Rows, Live
<1>4. ASSUME UNCHANGED item, SurveyShape', disc.st # "none" => disc'.st # "none",
             disc'.st # "none" => /\ posts # <<>>
                                  /\ kind # "recipe" => posts[Hand].hand,
             \A p \in Posts : posts[p].hand => Listed \/ disc'.st # "none" \/ item.sold
      PROVE  ShopInv'
  <2>1. ThingShape' /\ CrossShape' /\ EditShape' /\ Listed' = Listed
    BY <1>1, <1>3, <1>4 DEF ShopShape, ThingShape, CrossShape, EditShape, reviseVars, Listed
  <2>2. Unknown' /\ ByHand' /\ Found'
    BY <1>1, <1>3, <1>4, <2>1 DEF LaneInv, Unknown, ByHand, Found
  <2>3. ByPass' /\ ByDrive'
    BY <1>1, <1>3, <1>4, <2>1 DEF LaneInv, ByPass, ByDrive, UnsettledPosts
  <2>4. OneLive'
    BY <1>1, <1>3, <1>4, <2>1 DEF LaneInv, OneLive
  <2>5. EditInv'
    BY <1>1, <1>3, <1>4, EditsKept DEF ShopInv
  <2> QED
    BY <1>4, <2>1, <2>2, <2>3, <2>4, <2>5 DEF ShopInv, ShopShape, LaneInv
<1>5. \A p \in Posts : posts[p].hand => posts[p].up = "up"
  BY <1>1 DEF LaneInv, ByHand
<1>6. CASE seen = {} \/ disc.st # "none" \/ item.sold
  <2>1. UNCHANGED <<item, disc>>
    BY <1>6, Zenon DEF Look
  <2>2. \A p \in Posts : posts[p].hand => Listed \/ disc.st # "none" \/ item.sold
    <3> SUFFICES ASSUME NEW p \in Posts, posts[p].hand, seen = {} PROVE Listed
      BY <1>6
    <3>1. item.url = p /\ p # 0
      BY <1>3, <1>5 DEF Posts
    <3> QED
      BY <3>1 DEF Listed, NoUrl
  <2>3. SurveyShape'
    BY <1>1, <1>2, <2>1 DEF ShopShape, SurveyShape
  <2>4. disc.st # "none" => posts # <<>> /\ (kind # "recipe" => posts[Hand].hand)
    BY <1>1 DEF LaneInv, Found, OneLive
  <2> QED
    BY <1>4, <2>1, <2>2, <2>3, <2>4
<1>7. CASE ~(seen = {} \/ disc.st # "none" \/ item.sold) /\ item.known /\ ~Listed
  <2>1. (\E p \in seen : item' = RecordUrl(p)) /\ disc' = disc
    BY <1>7, Zenon DEF Look
  <2>2. PICK p \in seen : item' = RecordUrl(p)
    BY <2>1
  <2>3. p \in Posts /\ Live(p)
    BY DEF Live
  <2>4. kind # "recipe" => \A q \in Posts : Live(q) => q = p
    BY <1>1, <2>3 DEF LaneInv, OneLive
  <2>5. SurveyShape'
    BY <1>1, <1>2, <2>1 DEF ShopShape, SurveyShape
  <2> QED
    BY <1>1, <1>7, <2>1, <2>2, <2>3, <2>4, <2>5, TakenOver
<1>8. CASE ~(seen = {} \/ disc.st # "none" \/ item.sold) /\ ~(item.known /\ ~Listed)
  <2>1. disc' = [NoDisc EXCEPT !.st = "pending"] /\ UNCHANGED item
    BY <1>8, Zenon DEF Look
  <2>2. disc' \in Disc /\ disc'.st = "pending"
    BY <2>1, NoDiscIs, DiscSt DEF Answers
  <2>3. SurveyShape'
    BY <1>1, <1>2, <2>2 DEF ShopShape, SurveyShape
  <2>4. PICK p \in Posts : posts[p].up = "up" /\ item.url # p
    BY <1>8
  <2>5. posts # <<>>
    BY <1>3, <2>4, EmptySeq DEF Posts
  <2>6. kind # "recipe" => posts[Hand].hand
    <3> SUFFICES ASSUME kind # "recipe" PROVE posts[Hand].hand
      OBVIOUS
    <3>1. ~Listed
      BY <1>1, <2>4 DEF LaneInv, OneLive, Live
    <3>2. ~item.known
      BY <1>8, <3>1
    <3>3. Hand \in Posts
      BY <1>3, <2>5, EmptySeq DEF Hand, Posts
    <3> QED
      BY <1>1, <3>2, <3>3 DEF LaneInv, Unknown
  <2> QED
    BY <1>4, <2>1, <2>2, <2>3, <2>5, <2>6
<1> QED
  BY <1>6, <1>7, <1>8

LEMMA AdoptLinksKeeps ==
    ASSUME ShopInv, AdoptLinks, ~ShopBusy, UNCHANGED <<crossVars, reviseVars>>
    PROVE  ShopInv'
<1>1. /\ disc.st = "accepted" /\ UNCHANGED <<kind, posts, want, survey, adopt>>
      /\ item.known /\ (item.url = Hand \/ (~Listed /\ ~item.sold))
      /\ item' = RecordUrl(Hand)
      /\ \E owed \in BOOLEAN :
           disc' = [disc EXCEPT !.st = "adopted", !.rail = IF owed THEN "owed" ELSE "none"]
      /\ drive.at = "idle" /\ ~PublishInFlight /\ ShopShape /\ LaneInv
  BY DEF AdoptLinks, Adopts, ShopInv, ShopBusy, PassUp
<1>2. disc' \in Disc /\ disc'.st = "adopted"
  <2>1. PICK owed \in BOOLEAN :
           disc' = [disc EXCEPT !.st = "adopted", !.rail = IF owed THEN "owed" ELSE "none"]
    BY <1>1
  <2>2. disc \in Disc
    BY <1>1 DEF ShopShape, SurveyShape
  <2> QED
    BY <2>1, <2>2, AdoptedIs
<1>3. Hand \in Posts /\ posts # <<>>
  BY <1>1, EmptySeq DEF LaneInv, Found, Posts, Hand, ShopShape, ThingShape
<1>4. SurveyShape'
  BY <1>1, <1>2 DEF ShopShape, SurveyShape
<1>5. kind # "recipe" => \A q \in Posts : Live(q) => q = Hand
  BY <1>1, <1>3 DEF LaneInv, OneLive, ByHand, Live
<1> QED
  BY <1>1, <1>3, <1>4, <1>5, TakenOver

LEMMA AdoptWritesKeeps ==
    ASSUME ShopInv, AdoptWrites, UNCHANGED <<crossVars, reviseVars>>
    PROVE  ShopInv'
<1>1. /\ adopt.at = "reading" /\ posts[Hand].up = "up" /\ adopt' = [adopt EXCEPT !.at = "idle"]
      /\ UNCHANGED <<kind, posts, want, survey>> /\ ShopShape /\ LaneInv
  BY DEF AdoptWrites, ShopInv
<1>2. /\ adopt' \in [at : {"idle", "reading", "queueing"}, pass : {"none", "running", "ended"}]
      /\ adopt'.at = "idle" /\ disc \in Disc /\ Len(posts) \in Nat /\ posts \in Seq(PostRow)
      /\ survey \in [state : {"none", "due", "done", "abandoned"}, tries : Nat]
  BY <1>1 DEF ShopShape, ThingShape, SurveyShape
<1>3. /\ ~item.known /\ ~Listed /\ rows = <<>> /\ drive.at = "idle" /\ check = "no"
      /\ \A p \in Posts : posts[p].hand
  BY <1>1 DEF LaneInv, Unknown
<1>4. CASE disc.st # "accepted"
  <2>1. UNCHANGED <<item, disc>>
    BY <1>4 DEF AdoptWrites, Adopts
  <2> QED
    BY <1>1, <1>2, <2>1, AskKept DEF thing, SurveyShape
<1>5. CASE disc.st = "accepted"
  <2>1. PICK photos \in BOOLEAN :
          Adopts([item EXCEPT !.known = TRUE, !.url = Hand, !.rec = posts[Hand].shows],
                 disc.relist /\ photos)
    BY DEF AdoptWrites
  <2>2. /\ disc' = [disc EXCEPT !.st = "adopted",
                                !.rail = IF disc.relist /\ photos THEN "owed" ELSE "none"]
        /\ item' = [item EXCEPT !.known = TRUE, !.url = Hand, !.rec = posts[Hand].shows]
    BY <1>5, <2>1, Zenon DEF Adopts
  <2>4. disc' \in Disc /\ disc'.st = "adopted"
    BY <1>2, <2>2, AdoptedIs
  <2>5. Hand \in Posts /\ posts # <<>> /\ Hand \in Nat /\ Hand # 0 /\ Hand <= Len(posts)
    BY <1>1, <1>2, <1>5, EmptySeq DEF LaneInv, Found, Posts, Hand
  <2>6. posts[Hand].shows \in Versions
    <3>1. posts[Hand] \in PostRow
      BY <1>2, <2>5 DEF Posts
    <3> QED
      BY <3>1 DEF PostRow
  <2>7. item' \in Item /\ item'.known /\ item'.url = Hand
    <3> DEFINE i == [item EXCEPT !.known = TRUE]
               j == [i EXCEPT !.url = Hand]
    <3>1. item' = [j EXCEPT !.rec = posts[Hand].shows]
      BY <2>2, Zenon
    <3>2. i \in Item /\ i.known
      BY <1>1 DEF ShopShape, ThingShape, Item
    <3> HIDE DEF i
    <3>3. j \in Item /\ j.known /\ j.url = Hand
      BY <2>5, <3>2 DEF Item
    <3> HIDE DEF j
    <3> QED
      BY <2>6, <3>1, <3>3 DEF Item
  <2>8. /\ Posts' = Posts /\ Rows' = Rows /\ rows' = <<>> /\ drive' = drive /\ check' = "no"
        /\ Listed' /\ \A q \in Posts : Live(q)' <=> Live(q)
    BY <1>1, <1>3, <2>5, <2>7 DEF Posts, Rows, Listed, NoUrl, Live, crossVars
  <2>9. ThingShape' /\ CrossShape' /\ EditShape' /\ SurveyShape'
    <3>1. ThingShape'
      BY <1>1, <1>2, <2>5, <2>7 DEF ShopShape, ThingShape
    <3>2. CrossShape'
      BY <1>1, <1>3, <2>8 DEF ShopShape, CrossShape, crossVars
    <3>3. EditShape' /\ SurveyShape'
      BY <1>1, <1>2, <2>4 DEF ShopShape, EditShape, SurveyShape, reviseVars
    <3> QED
      BY <3>1, <3>2, <3>3
  <2>10. Unknown' /\ ByHand' /\ Found'
    BY <1>1, <1>2, <2>5, <2>7, <2>8 DEF LaneInv, Unknown, ByHand, Found
  <2>11. Rows' = {}
    BY <2>8 DEF Rows
  <2>12. ByPass' /\ ByDrive'
    BY <1>3, <2>8, <2>11 DEF ByPass, ByDrive
  <2>13. OneLive'
    <3>1. \A q \in Posts : q = Hand
      BY <1>1, <1>3 DEF LaneInv, ByHand
    <3> QED
      BY <1>1, <1>3, <2>5, <2>7, <2>8, <3>1 DEF OneLive
  <2>14. EditInv'
    BY <1>1, <1>2, <1>3, EditsKept DEF ShopInv
  <2> QED
    BY <2>9, <2>10, <2>12, <2>13, <2>14 DEF ShopInv, ShopShape, LaneInv
<1> QED
  BY <1>4, <1>5

\* What the carousell.ai pass lists, and the sale, change nothing on this marketplace.
LEMMA ElsewhereKeeps ==
    ASSUME ShopInv, UNCHANGED <<kind, posts, want, crossVars, reviseVars, survey, disc>>,
           item' \in Item, item'.url = item.url, item'.known = item.known, item'.rec = item.rec,
           item.sold => item'.sold, SurveyShape', adopt'.at = adopt.at
    PROVE  ShopInv'
<1>1. /\ UNCHANGED <<kind, posts, want, rows, drive, check, survey, disc>>
      /\ Posts' = Posts /\ Rows' = Rows /\ Listed' = Listed /\ ShopShape /\ LaneInv
      /\ \A q \in Posts : Live(q)' <=> Live(q)
      /\ Len(posts) \in Nat /\ posts \in Seq(PostRow)
  BY DEF ShopInv, ShopShape, ThingShape, crossVars, Posts, Rows, Listed, Live
<1>2. ThingShape' /\ CrossShape' /\ EditShape'
  BY <1>1 DEF ShopShape, ThingShape, CrossShape, EditShape, reviseVars
<1>3. Unknown' /\ ByHand' /\ Found'
  BY <1>1 DEF LaneInv, Unknown, ByHand, Found
<1>4. ByPass' /\ ByDrive' /\ OneLive'
  BY <1>1 DEF LaneInv, ByPass, ByDrive, OneLive, UnsettledPosts
<1>5. EditInv'
  BY <1>1, EditsKept DEF ShopInv
<1> QED
  BY <1>2, <1>3, <1>4, <1>5 DEF ShopInv, ShopShape, LaneInv

LEMMA RailEndsKeeps ==
    ASSUME ShopInv, RailPassEnds, UNCHANGED <<crossVars, reviseVars>>
    PROVE  ShopInv'
<1>1. PICK listed \in BOOLEAN : item' = [item EXCEPT !.rail = item.rail \/ listed]
  BY DEF RailPassEnds
<1>2. /\ UNCHANGED <<kind, posts, want, survey, disc>>
      /\ adopt' = [adopt EXCEPT !.pass = "ended"] /\ item \in Item
      /\ disc \in Disc /\ survey \in [state : {"none", "due", "done", "abandoned"}, tries : Nat]
      /\ adopt \in [at : {"idle", "reading", "queueing"}, pass : {"none", "running", "ended"}]
  BY DEF RailPassEnds, ShopInv, ShopShape, ThingShape, SurveyShape
<1>3. /\ item' \in Item /\ item'.url = item.url /\ item'.known = item.known
      /\ item'.rec = item.rec /\ item'.sold = item.sold
  BY <1>1, <1>2 DEF Item
<1>4. /\ adopt'.at = adopt.at
      /\ adopt' \in [at : {"idle", "reading", "queueing"}, pass : {"none", "running", "ended"}]
  BY <1>2
<1>5. SurveyShape'
  BY <1>2, <1>4 DEF SurveyShape
<1> QED
  BY <1>2, <1>3, <1>4, <1>5, ElsewhereKeeps

LEMMA SurveyStepKeeps ==
    ASSUME ShopInv, SurveyStep, UNCHANGED <<crossVars, reviseVars>>
    PROVE  ShopInv'
<1>1. CASE ~ShopBusy /\ (Look \/ AdoptLinks)
  BY <1>1, LookKeeps, AdoptLinksKeeps
<1>2. CASE RequestSurvey \/ Unserved \/ Accept \/ Decline \/ RetryRail \/ Expire \/ Reopen
  BY <1>2, AskKeeps
<1>3. CASE \/ AdoptReads \/ AdoptFails \/ AdoptRetries \/ RailIsThere \/ RailRefused
           \/ RailQueued \/ SettleRail \/ RailEnqueues(PublishInFlight)
  BY <1>3, AdoptKeeps
<1>4. CASE AdoptWrites
  BY <1>4, AdoptWritesKeeps
<1>5. CASE RailPassEnds
  BY <1>5, RailEndsKeeps
<1> QED
  BY <1>1, <1>2, <1>3, <1>4, <1>5 DEF SurveyStep

LEMMA SellsKeeps ==
    ASSUME ShopInv, Sells PROVE ShopInv'
<1>1. /\ item' = [item EXCEPT !.sold = TRUE]
      /\ UNCHANGED <<kind, posts, want, crossVars, reviseVars, survey, disc, adopt>>
      /\ item \in Item /\ SurveyShape
  BY DEF Sells, ShopInv, ShopShape, ThingShape, surveyVars
<1>2. /\ item' \in Item /\ item'.url = item.url /\ item'.known = item.known
      /\ item'.rec = item.rec /\ item'.sold
  BY <1>1 DEF Item
<1>3. SurveyShape'
  BY <1>1 DEF SurveyShape
<1> QED
  BY <1>1, <1>2, <1>3, ElsewhereKeeps

\* A crash ends the drive and what was in process, and the edit that ran is left; nothing that
\* was to be done is forgotten.
LEMMA DiesKeeps ==
    ASSUME ShopInv, Dies PROVE ShopInv'
<1>1. /\ UNCHANGED <<kind, item, posts, want, revs, survey, disc>>
      /\ drive' = NoDrive /\ check' = "no" /\ adopt' = [adopt EXCEPT !.at = "idle"]
      /\ rows' = [n \in Rows |-> IF rows[n].status = "running"
                                 THEN [rows[n] EXCEPT !.status = "error"] ELSE rows[n]]
      /\ call' = {} /\ failed' = failed \cup call
      /\ edit' = [edit EXCEPT !.at = IF @ \in {"idle", "attached"} THEN @ ELSE "left",
                              !.pass = IF @ = "looked" THEN "ended" ELSE @]
      /\ ShopShape /\ LaneInv /\ EditInv
  BY DEF Dies, thing, ShopInv
<1>2. /\ rows \in Seq(PublishRow) /\ Rows = 1..Len(rows) /\ Len(rows) \in Nat
      /\ \A n \in Rows : rows[n] \in PublishRow
      /\ Len(posts) \in Nat /\ posts \in Seq(PostRow) /\ item \in Item
      /\ edit \in Edit /\ call \subseteq Fields /\ failed \subseteq Fields
  BY <1>1 DEF ShopShape, ThingShape, CrossShape, EditShape, Rows
<1>3. \A n \in Rows : /\ rows'[n] \in PublishRow
                      /\ rows'[n].status = IF rows[n].status = "running" THEN "error"
                                           ELSE rows[n].status
                      /\ rows'[n].unverified = rows[n].unverified
                      /\ rows'[n].review = rows[n].review
  <2> TAKE n \in Rows
  <2>1. rows[n] \in PublishRow
    BY <1>2
  <2>2. CASE rows[n].status = "running"
    <3>1. rows'[n] = [rows[n] EXCEPT !.status = "error"]
      BY <1>1, <2>2
    <3> QED
      BY <2>1, <2>2, <3>1 DEF PublishRow
  <2>3. CASE rows[n].status # "running"
    BY <1>1, <2>1, <2>3
  <2> QED
    BY <2>2, <2>3
<1>4. rows' \in Seq(PublishRow) /\ Len(rows') = Len(rows) /\ Rows' = Rows
  <2>1. rows' = [n \in Rows |-> rows'[n]]
    BY <1>1
  <2>2. rows' \in [1..Len(rows) -> PublishRow]
    BY <1>2, <1>3, <2>1
  <2> QED
    BY <1>2, <2>2 DEF Rows
<1>5. /\ edit' \in Edit /\ edit'.changed = edit.changed /\ edit'.post = edit.post
      /\ edit'.at = IF edit.at \in {"idle", "attached"} THEN edit.at ELSE "left"
      /\ edit'.pass = IF edit.pass = "looked" THEN "ended" ELSE edit.pass
  <2> DEFINE at == IF edit.at \in {"idle", "attached"} THEN edit.at ELSE "left"
             pass == IF edit.pass = "looked" THEN "ended" ELSE edit.pass
             e == [edit EXCEPT !.at = at]
  <2>1. edit' = [e EXCEPT !.pass = pass]
    BY <1>1, Zenon
  <2>2. /\ at \in {"idle", "claimed", "filling", "saved", "passed", "attached", "left"}
        /\ pass \in {"none", "alive", "looked", "ended"}
    BY <1>2 DEF Edit
  <2>3. at = (IF edit.at \in {"idle", "attached"} THEN edit.at ELSE "left")
        /\ pass = (IF edit.pass = "looked" THEN "ended" ELSE edit.pass)
    OBVIOUS
  <2> HIDE DEF at, pass
  <2>4. e \in Edit /\ e.changed = edit.changed /\ e.post = edit.post /\ e.at = at
    BY <1>2, <2>2 DEF Edit
  <2> HIDE DEF e
  <2>5. edit' \in Edit /\ edit'.changed = e.changed /\ edit'.post = e.post /\ edit'.at = e.at
        /\ edit'.pass = pass
    BY <2>1, <2>2, <2>4 DEF Edit
  <2> QED
    BY <2>3, <2>4, <2>5
<1>6. EditShape' /\ EditInv'
  <2>1. ~HasLooked'
    BY <1>5 DEF HasLooked
  <2>2. Overtaken'
    BY <2>1 DEF Overtaken
  <2>3. edit.at # "idle" => Running \in InStatus("running")
    BY <1>1, RunningIs
  <2>4. UNCHANGED <<thing, revs>> /\ call' \subseteq Fields /\ failed' \subseteq Fields
        /\ call \cup failed \subseteq call' \cup failed'
    BY <1>1, <1>2 DEF thing
  <2>5. edit'.at \in {"filling", "saved", "passed", "attached"} =>
             edit.at = "attached" /\ edit'.changed = revs[Running].changed
    BY <1>1, <1>5, <2>3 DEF EditInv, OneEdit
  <2>6. edit'.at \in {"passed", "attached"} => kind = "recipe" /\ Listed /\ edit'.post = item.url
    BY <1>1, <1>5, <2>5 DEF EditInv, OneEdit
  <2> QED
    BY <1>1, <1>5, <2>2, <2>4, <2>5, <2>6, RowsStay
<1>7. /\ adopt'.at = "idle"
      /\ adopt' \in [at : {"idle", "reading", "queueing"}, pass : {"none", "running", "ended"}]
  BY <1>1 DEF ShopShape, SurveyShape
<1>8. ThingShape' /\ CrossShape' /\ SurveyShape'
  <2>1. ThingShape' /\ SurveyShape'
    BY <1>1, <1>7 DEF ShopShape, ThingShape, SurveyShape
  <2>2. CrossShape'
    BY <1>1, <1>2, <1>4, NoDriveIs DEF CrossShape
  <2> QED
    BY <2>1, <2>2
<1>9. /\ Posts' = Posts /\ Listed' = Listed /\ \A q \in Posts : Live(q)' <=> Live(q)
      /\ (rows = <<>> => rows' = <<>>)
  BY <1>1, <1>2, <1>4, EmptySeq DEF Posts, Listed, Live
<1>0. /\ UNCHANGED <<kind, item, posts, survey, disc>> /\ LaneInv
      /\ drive'.at = "idle" /\ check' = "no"
  BY <1>1, NoDriveIs
<1>10. Unknown' /\ ByHand' /\ Found'
  BY <1>0, <1>7, <1>9 DEF LaneInv, Unknown, ByHand, Found
<1>11. ByPass' /\ ByDrive'
  <2>1. ByDrive'
    BY <1>0 DEF ByDrive
  <2>2. \A n \in Rows : /\ UnsettledPosts(rows'[n]) => UnsettledPosts(rows[n])
                        /\ rows'[n].status \in {"queued", "running"} => rows'[n].status = rows[n].status
                        /\ rows'[n].review = rows[n].review
    BY <1>3 DEF UnsettledPosts
  <2> QED
    BY <1>0, <1>4, <1>9, <2>1, <2>2 DEF LaneInv, ByPass
<1>12. OneLive'
  BY <1>0, <1>3, <1>4, <1>9 DEF LaneInv, OneLive
<1> QED
  BY <1>6, <1>8, <1>10, <1>11, <1>12 DEF ShopInv, ShopShape, LaneInv

-----------------------------------------------------------------------------
(* The three lanes together.                                               *)

LEMMA ShopStarts == ShopInit => ShopInv
<1> SUFFICES ASSUME ShopInit PROVE ShopInv
  OBVIOUS
<1> DEFINE zero == [f \in Fields |-> 0]
           page == [up |-> "up", shows |-> zero, hand |-> TRUE]
<1>1. PICK known \in BOOLEAN, hand \in BOOLEAN :
         /\ known \/ hand
         /\ hand => kind # "craigslist"
         /\ item = [known |-> known, rail |-> known, sold |-> FALSE, rec |-> zero, url |-> NoUrl]
         /\ posts = IF hand THEN <<page>> ELSE <<>>
  BY DEF ShopInit
<1>2. zero \in Versions /\ \A f \in Fields : zero[f] = 0
  BY DEF Versions
<1>3. want = zero
  BY DEF ShopInit
<1> HIDE DEF zero
<1>4. page \in PostRow /\ page.hand /\ page.up = "up"
  BY <1>2 DEF PostRow
<1> HIDE DEF page
<1>5. item \in Item /\ item.known = known /\ ~Listed /\ ~item.sold /\ item.url = 0
  BY <1>1, <1>2 DEF Item, NoUrl, Listed
<1>6. /\ posts \in Seq(PostRow) /\ Len(posts) \in Nat
      /\ hand => Posts = {1} /\ posts[1] = page
      /\ ~hand => Posts = {}
  BY <1>1, <1>4 DEF Posts
<1>7. /\ rows = <<>> /\ drive = NoDrive /\ check = "no" /\ revs = <<>> /\ call = {} /\ failed = {}
      /\ edit = NoEdit /\ survey = [state |-> "none", tries |-> 0] /\ disc = NoDisc
      /\ adopt = NoAdopt /\ kind \in {"driven", "craigslist", "recipe"}
  BY DEF ShopInit
<1>8. Rows = {} /\ Revs = {} /\ rows \in Seq(PublishRow) /\ revs \in Seq(RevisionRow)
  BY <1>7 DEF Rows, Revs
<1>9. \A st : InStatus(st) = {} /\ Owing = {}
  BY <1>8 DEF InStatus, Owing
<1>10. ShopShape
  <2>1. ThingShape
    BY <1>2, <1>3, <1>5, <1>6, <1>7 DEF ThingShape
  <2>2. CrossShape
    BY <1>6, <1>7, <1>8, NoDriveIs DEF CrossShape
  <2>3. EditShape
    BY <1>7, <1>8, NoEditIs DEF EditShape
  <2>4. SurveyShape
    BY <1>7, NoDiscIs DEF SurveyShape, NoAdopt
  <2> QED
    BY <2>1, <2>2, <2>3, <2>4 DEF ShopShape
<1>11. adopt.at = "idle" /\ survey.state = "none" /\ edit.at = "idle" /\ drive.at = "idle"
       /\ disc.st = "none"
  BY <1>7, NoDriveIs, NoEditIs, NoDiscIs DEF NoAdopt
<1>12. Unknown /\ ByHand /\ Found
  BY <1>1, <1>4, <1>5, <1>6, <1>7, <1>11 DEF Unknown, ByHand, Found, Hand
<1>13. ByPass /\ ByDrive
  BY <1>8, <1>11 DEF ByPass, ByDrive
<1>14. OneLive
  BY <1>1, <1>4, <1>5, <1>6, <1>11 DEF OneLive
<1>15. Wants
  BY <1>2, <1>3 DEF Wants
<1>16. OneEdit /\ Overtaken
  BY <1>9, <1>11 DEF OneEdit, Overtaken, HasLooked
<1>17. EditIsOwed
  BY <1>2, <1>3 DEF EditIsOwed
<1> QED
  BY <1>10, <1>12, <1>13, <1>14, <1>15, <1>16, <1>17 DEF ShopInv, LaneInv, EditInv

LEMMA ShopSteps == ShopInv /\ [ShopNext]_shopVars => ShopInv'
<1> SUFFICES ASSUME ShopInv, [ShopNext]_shopVars PROVE ShopInv'
  OBVIOUS
<1>1. CASE CrossStep /\ UNCHANGED <<reviseVars, surveyVars>>
  BY <1>1, CrossStepKeeps
<1>2. CASE ReviseStep /\ UNCHANGED <<crossVars, surveyVars>>
  BY <1>2, ReviseStepKeeps
<1>3. CASE SurveyStep /\ UNCHANGED <<crossVars, reviseVars>>
  BY <1>3, SurveyStepKeeps
<1>4. CASE Sells
  BY <1>4, SellsKeeps
<1>5. CASE Dies
  BY <1>5, DiesKeeps
<1>6. CASE UNCHANGED shopVars
  <2>1. UNCHANGED <<thing, crossVars, reviseVars, survey, disc, adopt>>
    BY <1>6 DEF shopVars, surveyVars
  <2>2. SurveyShape'
    BY <2>1 DEF ShopInv, ShopShape, SurveyShape
  <2> QED
    BY <2>1, <2>2, AskKept
<1> QED
  BY <1>1, <1>2, <1>3, <1>4, <1>5, <1>6 DEF ShopNext

LEMMA ShopSafety == ShopSpec => []ShopInv
<1> QED
  BY ShopStarts, ShopSteps, PTL DEF ShopSpec

\* Whatever is superseded, retried, cut short or overtaken, a listing that does not show what
\* the seller asked of it is owed the change, or the seller has been or will be told that it
\* did not take (queue_listing_revision, settle_orphans, report_settled).
THEOREM EditAlwaysOwed == ShopSpec => []EditIsOwed
<1>1. ShopInv => EditIsOwed
  BY DEF ShopInv, EditInv
<1> QED
  BY <1>1, ShopSafety, PTL

\* Where the lane drives the form itself, the seller never has two listings of one thing on a
\* marketplace, whatever dies between the click and its row (before_commit, looked_first).
THEOREM OneListing == ShopSpec => []OneOfAThing
<1>1. ShopInv => OneOfAThing
  <2> SUFFICES ASSUME ShopInv, kind # "recipe"
               PROVE  Cardinality({p \in Posts : Live(p)}) <= 1
    BY DEF OneOfAThing
  <2> DEFINE live == {p \in Posts : Live(p)}
  <2>1. \A p, q \in live : p = q
    BY DEF ShopInv, LaneInv, OneLive
  <2>2. live = {} \/ \E p : live = {p}
    BY <2>1
  <2> HIDE DEF live
  <2>3. ASSUME live = {} PROVE Cardinality(live) <= 1
    BY <2>3, FS_EmptySet
  <2>4. ASSUME NEW p, live = {p} PROVE Cardinality(live) <= 1
    <3>1. Cardinality({p}) = 1
      BY FS_Singleton
    <3> QED
      BY <2>4, <3>1
  <2>5. Cardinality(live) <= 1
    BY <2>2, <2>3, <2>4
  <2> QED
    BY <2>5 DEF live
<1> QED
  BY <1>1, ShopSafety, PTL

\* Nothing but the adoption makes a thing known.
LEMMA KnownByAdoption ==
    ASSUME ShopInv, ShopNext, ~item.known, item'.known
    PROVE  SurveyStep /\ AdoptWrites
<1>1. item \in Item
  BY DEF ShopInv, ShopShape, ThingShape
<1>2. ASSUME NEW p, item' = RecordUrl(p) PROVE FALSE
  BY <1>1, <1>2 DEF RecordUrl, Item
<1>3. item' # item
  OBVIOUS
<1>4. ~CrossStep
  <2>1. ~Archive
    BY <1>1 DEF Archive, Item
  <2>2. ASSUME NEW how, Settle(how) PROVE FALSE
    BY <1>2, <1>3, <2>2 DEF Settle
  <2>3. ASSUME NEW n \in Rows, LinkReviewed(n) PROVE FALSE
    BY <1>2, <2>3 DEF LinkReviewed
  <2>4. ASSUME NEW p, Clears(p) \/ TakenDown(p) PROVE FALSE
    BY <1>3, <2>4 DEF Clears, TakenDown
  <2>5. ASSUME NEW for, EnqueuePublish(for) PROVE FALSE
    BY <1>3, <2>5 DEF EnqueuePublish, thing
  <2>6. ~(PassRecords \/ CheckPost)
    BY <1>2, <2>1 DEF PassRecords, CheckPost
  <2>7. ~(Click \/ PassPosts)
    BY <1>3 DEF Click, PassPosts
  <2>8. ~(\/ StartDrive(Looked, There) \/ BeforeCommit \/ ClickRefused \/ PublishPassEnds
          \/ SettleCheck \/ ReportPublish \/ HandedBack \/ NotAttempted)
    BY <1>3 DEF StartDrive, BeforeCommit, ClickRefused, PublishPassEnds, SettleCheck,
       ReportPublish, HandedBack, NotAttempted, thing
  <2> QED
    BY <2>2, <2>3, <2>4, <2>5, <2>6, <2>7, <2>8 DEF CrossStep
<1>5. ~ReviseStep
  <2>1. ASSUME NEW changed, Revise(changed) PROVE FALSE
    BY <2>1 DEF Revise
  <2>2. ASSUME NEW busy, Claim(busy) PROVE FALSE
    BY <1>3, <2>2 DEF Claim, thing
  <2>3. ASSUME NEW how, PassSays(how) PROVE FALSE
    BY <1>3, <2>3 DEF PassSays, thing
  <2>4. ~(Save \/ PassSaves)
    BY <1>3 DEF Save, PassSaves
  <2>5. ~(\/ QueueRevision \/ RefuseEdit \/ StartEdit \/ AttachPass \/ Confirm \/ SettleOrphan
          \/ ReportEdit \/ CallLost \/ EditFails \/ EditPassEnds)
    BY <1>3 DEF QueueRevision, RefuseEdit, StartEdit, AttachPass, Confirm, SettleOrphan,
       ReportEdit, CallLost, EditFails, EditPassEnds, thing
  <2> QED
    BY <2>1, <2>2, <2>3, <2>4, <2>5 DEF ReviseStep
<1>6. ASSUME SurveyStep PROVE AdoptWrites
  <2>1. ~(Look \/ AdoptLinks)
    BY <1>2, <1>3 DEF Look, AdoptLinks
  <2>2. ~RailPassEnds
    BY <1>1 DEF RailPassEnds, Item
  <2>3. ~(\/ RequestSurvey \/ AdoptReads \/ Accept \/ Decline \/ RailIsThere \/ RailQueued
          \/ SettleRail \/ Unserved \/ Expire \/ Reopen \/ RetryRail \/ AdoptFails
          \/ AdoptRetries \/ RailRefused \/ RailEnqueues(PublishInFlight))
    BY <1>3 DEF RequestSurvey, AdoptReads, Accept, Decline, RailIsThere, RailQueued, SettleRail,
       Unserved, Expire, Reopen, RetryRail, AdoptFails, AdoptRetries, RailRefused, RailEnqueues,
       thing
  <2> QED
    BY <1>6, <2>1, <2>2, <2>3 DEF SurveyStep
<1>7. ~Sells /\ ~Dies
  <2>1. ~Sells
    BY DEF Sells
  <2>2. ~Dies
    BY <1>3 DEF Dies, thing
  <2> QED
    BY <2>1, <2>2
<1> QED
  BY <1>4, <1>5, <1>6, <1>7 DEF ShopNext

\* A listing the seller declined, or took back by asking anew, is never taken over by the
\* adoption that was reading it (adopt_discovered_listing, ListingGone).
THEOREM NoIsNo == ShopSpec => NoMeansNo
<1>1. ASSUME ShopInv, [ShopNext]_shopVars
      PROVE  [~item.known /\ item'.known => disc.st = "accepted" /\ disc'.st = "adopted"]_shopVars
  <2> SUFFICES ASSUME ShopNext, ~item.known, item'.known
               PROVE  disc.st = "accepted" /\ disc'.st = "adopted"
    BY <1>1
  <2>1. AdoptWrites
    BY <1>1, KnownByAdoption
  <2>2. disc.st = "accepted"
    BY <2>1 DEF AdoptWrites, Adopts
  <2>3. PICK photos \in BOOLEAN :
          disc' = [disc EXCEPT !.st = "adopted", !.rail = IF disc.relist /\ photos THEN "owed" ELSE "none"]
    BY <2>1, <2>2 DEF AdoptWrites, Adopts
  <2>4. disc \in Disc
    BY <1>1 DEF ShopInv, ShopShape, SurveyShape
  <2>6. disc' \in Disc /\ disc'.st = "adopted"
    BY <2>3, <2>4, AdoptedIs
  <2> QED
    BY <2>2, <2>6
<1> QED
  BY <1>1, ShopSafety, PTL DEF ShopSpec, NoMeansNo
=============================================================================
