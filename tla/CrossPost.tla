----------------------------- MODULE CrossPost -----------------------------
(***************************************************************************)
(* The fan-out lane (crosslist.py) and the Craigslist post check           *)
(* (craigslist_posts.py) on one item and one marketplace: a publish driven *)
(* through the form (browser/publisher.py), a publish handed to a model    *)
(* pass, and the rows of passes that are all the lane remembers.  A block, *)
(* a hold, quiet hours, the time between two attempts, spent page loads or *)
(* a browser that is away leave the pair as it is: the step is not taken.  *)
(***************************************************************************)
EXTENDS Thing

CONSTANTS
    Attempts,       \* PUBLISH_MAX_ATTEMPTS
    Goes,           \* MAX_DRIVE_ATTEMPTS
    Categories      \* the Craigslist categories that fit the item

ASSUME CrossPostAssumption == {Attempts, Goes, Categories} \subseteq Nat \ {0}

VARIABLES
    rows,       \* the publish rows of the pair, oldest first
    drive,      \* where the lane's publish is
    gone,       \* deps.attempts: the refusals in a row before the pair is spent
    check       \* where a read of the Craigslist post is

crossVars == <<rows, drive, gone, check>>

NoDrive == [at |-> "idle", shows |-> [f \in Fields |-> 0], post |-> 0]
Rows == 1..Len(rows)
UnsettledPosts(r) == r.status \in {"queued", "running"}
PublishInFlight == \E n \in Rows : UnsettledPosts(rows[n])

Row(st) == [status |-> st, unverified |-> FALSE, retired |-> FALSE, review |-> FALSE,
                reported |-> "owed"]

\* _shots_spent: what an attempt costs the pair.
Cost(r) == IF UnsettledPosts(r) \/ r.unverified \/ r.retired THEN Attempts ELSE 1
Costs[n \in 0..Len(rows)] == IF n = 0 THEN 0 ELSE Costs[n - 1] + Cost(rows[n])
Spent == Costs[Len(rows)] >= Attempts

\* _shots_out: the same sum as reporting makes it.  A row that may have gone through is one
\* attempt here, and every attempt there.
OutCost(r) == IF UnsettledPosts(r) THEN 0 ELSE IF r.retired THEN Attempts ELSE 1
OutCosts[n \in 0..Len(rows)] == IF n = 0 THEN 0 ELSE OutCosts[n - 1] + OutCost(rows[n])
ShotsOut == OutCosts[Len(rows)] >= Attempts

\* Mutant of Wanted: a row that may have gone through counts as one attempt.
WantedAgain(looked, there) ==
    /\ item.known /\ item.rail /\ ~item.sold /\ ~Listed /\ looked /\ ~there
    /\ OutCosts[Len(rows)] < Attempts /\ ~PublishInFlight

\* pending_pairs: the item is on the rail, unsold, not recorded on the marketplace; what the
\* seller has there has been looked at and does not include it; the pair has a go left.
Wanted(looked, there) ==
    item.known /\ item.rail /\ ~item.sold /\ ~Listed /\ looked /\ ~there /\ ~Spent

-----------------------------------------------------------------------------
(* A publish driven through the form.                                      *)

\* next_category: one not tried yet.
Untried == Cardinality({n \in Rows : ~rows[n].retired}) < Categories

StartDrive(looked, there) ==
    /\ kind # "recipe" /\ drive.at = "idle" /\ check = "no"
    /\ ~PublishInFlight /\ Wanted(looked, there)
    /\ IF kind = "craigslist" /\ ~Untried
       THEN /\ rows' = Append(rows, [Row("error") EXCEPT !.retired = TRUE])
            /\ UNCHANGED drive
       ELSE /\ drive' = [at |-> "filling", shows |-> item.rec, post |-> 0]
            /\ UNCHANGED rows
    /\ UNCHANGED <<thing, gone, check>>

\* PublishNeedsSeller, PublishSignedOut, PagesSpent, BrowserUnavailable before the click:
\* nothing was created and nothing is counted.
HandedBack ==
    /\ drive.at = "filling"
    /\ drive' = NoDrive
    /\ UNCHANGED <<thing, rows, gone, check>>

\* PublishNotAttempted before the row is written: retried a few times in process, then the
\* attempt is spent.  One that cannot come out differently is spent at once.
NotAttempted ==
    /\ drive.at = "filling"
    /\ drive' = NoDrive
    /\ \E retryable \in BOOLEAN :
         IF ~retryable \/ gone + 1 >= Goes
         THEN gone' = 0 /\ rows' = Append(rows, Row("error"))
         ELSE gone' = gone + 1 /\ UNCHANGED rows
    /\ UNCHANGED <<thing, check>>

\* before_commit: the row is there, unverified, before the click that may create a listing.
BeforeCommit ==
    /\ drive.at = "filling"
    /\ drive' = [drive EXCEPT !.at = "ledgered"]
    /\ rows' = Append(rows, [Row("error") EXCEPT !.unverified = TRUE])
    /\ UNCHANGED <<thing, gone, check>>

\* ControlMoved: refused before the press, which is proof that nothing was created.
ClickRefused ==
    /\ drive.at = "ledgered"
    /\ drive' = NoDrive
    /\ IF gone + 1 >= Goes
       THEN gone' = 0 /\ rows' = [rows EXCEPT ![Len(rows)].unverified = FALSE]
       ELSE gone' = gone + 1 /\ rows' = SubSeq(rows, 1, Len(rows) - 1)
    /\ UNCHANGED <<thing, check>>

\* The click: a listing goes up, or nothing does, and the page may not say which.
Click ==
    /\ drive.at = "ledgered"
    /\ \/ Post(drive.shows) /\ drive' = [drive EXCEPT !.at = "clicked", !.post = Len(posts) + 1]
       \/ UNCHANGED posts /\ drive' = [drive EXCEPT !.at = "clicked"]
    /\ UNCHANGED <<kind, item, want, rows, gone, check>>

\* Its row, once the page has been read.
Settled(r, how) == [r EXCEPT !.status = IF how = "verified" THEN "done" ELSE @,
                             !.unverified = how # "verified", !.review = how = "review"]

\* settle_driven_publish: the listing was read back, with its URL in the same transaction; or it
\* stands in review; or the page did not say.  The refusals counted before stay counted.
Settle(how) ==
    /\ drive.at = "clicked"
    /\ how \in {"verified", "review"} => drive.post # 0 /\ posts[drive.post].up
                                           = (IF how = "verified" THEN "up" ELSE "review")
    /\ drive' = NoDrive
    /\ item' = IF how = "verified" THEN RecordUrl(drive.post) ELSE item
    /\ rows' = [rows EXCEPT ![Len(rows)] = Settled(@, how)]
    /\ UNCHANGED <<kind, posts, want, gone, check>>

\* settle_reviewed_publish: the review cleared; the row owes a report again.
LinkReviewed(n) ==
    /\ rows[n].review /\ drive.at = "idle"
    /\ \E p \in Posts : /\ \A q \in Posts : posts[q].up = "up" <=> q = p
                       /\ item' = RecordUrl(p)
    /\ rows' = [rows EXCEPT ![n] = [@ EXCEPT !.status = "done", !.unverified = FALSE,
                                             !.review = FALSE, !.reported = "owed"]]
    /\ UNCHANGED <<kind, posts, want, drive, gone, check>>

-----------------------------------------------------------------------------
(* A publish handed to a model pass.                                       *)

\* queue_marketplace_publish: the seller asks, past the spent attempts.
Asked(looked, there) == item.known /\ item.rail /\ ~item.sold /\ ~Listed /\ looked /\ ~there

\* enqueue_next, and the tool.
EnqueuePublish(for) ==
    /\ kind = "recipe" /\ ~PublishInFlight /\ for
    /\ rows' = Append(rows, Row("queued"))
    /\ UNCHANGED <<thing, drive, gone, check>>

\* The pass posts the item as it stands.
PassPosts ==
    /\ \E n \in Rows : rows[n].status = "queued" /\ rows' = [rows EXCEPT ![n].status = "running"]
    /\ \/ Post(item.rec)
       \/ UNCHANGED posts
    /\ UNCHANGED <<kind, item, want, drive, gone, check>>

\* record_published_listing_url, with the link the pass read off the page.
PassRecords ==
    /\ \E n \in Rows : rows[n].status = "running"
    /\ posts # <<>> /\ posts[Len(posts)].up = "up" /\ item.url # Len(posts)
    /\ item' = RecordUrl(Len(posts))
    /\ UNCHANGED <<kind, posts, want, crossVars>>

\* The pass ends: by itself, or failed with its process.
PublishPassEnds ==
    /\ \E n \in Rows : rows[n].status = "running" /\
         \E how \in {"done", "error"} : rows' = [rows EXCEPT ![n].status = how]
    /\ UNCHANGED <<thing, drive, gone, check>>

-----------------------------------------------------------------------------
(* The Craigslist check, the report, and the marketplace.                  *)

\* check, first half: the post's page is read and, removed, its URL is dropped.
CheckPost ==
    /\ kind = "craigslist" /\ Listed /\ posts[item.url].up = "down" /\ check = "no"
    /\ Archive
    /\ check' \in IF item.sold THEN {"no"} ELSE {"flagged", "expired"}
    /\ UNCHANGED <<kind, posts, rows, drive, gone>>

\* Its second half: a flagged post goes up again in a category not tried, any other is over.
SettleCheck ==
    /\ check # "no" /\ check' = "no"
    /\ rows' = IF check = "flagged" /\ Untried THEN rows
               ELSE Append(rows, [Row("error") EXCEPT !.retired = TRUE,
                                                      !.reported = "closed"])
    /\ UNCHANGED <<thing, drive, gone>>

\* report_settled: every row settled since the last sweep is announced, or closed in silence
\* because another go is coming.
ReportPublish ==
    /\ drive.at = "idle"
    /\ \E n \in Rows : ~UnsettledPosts(rows[n]) /\ rows[n].reported = "owed"
    /\ LET tells == Listed \/ ShotsOut IN
       /\ rows' = [n \in Rows |->
                     IF UnsettledPosts(rows[n]) \/ rows[n].reported # "owed" THEN rows[n]
                     ELSE [rows[n] EXCEPT !.reported = IF tells \/ rows[n].review THEN "said"
                                                       ELSE "silent"]]
    /\ UNCHANGED <<thing, drive, gone, check>>

\* The marketplace, external: a review clears, a listing is taken down.
Clears(p) ==
    /\ posts[p].up = "review" /\ posts' = [posts EXCEPT ![p].up = "up"]
    /\ UNCHANGED <<kind, item, want, crossVars>>

TakenDown(p) ==
    /\ posts[p].up # "down" /\ ~posts[p].hand /\ kind = "craigslist"
    /\ posts' = [posts EXCEPT ![p].up = "down"]
    /\ UNCHANGED <<kind, item, want, crossVars>>

CrossTypes ==
    /\ \A n \in Rows : rows[n] \in
         [status : {"queued", "running", "done", "error"}, unverified : BOOLEAN,
          retired : BOOLEAN, review : BOOLEAN,
          reported : {"owed", "said", "silent", "closed"}]
    /\ drive \in [at : {"idle", "filling", "ledgered", "clicked"}, shows : Content,
                  post : 0..MaxPosts]
    /\ gone \in 0..Goes - 1 /\ check \in {"no", "flagged", "expired"}
=============================================================================
