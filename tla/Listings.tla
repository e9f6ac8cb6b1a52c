------------------------------ MODULE Listings ------------------------------
(***************************************************************************)
(* The lanes that put one thing on one marketplace and keep it right there:*)
(* the survey that looks first, the fan-out that posts, the revisions that *)
(* follow the seller's edits.  They share the item's row, the marketplace's*)
(* pages and the browser, and the daemon may die between any two of their  *)
(* steps.                                                                  *)
(***************************************************************************)
EXTENDS CrossPost, Revisions, Survey

CONSTANT MaxTroubles    \* bound: what happens meanwhile: deaths, refusals, a sale, second thoughts

ASSUME ListingsAssumption == MaxTroubles \in Nat

VARIABLE troubles       \* how much has

shopVars == <<thing, crossVars, reviseVars, surveyVars, troubles>>

Trouble == troubles < MaxTroubles /\ troubles' = troubles + 1
Smooth == UNCHANGED troubles

\* The item is on carousell.ai and nowhere else, or is not known and the seller has put the
\* thing up by hand; or both.
ShopInit ==
    /\ kind \in {"driven", "craigslist", "recipe"}
    /\ \E known, hand \in BOOLEAN :
         /\ known \/ hand
         /\ hand => kind # "craigslist"
         /\ item = [known |-> known, rail |-> known, sold |-> FALSE,
                    rec |-> [f \in Fields |-> 0], url |-> NoUrl]
         /\ posts = IF hand THEN <<[up |-> "up", shows |-> [f \in Fields |-> 0], hand |-> TRUE]>>
                    ELSE <<>>
    /\ want = [f \in Fields |-> 0]
    /\ rows = <<>> /\ drive = NoDrive /\ gone = 0 /\ check = "no"
    /\ revs = <<>> /\ call = {} /\ edit = NoEdit /\ failed = {}
    /\ survey = [state |-> "none", tries |-> 0] /\ disc = NoDisc /\ adopt = NoAdopt
    /\ troubles = 0

-----------------------------------------------------------------------------
\* browser_busy: a pass that is queued or runs keeps the other lanes off the tab, and a drive
\* holds it to its end.
PassUp == PublishInFlight \/ edit.pass \in {"alive", "looked"} \/ adopt.pass = "running"
ShopBusy == PassUp \/ drive.at # "idle" \/ edit.at \in {"filling", "saved"} \/ adopt.at = "reading"

\* The sale settles, in the negotiation.
Sells ==
    /\ item.known /\ ~item.sold /\ item' = [item EXCEPT !.sold = TRUE]
    /\ Trouble /\ UNCHANGED <<kind, posts, want, crossVars, reviseVars, surveyVars>>

\* The daemon dies and comes back: rows and pages stay, what the lanes kept in process goes,
\* and a pass that ran has ended.
Dies ==
    /\ Trouble
    /\ drive' = NoDrive /\ gone' = 0 /\ check' = "no"
    /\ rows' = [n \in Rows |-> IF rows[n].status = "running"
                               THEN [rows[n] EXCEPT !.status = "error"] ELSE rows[n]]
    /\ call' = {} /\ failed' = failed \cup call
    /\ edit' = [edit EXCEPT !.at = IF @ \in {"idle", "attached"} THEN @ ELSE "left",
                            !.pass = IF @ = "looked" THEN "ended" ELSE @]
    /\ adopt' = [adopt EXCEPT !.at = "idle"]
    /\ UNCHANGED <<thing, revs, survey, disc>>

CrossStep ==
    \/ Smooth /\ \/ ~ShopBusy /\ StartDrive(Looked, There)
                 \/ BeforeCommit \/ Click
                 \/ \E how \in {"verified", "review"} : Settle(how)
                 \/ \E n \in Rows : ~ShopBusy /\ LinkReviewed(n)
                 \/ EnqueuePublish(Wanted(Looked, There))
                 \/ PassPosts \/ PassRecords \/ PublishPassEnds \/ CheckPost
                 \/ SettleCheck \/ ReportPublish
                 \/ \E p \in Posts : Clears(p)
    \/ Trouble /\ \/ HandedBack \/ NotAttempted \/ ClickRefused \/ Settle("unknown")
                  \/ EnqueuePublish(Asked(Looked, There))
                  \/ \E p \in Posts : TakenDown(p)

ReviseStep ==
    \/ Smooth /\ \/ \E changed \in SUBSET Fields : Revise(changed)
                 \/ QueueRevision \/ Claim(ShopBusy) \/ RefuseEdit \/ StartEdit \/ AttachPass
                 \/ Save \/ Confirm \/ PassSaves \/ SettleOrphan
                 \/ PassSays("done") \/ ReportEdit
    \/ Trouble /\ (CallLost \/ EditFails \/ EditPassEnds \/ PassSays("failed"))

SurveyStep ==
    \/ Smooth /\ \/ RequestSurvey
                 \/ ~ShopBusy /\ (Look \/ AdoptLinks \/ AdoptReads)
                 \/ Accept \/ Decline
                 \/ AdoptWrites \/ RailIsThere \/ RailEnqueues(PublishInFlight) \/ RailQueued
                 \/ RailPassEnds \/ SettleRail
    \/ Trouble /\ ((~ShopBusy /\ Unserved) \/ Expire \/ Reopen \/ RetryRail \/ AdoptFails \/ AdoptRetries \/ RailRefused)

ShopNext ==
    \/ CrossStep /\ UNCHANGED <<reviseVars, surveyVars>>
    \/ ReviseStep /\ UNCHANGED <<crossVars, surveyVars>>
    \/ SurveyStep /\ UNCHANGED <<crossVars, reviseVars>>
    \/ Sells \/ Dies

ShopSpec == ShopInit /\ [][ShopNext]_shopVars

-----------------------------------------------------------------------------
(* Properties                                                              *)

ShopTypes == ThingTypes /\ CrossTypes /\ ReviseTypes /\ SurveyTypes /\ troubles \in 0..MaxTroubles

\* Where the fan-out drives the form itself, the seller never has two listings of one thing on
\* a marketplace: not with their own, not with one whose outcome it never learned, whatever
\* dies between the click and its row (before_commit, looked_first).
OneOfAThing == kind # "recipe" => Cardinality({p \in Posts : Live(p)}) <= 1

\* A listing that does not show what the seller asked of it is owed the change, or the seller
\* has been told that it did not take: no supersede, retry, crash, or edit that ran meanwhile
\* loses a field (queue_listing_revision, settle_orphans, report_settled).
EditIsOwed ==
    \A f \in Fields :
        /\ Listed /\ want[f] # 0 /\ posts[item.url].shows[f] # want[f]
        => \/ f \in call \cup failed \cup Owed
           \/ \E n \in InStatus("failed") \cap Unreported : f \in revs[n].changed

\* A listing the seller declined, or took back by asking anew, is not taken over by the
\* adoption that was reading it (ListingGone).
NoMeansNo == [][~item.known /\ item'.known => disc.st = "accepted" /\ disc'.st = "adopted"]_shopVars
=============================================================================
