----------------------------- MODULE Revisions -----------------------------
(***************************************************************************)
(* A seller's edit on its way to a listing: the tool that records it and   *)
(* owes it (tools/revise.py), the queue of what is owed                    *)
(* (store/revisions.py), and the lane that drives the edit form or hands   *)
(* the edit to a pass (revise.py, browser/editor.py).  A queued edit can   *)
(* be made there; where it cannot, the tool hands the seller the link.     *)
(***************************************************************************)
EXTENDS Thing

CONSTANT Tries      \* REVISE_MAX_ATTEMPTS

ASSUME RevisionsAssumption == Tries \in Nat \ {0}

VARIABLES
    revs,       \* the rows of listing_revisions, oldest first
    call,       \* the fields update_live_listing has recorded and not yet queued
    edit,       \* where the one running edit is
    failed      \* history: the fields the seller was told did not change, since last asked

reviseVars == <<revs, call, edit, failed>>

NoEdit == [at |-> "idle", changed |-> {}, shows |-> [f \in Fields |-> 0], post |-> 0, pass |-> "none"]
Revs == 1..Len(revs)
InStatus(st) == {n \in Revs : revs[n].status = st}
Owing == {n \in Revs : revs[n].status \in {"pending", "running"}}
Owed == UNION {revs[n].changed : n \in Owing}
Running == CHOOSE n \in Revs : revs[n].status = "running"

\* unreported_listing_revisions: settled, and the seller not told; a superseded row owes nothing.
Unreported == {n \in InStatus("done") \cup InStatus("failed") : ~revs[n].reported}

Pending(changed) == [changed |-> changed, status |-> "pending", tries |-> 0, reported |-> FALSE]
Superseded == [n \in Revs |-> IF revs[n].status = "pending"
                              THEN [revs[n] EXCEPT !.status = "superseded"] ELSE revs[n]]

-----------------------------------------------------------------------------
(* The tool.                                                               *)

\* update_live_listing, its record: the item says the new thing from here on.
Revise(changed) ==
    /\ item.known /\ ~item.sold /\ call = {} /\ changed # {}
    /\ \A f \in changed : item.rec[f] < MaxEdits
    /\ item' = [item EXCEPT !.rec = [f \in Fields |-> @[f] + (IF f \in changed THEN 1 ELSE 0)]]
    /\ call' = IF Listed THEN changed ELSE {}
    /\ want' = IF Listed
               THEN [f \in Fields |-> IF f \in changed THEN item.rec[f] + 1 ELSE want[f]]
               ELSE want
    /\ failed' = failed \ changed
    /\ UNCHANGED <<kind, posts, revs, edit>>

\* Mutant of QueueRevision: the new row names what this edit changed and no more.
QueueRevisionAlone ==
    /\ call # {} /\ call' = {}
    /\ revs' = Append(Superseded, Pending(call))
    /\ UNCHANGED <<thing, edit, failed>>

\* queue_listing_revision: it supersedes what is pending and carries its fields, and those of
\* the edit that runs, which may yet fail.
QueueRevision ==
    /\ call # {} /\ call' = {}
    /\ revs' = Append(Superseded, Pending(call \cup Owed))
    /\ UNCHANGED <<thing, edit, failed>>

\* The turn dies between the two: the seller is told that it failed (SellerDesk).
CallLost ==
    /\ call # {} /\ call' = {}
    /\ failed' = failed \cup call
    /\ UNCHANGED <<thing, revs, edit>>

-----------------------------------------------------------------------------
(* The lane.                                                               *)

Taken(r) == [r EXCEPT !.status = "running", !.tries = @ + 1]

\* run_next and claim_listing_revision: one at a time, one whose REVISE_RETRY_AFTER_SEC has
\* passed, when no pass holds the browser.
Claim(busy) ==
    /\ InStatus("running") = {} /\ ~busy /\ edit.pass \notin {"alive", "looked"}
    /\ \E n \in InStatus("pending") :
         revs' = [revs EXCEPT ![n] = Taken(@)]
    /\ edit' = [NoEdit EXCEPT !.at = "claimed"]
    /\ UNCHANGED <<thing, call, failed>>

\* finish_listing_revision, which moves a running row only.
Finish(st) == revs' = [revs EXCEPT ![Running].status = st]

\* _settle_or_retry
SettleOrRetry == Finish(IF revs[Running].tries < Tries THEN "pending" ELSE "failed")

\* _refusal: the world moved between the ask and the claim.
RefuseEdit ==
    /\ edit.at = "claimed" /\ (item.sold \/ ~Listed)
    /\ Finish("failed") /\ edit' = NoEdit
    /\ UNCHANGED <<thing, call, failed>>

\* The lane reads the item and opens the form, or hands the edit to a pass.
StartEdit ==
    /\ edit.at = "claimed" /\ Listed /\ ~item.sold
    /\ edit' = [at |-> IF kind = "recipe" THEN "passed" ELSE "filling",
                changed |-> revs[Running].changed, post |-> item.url,
                shows |-> IF kind = "recipe" THEN NoEdit.shows ELSE item.rec,
                pass |-> IF kind = "recipe" THEN "alive" ELSE "none"]
    /\ UNCHANGED <<thing, revs, call, failed>>

\* attach_revision_pass
AttachPass ==
    /\ edit.at = "passed" /\ edit' = [edit EXCEPT !.at = "attached"]
    /\ UNCHANGED <<thing, revs, call, failed>>

\* Save: the marketplace takes all of the change, some of it or none.
Saves(shows) ==
    \E took \in SUBSET edit.changed :
        posts' = [posts EXCEPT ![edit.post].shows =
                    [f \in Fields |-> IF f \in took THEN shows[f] ELSE @[f]]]

Save ==
    /\ edit.at = "filling"
    /\ Saves(edit.shows)
    /\ edit' = [edit EXCEPT !.at = "saved"]
    /\ UNCHANGED <<kind, item, want, revs, call, failed>>

\* _confirm, or the pass's own reading of the page: every changed field shows.
Confirms == \A f \in edit.changed : posts[edit.post].shows[f] = edit.shows[f]

Confirm ==
    /\ edit.at = "saved" /\ edit' = NoEdit
    /\ IF Confirms THEN Finish("done") ELSE SettleOrRetry
    /\ UNCHANGED <<thing, call, failed>>

\* ReviseSignedOut, ReviseNotAttempted, ReviseUnverified, or a browser that goes away.
EditFails ==
    /\ edit.at \in {"filling", "saved"} /\ edit' = NoEdit
    /\ \/ SettleOrRetry
       \/ edit.at = "filling" /\ Finish("failed")
    /\ UNCHANGED <<thing, call, failed>>

\* The edit pass reads the item and saves, whatever has become of its row.
PassSaves ==
    /\ edit.pass = "alive"
    /\ Saves(item.rec)
    /\ edit' = [edit EXCEPT !.shows = item.rec, !.pass = "looked"]
    /\ UNCHANGED <<kind, item, want, revs, call, failed>>

\* record_listing_revision, from the pass the row is attached to.
PassSays(how) ==
    /\ edit.at = "attached" /\ edit.pass = "looked"
    /\ how = "done" => Confirms
    /\ Finish(how) /\ edit' = NoEdit
    /\ UNCHANGED <<thing, call, failed>>

EditPassEnds ==
    /\ edit.pass \in {"alive", "looked"}
    /\ edit' = [edit EXCEPT !.pass = "ended"]
    /\ UNCHANGED <<thing, revs, call, failed>>

\* settle_orphans: the pass ended in silence, or nothing is known of the row for half an hour.
SettleOrphan ==
    /\ InStatus("running") # {}
    /\ \/ edit.at = "attached" /\ edit.pass = "ended"
       \/ edit.at = "left"
    /\ SettleOrRetry
    /\ edit' = [edit EXCEPT !.at = "idle"]
    /\ UNCHANGED <<thing, call, failed>>

\* Mutant of Covered: any edit still owed will do.
CoveredByAny(n) == Owing # {}

\* report_settled: in silence where an edit still owed covers every field of this one.
Covered(n) == \E m \in Owing : revs[n].changed \subseteq revs[m].changed

ReportEdit ==
    /\ \E n \in Unreported :
         /\ failed' = IF revs[n].status = "failed" /\ ~Covered(n)
                      THEN failed \cup revs[n].changed ELSE failed
         /\ revs' = [revs EXCEPT ![n].reported = TRUE]
    /\ UNCHANGED <<thing, call, edit>>

ReviseTypes ==
    /\ \A n \in Revs : revs[n] \in [changed : SUBSET Fields, tries : 0..Tries, reported : BOOLEAN,
                                    status : {"pending", "running", "done", "failed",
                                              "superseded"}]
    /\ call \subseteq Fields /\ failed \subseteq Fields
    /\ edit \in [at : {"idle", "claimed", "filling", "saved", "passed", "attached", "left"},
                 changed : SUBSET Fields, shows : Content, post : 0..MaxPosts,
                 pass : {"none", "alive", "looked", "ended"}]
=============================================================================
