----------------------------- MODULE PostDrive -----------------------------
(***************************************************************************)
(* One drive of a marketplace's form, from the first page to what the      *)
(* driver answers.  "form" fills the one page Facebook has and presses     *)
(* Next and Publish (browser/publisher.py); "steps" walks Craigslist's     *)
(* posting form page by page, and "edit" changes a live post from its      *)
(* manage page (browser/craigslist_publisher.py).                          *)
(*                                                                         *)
(* A driver answers one of three things: nothing was created or changed,   *)
(* something may have been, or it has seen that it was.  The lanes retry   *)
(* or give up by that answer.  The page is the marketplace's: it may show  *)
(* any step, keep other words than were typed, be slow, refuse, or do what *)
(* a press asks although the press itself fails.                           *)
(***************************************************************************)
EXTENDS Naturals

CONSTANTS MaxSteps,     \* MAX_STEPS: the pages a walk looks at before it calls the form a loop
          Images        \* photographs the item has, and those the live post has

ASSUME PostDriveAssumption == MaxSteps \in Nat /\ Images \in Nat \ {0}

VARIABLES
    drives,     \* what is driven
    halves,     \* what an edit changes, "text", "photos" or both
    left,       \* the halves still to make
    tab,        \* what the tab shows, and what the form on it holds
    post,       \* what the marketplace holds of ours
    at,         \* where the driver is
    lastRead,   \* the step it has last read
    steps,      \* the pages it has looked at in this walk
    saved,      \* an edit: the first half went through
    wrong,      \* an edit: what was read back is not what was asked
    touched,    \* an edit: an image was taken off
    outcome     \* the answer: "nothing", "maybe", "verified"

driveVars == <<drives, halves, left, tab, post, at, lastRead, steps, saved, wrong, touched, outcome>>
kept == <<saved, wrong, touched>>

\* A box, or a page, shows nothing, what was asked, or something else.
Words == {"title", "price"}
Readings == {"", "asked", "other"}
Blank == [w \in Words |-> ""]

Steps == <<"copyfromanother", "subarea", "hood", "type", "cat", "edit", "geoverify",
           "editimage", "preview">>
Walked == {Steps[k] : k \in 1..8}

\* The pages a submitted one leads to: itself when it is refused, a later one, the terms of
\* use, one nobody knows.
After(s) ==
    {s, "terms", "unknown"} \cup
    {Steps[k] : k \in {n \in 1..9 : \A m \in 1..9 : Steps[m] = s => m < n}}

NoPost == [up |-> FALSE, shows |-> Blank, boost |-> FALSE, images |-> 0]
OldPost == [up |-> TRUE, shows |-> [w \in Words |-> "other"], boost |-> FALSE, images |-> Images]
Before == IF drives = "edit" THEN OldPost ELSE NoPost

PostInit ==
    /\ drives \in {"form", "steps", "edit"}
    /\ halves \in IF drives = "edit" THEN (SUBSET {"text", "photos"}) \ {{}} ELSE {{}}
    /\ left = halves
    /\ post = Before
    /\ tab = [step |-> "", in |-> TRUE, box |-> Blank, boost |-> FALSE, images |-> 0]
    /\ at = "open" /\ lastRead = "" /\ steps = 0
    /\ saved = FALSE /\ wrong = FALSE /\ touched = FALSE /\ outcome = ""

Half == IF "text" \in left THEN "text" ELSE "photos"

StepsTo(pc) == at' = pc /\ UNCHANGED <<drives, halves, left, outcome>>
Says(o) == outcome' = o /\ at' = "done" /\ UNCHANGED <<drives, halves, left, lastRead, steps, kept>>

\* PublishNotAttempted: nothing was created.  A half that fails after the other went through
\* cannot say so, nor can the images step's own refusals once an image is off; a browser call
\* that fails while the old images are coming off says it all the same.
Refusals ==
    CASE saved -> {"maybe"}
      [] at = "images" /\ ~saved -> IF tab.images = 0 THEN {"maybe"} ELSE {"nothing", "maybe"}
      [] OTHER -> {"nothing"}
Refuses == \E o \in Refusals : Says(o)

\* A browser call fails, a control is missing, a wall is up, the page loads of the hour are
\* spent, a page does not come, the item or the seller lacks what the page asks for: all of it
\* before the press.
Filling == {"open", "read", "act", "images", "wait", "preview", "press",
            "fill", "attach", "type", "choose", "boost", "check", "commit"}
Fails == at \in Filling /\ Refuses /\ UNCHANGED <<tab, post>>

-----------------------------------------------------------------------------
(* The walk                                                                *)

\* The posting address; the manage page, and its control that opens the half to be made.
Opens ==
    /\ at = "open" /\ steps' = 0 /\ lastRead' = ""
    /\ \E in \in BOOLEAN :
         \/ drives = "form" /\ tab' = [tab EXCEPT !.in = in] /\ StepsTo("fill")
         \/ /\ drives = "steps" /\ StepsTo("read")
            /\ \E s \in {"copyfromanother", "subarea", "type", "terms", "unknown"} :
                 tab' = [tab EXCEPT !.in = in, !.step = s]
         \/ /\ drives = "edit" /\ in /\ StepsTo("read")
            /\ \E s \in {IF Half = "text" THEN "edit" ELSE "editimage", "unknown"} :
                 tab' = [tab EXCEPT !.step = s, !.box = post.shows, !.images = post.images]
    /\ UNCHANGED <<post, kept>>

\* One look at the page.  Only the posting form may show the terms, which are accepted.
Known == IF drives = "steps" THEN Walked ELSE {"edit", "geoverify", "editimage"}
LooksAtPage ==
    /\ at = "read" /\ steps < MaxSteps
    /\ steps' = steps + 1 /\ lastRead' = tab.step
    /\ \/ /\ drives = "steps" /\ tab.step = "terms" /\ StepsTo("wait")
          /\ \E s \in After("terms") : tab' = [tab EXCEPT !.step = s]
       \/ /\ tab.step \in Known \cup {"preview"} /\ (drives = "steps" => tab.in)
          /\ StepsTo(IF tab.step = "preview" THEN "preview" ELSE "act") /\ UNCHANGED tab
    /\ UNCHANGED <<post, kept>>

\* The form is read back before it is submitted: a price box that shows no number says nothing.
ReadBackTitle(box) == box.title = "asked"
ReadBack(box) == box.title = "asked" /\ box.price # "other"

Submits(p) ==
    /\ \E s \in After(lastRead), in \in BOOLEAN : tab' = [p EXCEPT !.step = s, !.in = in]
    /\ StepsTo("wait") /\ UNCHANGED <<lastRead, steps>>

\* The marketplace may keep other words than the form showed.
FillsEdit ==
    /\ at = "act" /\ lastRead = "edit"
    /\ IF drives = "edit" /\ Half = "photos"
       THEN Submits(tab)
       ELSE \E typed, held \in [Words -> Readings] :
              ReadBack(typed) /\ Submits([tab EXCEPT !.box = held])
    /\ UNCHANGED <<post, kept>>

\* The step's one choice that fits: the seller's area, past the neighborhood, a new posting,
\* for sale by owner, the category.
PicksChoice ==
    /\ at = "act" /\ lastRead \in {"copyfromanother", "subarea", "hood", "type", "cat"}
    /\ Submits(tab) /\ UNCHANGED <<post, kept>>

TakesMap == at = "act" /\ lastRead = "geoverify" /\ Submits(tab) /\ UNCHANGED <<post, kept>>

\* All of the new posting's photographs are up, if it has any, before the step is done.
UploadsImages ==
    /\ at = "act" /\ drives = "steps" /\ lastRead = "editimage"
    /\ \E n \in {0, Images} : Submits([tab EXCEPT !.images = n])
    /\ UNCHANGED <<post, kept>>

\* An edit takes every old image off, one at a time; whether the live post loses them at once,
\* the driver cannot tell.  It refuses this page when it came for the words.
AtImages == drives = "edit" /\ Half = "photos" /\ lastRead = "editimage" /\ at \in {"act", "images"}

TakesImageOff ==
    /\ AtImages /\ tab.images > 0
    /\ tab' = [tab EXCEPT !.images = @ - 1] /\ touched' = TRUE
    /\ post' \in {post, [post EXCEPT !.images = tab.images - 1]}
    /\ UNCHANGED <<lastRead, steps, saved, wrong>>
    /\ \/ StepsTo("images")
       \/ \* the click raised although it was made
          /\ outcome' = (IF saved THEN "maybe" ELSE "nothing") /\ at' = "done"
          /\ UNCHANGED <<drives, halves, left>>

PutsImagesOn ==
    /\ AtImages /\ tab.images = 0
    /\ Submits([tab EXCEPT !.images = Images])
    /\ post' \in {post, [post EXCEPT !.images = Images]}
    /\ UNCHANGED kept

\* The next page has come.
WaitsPast ==
    /\ at = "wait" /\ tab.step # lastRead /\ StepsTo("read")
    /\ UNCHANGED <<tab, post, lastRead, steps, kept>>

\* The preview shows the post as a buyer will see it; an edit's, each changed word.
PreviewShows == (drives = "edit" /\ Half = "photos") \/ \A w \in Words : tab.box[w] = "asked"
ChecksPreview ==
    /\ at = "preview" /\ PreviewShows /\ StepsTo("press")
    /\ UNCHANGED <<tab, post, lastRead, steps, kept>>

-----------------------------------------------------------------------------
(* The press, and what it led to                                           *)

\* A post goes up as the page last looked at showed it: Craigslist's preview, or the one-page
\* form, which nothing reads again once it is submitted.
Posted ==
    [up |-> TRUE,
     shows |-> IF drives = "edit" /\ Half = "photos" THEN post.shows ELSE tab.box,
     boost |-> tab.boost,
     images |-> IF drives = "edit" /\ Half = "text" THEN post.images ELSE tab.images]

\* The publish button, pressed: the post goes up, or it does not, or the terms come first.
Pressed ==
    \/ post' = Posted /\ \E s \in {"confirmed", "preview", "unknown"} : tab' = [tab EXCEPT !.step = s]
    \/ post' = post /\ \E s \in {"terms", "preview", "unknown"} : tab' = [tab EXCEPT !.step = s]

Presses ==
    /\ at = "press" /\ Pressed
    /\ \/ /\ StepsTo(IF drives = "edit" THEN "confirm" ELSE "pressed")
          /\ UNCHANGED <<lastRead, steps, kept>>
       \/ Says("maybe")

\* A press refused before it was made (ControlMoved) created nothing: Fails.  From here on, a
\* failure is a doubt.
Doubtful == {"pressed", "result", "confirm", "publish"}
NotConfirmedRetried == at \in Doubtful /\ Says("nothing") /\ UNCHANGED <<tab, post>>
NotConfirmed == at \in Doubtful /\ Says("maybe") /\ UNCHANGED <<tab, post>>

AcceptsTerms ==
    /\ at = "pressed" /\ tab.step = "terms" /\ StepsTo("result")
    /\ \/ post' = Posted /\ tab' = [tab EXCEPT !.step = "confirmed"]
       \/ post' \in {Posted, post} /\ tab' = [tab EXCEPT !.step = "unknown"]
    /\ UNCHANGED <<lastRead, steps, kept>>

\* The confirmation, its manage link, the post's own address there.
SeesPost ==
    /\ at \in {"pressed", "result"} /\ drives = "steps" /\ tab.step = "confirmed"
    /\ Says("verified") /\ UNCHANGED <<tab, post>>

\* The manage page again, and the images a fresh edit starts from.
HalfShows == IF Half = "text" THEN \A w \in Words : post.shows[w] = "asked" ELSE post.images = Images
ReadsBack ==
    /\ at = "confirm"
    /\ LET bad == wrong \/ ~HalfShows IN
       \/ /\ left = {Half} /\ Says(IF bad THEN "maybe" ELSE "verified")
          /\ UNCHANGED <<tab, post>>
       \/ /\ left # {Half} /\ left' = left \ {Half} /\ at' = "open"
          /\ saved' = TRUE /\ wrong' = bad
          /\ UNCHANGED <<drives, halves, tab, post, lastRead, steps, touched, outcome>>

-----------------------------------------------------------------------------
(* The one-page form                                                       *)

\* Every control the form must have is marked by the label beside it; one missing refuses.
FindsFields ==
    /\ at = "fill" /\ StepsTo("attach")
    /\ \E boost \in BOOLEAN : tab' = [tab EXCEPT !.boost = boost]
    /\ UNCHANGED <<post, lastRead, steps, kept>>

AttachesPhotos ==
    /\ at = "attach" /\ StepsTo("type")
    /\ \E n \in {0, Images} : tab' = [tab EXCEPT !.images = n]
    /\ UNCHANGED <<post, lastRead, steps, kept>>

\* What is typed is not what a box may come to hold.
FillsText ==
    /\ at = "type" /\ StepsTo("choose")
    /\ \E box \in [Words -> Readings] : tab' = [tab EXCEPT !.box = box]
    /\ UNCHANGED <<post, lastRead, steps, kept>>

\* Condition, category and place; choosing may touch the promotion.
ChoosesOptions ==
    /\ at = "choose" /\ StepsTo("boost")
    /\ \E boost \in BOOLEAN : tab' = [tab EXCEPT !.boost = boost]
    /\ UNCHANGED <<post, lastRead, steps, kept>>

RefusesPromotion ==
    /\ at = "boost" /\ StepsTo("check")
    /\ tab' = [tab EXCEPT !.boost = FALSE]
    /\ UNCHANGED <<post, lastRead, steps, kept>>

VerifiesForm ==
    /\ at = "check" /\ ReadBack(tab.box) /\ StepsTo("commit")
    /\ UNCHANGED <<tab, post, lastRead, steps, kept>>

\* Next: the driver does not rely on it creating nothing.
PressesNext ==
    /\ at = "commit" /\ post' \in {post, Posted}
    /\ \/ StepsTo("publish") /\ UNCHANGED <<lastRead, steps, kept>>
       \/ Says("maybe")
    /\ UNCHANGED tab

PressesPublish ==
    /\ at = "publish" /\ post' \in {post, Posted} /\ StepsTo("result")
    /\ UNCHANGED <<tab, lastRead, steps, kept>>

\* The page names the listing, or the seller's own listings show one, and one only, of its title.
FindsListing ==
    /\ at = "result" /\ drives = "form" /\ post.up
    /\ Says("verified") /\ UNCHANGED <<tab, post>>

PostNext ==
    \/ Fails \/ Opens \/ LooksAtPage \/ FillsEdit \/ PicksChoice \/ TakesMap \/ UploadsImages
    \/ TakesImageOff \/ PutsImagesOn \/ WaitsPast \/ ChecksPreview \/ Presses \/ NotConfirmed \/ AcceptsTerms \/ SeesPost \/ ReadsBack
    \/ FindsFields \/ AttachesPhotos \/ FillsText \/ ChoosesOptions
    \/ RefusesPromotion \/ VerifiesForm \/ PressesNext \/ PressesPublish \/ FindsListing

PostSpec == PostInit /\ [][PostNext]_driveVars

-----------------------------------------------------------------------------
(* Properties                                                              *)

PostTypes ==
    /\ drives \in {"form", "steps", "edit"} /\ halves \subseteq {"text", "photos"}
    /\ left \subseteq halves
    /\ tab.images \in 0..Images /\ post.images \in 0..Images
    /\ steps \in 0..MaxSteps /\ outcome \in {"", "nothing", "maybe", "verified"}

\* What lets a lane post again: a driver says that nothing was created, or changed, only when
\* that is so, at whichever page, press or read it failed.  The photographs of an edit are
\* another matter (TouchedIsTold).
NothingMeansNothing == outcome = "nothing" /\ "photos" \notin halves => post = Before

\* A post never goes up under another title or at another price than asked, nor with a paid
\* promotion, however the form garbled what was typed or the marketplace what was submitted.
PostsWhatWasAsked ==
    post.up /\ drives # "edit" =>
        post.shows.title = "asked" /\ post.shows.price # "other" /\ ~post.boost

\* The module says of an edit: "not attempted until something may have changed the post,
\* unverified from then on"; once an image is off, it never answers that nothing was changed.
TouchedIsTold == outcome = "nothing" => ~touched
=============================================================================
