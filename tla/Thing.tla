------------------------------- MODULE Thing -------------------------------
(***************************************************************************)
(* One thing the seller sells and one browser marketplace: the item's row  *)
(* (store/items.py), and the listings of it that stand on the marketplace, *)
(* ours and the one the seller may have put up by hand.  The lanes that    *)
(* act on it are in CrossPost, Revisions and Survey; Listings composes     *)
(* them.  What an item says is a version number per field; the listings of *)
(* one thing share its title.                                              *)
(***************************************************************************)
EXTENDS Integers, Sequences, FiniteSets

CONSTANTS
    Fields,         \* what a buyer sees and an edit may change
    MaxEdits,       \* bound: the edits the seller asks for
    MaxPosts        \* bound: the listings ever put up on the marketplace

ASSUME ThingAssumption ==
    /\ IsFiniteSet(Fields)
    /\ {MaxEdits, MaxPosts} \subseteq Nat

VARIABLES
    kind,       \* the marketplace is "driven", "craigslist" (driven, posts are policed), "recipe"
    item,       \* the row of items, and whether its negotiation ended in a sale
    posts,      \* every listing ever put up: where it is, what it shows, whose it is
    want        \* history: what the seller asked each field of this listing to show, 0 for nothing

thing == <<kind, item, posts, want>>

Content == [Fields -> 0..MaxEdits]
Posts == 1..Len(posts)
Live(p) == posts[p].up # "down"

\* The listing the item's row names; archive_listing_url leaves none.
NoUrl == 0
Listed == item.url # NoUrl

\* record_listing_url_in_txn
RecordUrl(p) == [item EXCEPT !.url = p]

\* archive_listing_url: what had been asked of that listing goes with it.
Archive ==
    /\ item' = [item EXCEPT !.url = NoUrl]
    /\ want' = [f \in Fields |-> 0]

\* A listing goes up: in sight at once, or into the marketplace's review.
Post(shows) ==
    /\ Len(posts) < MaxPosts
    /\ \E up \in {"up", "review"} :
         posts' = Append(posts, [up |-> up, shows |-> shows, hand |-> FALSE])

ThingTypes ==
    /\ kind \in {"driven", "craigslist", "recipe"}
    /\ item \in [known : BOOLEAN, rail : BOOLEAN, sold : BOOLEAN, rec : Content,
                 url : 0..MaxPosts]
    /\ Len(posts) <= MaxPosts
    /\ \A p \in Posts : posts[p] \in [up : {"up", "review", "down"}, shows : Content,
                                      hand : BOOLEAN]
    /\ want \in Content
=============================================================================
