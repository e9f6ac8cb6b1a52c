----------------------------- MODULE ApartProofs -----------------------------
(***************************************************************************)
(* Proofs about five parts that share no row: the ledger of settings for   *)
(* any markets and any number of changes; one drive of a marketplace's     *)
(* form for any number of pages and images; the engine that buys, for any  *)
(* number of sellers and calls and every ask, budget and offer by hand;    *)
(* the lanes that look at one marketplace, for any conversations,          *)
(* messages, walls and visits; and the commands that replace the daemon's  *)
(* code, for any releases, migrations and number of commands.              *)
(***************************************************************************)
EXTENDS SettingsLedger, PostDrive, BuyerNegotiation, MarketWatch, Update, TLAPS

-----------------------------------------------------------------------------
(* The ledger of settings.                                                 *)

ChangeRow == [value : SUBSET Markets, prior : SUBSET Markets, status : Status,
              old : BOOLEAN, undo : BOOLEAN]

\* A sequence written row by row.
LEMMA RowByRow ==
    ASSUME NEW S, NEW T, NEW s \in Seq(S), NEW r,
           r = [k \in DOMAIN s |-> r[k]], \A k \in DOMAIN s : r[k] \in T
    PROVE  r \in Seq(T) /\ DOMAIN r = DOMAIN s /\ Len(r) = Len(s)
<1>1. Len(s) \in Nat /\ DOMAIN s = 1..Len(s)
  OBVIOUS
<1>2. r \in [1..Len(s) -> T]
  BY <1>1
<1> QED
  BY <1>1, <1>2

LEMMA LedgerTypesInit == LedgerInit => LedgerTypes
  BY DEF LedgerInit, LedgerTypes, NoCall, Doors

LEMMA SupersedeTypes ==
    ASSUME LedgerTypes
    PROVE  /\ Supersede \in Seq(ChangeRow) /\ DOMAIN Supersede = Changes
           /\ Len(Supersede) = Len(changes)
<1>1. changes \in Seq(ChangeRow)
  BY DEF LedgerTypes, ChangeRow
<1>2. \A c \in Changes : changes[c] \in ChangeRow
  BY <1>1 DEF Changes
<1>3. \A c \in Changes : Supersede[c] \in ChangeRow
  BY <1>2 DEF Supersede, ChangeRow, Status, Changes
<1> QED
  BY <1>1, <1>3, RowByRow DEF Supersede, Changes

LEMMA LedgerTypesStep == LedgerTypes /\ [LedgerNext]_ledgerVars => LedgerTypes'
<1> SUFFICES ASSUME LedgerTypes, [LedgerNext]_ledgerVars PROVE LedgerTypes'
  OBVIOUS
<1> USE LedgerAssumption
<1>0. changes \in Seq(ChangeRow)
  BY DEF LedgerTypes, ChangeRow
<1>1. /\ settings \subseteq Markets /\ signIn \subseteq Markets
      /\ changes \in Seq(ChangeRow) /\ Changes = DOMAIN changes
      /\ \A c \in Changes : changes[c] \in ChangeRow
      /\ door \in [Doors -> [step : {"idle", "list", "write"}, value : SUBSET Markets,
                             prior : SUBSET Markets, adds : SUBSET Markets]]
  BY <1>0 DEF LedgerTypes, Changes
<1>2. ASSUME changes' \in Seq(ChangeRow), settings' \subseteq Markets, signIn' \subseteq Markets,
             door' \in [Doors -> [step : {"idle", "list", "write"}, value : SUBSET Markets,
                                  prior : SUBSET Markets, adds : SUBSET Markets]]
      PROVE  LedgerTypes'
  BY <1>2 DEF LedgerTypes, ChangeRow
<1>3. ASSUME NEW v \in SUBSET Markets, NEW p \in SUBSET Markets, NEW s \in Status
      PROVE  Change(v, p, s) \in ChangeRow
  BY <1>3 DEF Change, ChangeRow
<1>4. ASSUME NEW c \in Changes, NEW s \in Status, Decide(c, s) PROVE changes' \in Seq(ChangeRow)
  <2>1. \A e \in Changes : changes'[e] \in ChangeRow
    BY <1>1, <1>4 DEF Decide, ChangeRow
  <2>2. changes' = [e \in DOMAIN changes |-> changes'[e]]
    BY <1>1, <1>4 DEF Decide
  <2> QED
    BY <1>1, <2>1, <2>2, RowByRow
<1>5. ASSUME NEW d \in Doors, Writes(d) PROVE LedgerTypes'
  <2>1. /\ Supersede \in Seq(ChangeRow) /\ door[d].value \in SUBSET Markets
        /\ door[d].prior \in SUBSET Markets /\ door[d].adds \in SUBSET Markets
    BY <1>1, SupersedeTypes
  <2>2. changes' \in Seq(ChangeRow)
    <3>1. PICK s \in {"pending", "applied"} :
            changes' = Append(Supersede, Change(door[d].value, door[d].prior, s))
      BY <1>5 DEF Writes, ProposeSettingChange, ApplySettingNow
    <3>2. Change(door[d].value, door[d].prior, s) \in ChangeRow
      BY <1>3, <2>1 DEF Status
    <3> QED
      BY <2>1, <3>1, <3>2
  <2>3. settings' \subseteq Markets
    BY <1>1, <1>5, <2>1 DEF Writes, ProposeSettingChange, ApplySettingNow
  <2> QED
    BY <1>1, <1>2, <1>5, <2>1, <2>2, <2>3 DEF Writes, NoCall
<1>6. ASSUME NEW d \in Doors, CallFails(d) PROVE LedgerTypes'
  BY <1>1, <1>2, <1>6 DEF CallFails, NoCall
<1>7. ASSUME NEW d \in Doors, NEW v \in SUBSET Markets, ChangeAsked(d, v) PROVE LedgerTypes'
  BY <1>1, <1>2, <1>7 DEF ChangeAsked, ReadsInForce, NoCall
<1>8. ASSUME NEW m \in Markets, MarketButton(m) PROVE LedgerTypes'
  BY <1>1, <1>2, <1>8 DEF MarketButton, Lists, Doors
<1>9. ASSUME NEW m \in Markets, OpensSignIn(m) PROVE LedgerTypes'
  BY <1>1, <1>2, <1>9 DEF OpensSignIn
<1>10. CASE ButtonSets
  BY <1>1, <1>2, <1>10 DEF ButtonSets, ReadsInForce, NoCall, Doors
<1>11. CASE SweepProposals
  <2>1. \A c \in Changes : changes'[c] \in ChangeRow
    BY <1>1, <1>11 DEF SweepProposals, ChangeRow, Status
  <2>2. changes' = [c \in DOMAIN changes |-> changes'[c]]
    BY <1>1, <1>11 DEF SweepProposals
  <2> QED
    BY <1>1, <1>2, <1>11, <2>1, <2>2, RowByRow DEF SweepProposals
<1>12. ASSUME NEW c \in Changes, Approve(c) PROVE LedgerTypes'
  BY <1>1, <1>2, <1>4, <1>12 DEF Approve, Status, ChangeRow
<1>13. ASSUME NEW c \in Changes, Cancel(c) PROVE LedgerTypes'
  BY <1>1, <1>2, <1>4, <1>13 DEF Cancel, Status
<1>14. ASSUME NEW c \in Changes, Undo(c) PROVE LedgerTypes'
  <2>1. changes[c].prior \in SUBSET Markets
    BY <1>1 DEF ChangeRow
  <2>2. [Change(changes[c].prior, settings, "applied") EXCEPT !.undo = TRUE] \in ChangeRow
    BY <1>1, <2>1 DEF Change, ChangeRow, Status
  <2> QED
    BY <1>1, <1>2, <1>14, <2>1, <2>2 DEF Undo
<1>15. ASSUME NEW c \in Changes, Ages(c) PROVE LedgerTypes'
  <2>1. \A e \in Changes : changes'[e] \in ChangeRow
    BY <1>1, <1>15 DEF Ages, ChangeRow
  <2>2. changes' = [e \in DOMAIN changes |-> changes'[e]]
    BY <1>1, <1>15 DEF Ages
  <2> QED
    BY <1>1, <1>2, <1>15, <2>1, <2>2, RowByRow DEF Ages
<1>16. CASE UNCHANGED ledgerVars
  BY <1>1, <1>2, <1>16 DEF ledgerVars
<1> QED
  BY <1>5, <1>6, <1>7, <1>8, <1>9, <1>10, <1>11, <1>12, <1>13, <1>14, <1>15, <1>16 DEF LedgerNext

\* Every row of the ledger, every door's call and the value in force keep their types.
THEOREM LedgerTyped == LedgerSpec => []LedgerTypes
  BY LedgerTypesInit, LedgerTypesStep, PTL DEF LedgerSpec

\* What makes a yes apply the newest question: whatever came after a change that still waits
\* was written by an undo.
OnlyUndosSince ==
    \A c, e \in Changes : c < e /\ changes[c].status = "pending" => changes[e].undo

\* Every write but an undo first retires what waits; nothing sets a row back to waiting.
LEMMA OnlyUndosStep ==
    ASSUME LedgerTypes, OnlyUndosSince, [LedgerNext]_ledgerVars
    PROVE  OnlyUndosSince'
<1>0. changes \in Seq(ChangeRow)
  BY DEF LedgerTypes, ChangeRow
<1>1. /\ changes \in Seq(ChangeRow) /\ Changes = 1..Len(changes) /\ Len(changes) \in Nat
      /\ \A c \in Changes : changes[c] \in ChangeRow
  BY <1>0 DEF Changes
\* Rows that keep their place and their author, and wait only if they did.
<1>2. ASSUME Changes' = Changes,
             \A c \in Changes : /\ changes'[c].undo = changes[c].undo
                                /\ changes'[c].status = "pending" => changes[c].status = "pending"
      PROVE  OnlyUndosSince'
  BY <1>2 DEF OnlyUndosSince
<1>3. ASSUME NEW d \in Doors, Writes(d) PROVE OnlyUndosSince'
  <2>1. PICK r : changes' = Append(Supersede, r)
    BY <1>3 DEF Writes, ProposeSettingChange, ApplySettingNow
  <2>2. /\ Supersede \in Seq(ChangeRow) /\ DOMAIN Supersede = Changes
        /\ Len(Supersede) = Len(changes)
    BY SupersedeTypes
  <2>3. /\ Changes' = 1..(Len(changes) + 1)
        /\ \A c \in Changes : changes'[c] = Supersede[c]
    BY <1>1, <2>1, <2>2 DEF Changes
  <2>4. \A c \in Changes : Supersede[c].status # "pending"
    BY <1>1 DEF Supersede, ChangeRow
  <2> QED
    BY <1>1, <2>3, <2>4 DEF OnlyUndosSince
<1>4. ASSUME NEW c \in Changes, NEW s \in Status \ {"pending"}, Decide(c, s) PROVE OnlyUndosSince'
  BY <1>1, <1>2, <1>4 DEF Decide, ChangeRow, Changes
<1>5. ASSUME NEW c \in Changes, Approve(c) \/ Cancel(c) PROVE OnlyUndosSince'
  BY <1>4, <1>5 DEF Approve, Cancel, Status
<1>6. CASE SweepProposals
  BY <1>1, <1>2, <1>6 DEF SweepProposals, ChangeRow, Changes
<1>7. ASSUME NEW c \in Changes, Ages(c) PROVE OnlyUndosSince'
  BY <1>1, <1>2, <1>7 DEF Ages, ChangeRow, Changes
<1>8. ASSUME NEW c \in Changes, Undo(c) PROVE OnlyUndosSince'
  <2>1. PICK r : r.undo /\ changes' = Append(changes, r)
    BY <1>8 DEF Undo, Change
  <2>2. /\ Changes' = 1..(Len(changes) + 1)
        /\ \A e \in Changes : changes'[e] = changes[e]
        /\ changes'[Len(changes) + 1].undo
    BY <1>1, <2>1 DEF Changes
  <2> QED
    BY <1>1, <2>2 DEF OnlyUndosSince
<1>9. ASSUME UNCHANGED changes PROVE OnlyUndosSince'
  BY <1>9 DEF OnlyUndosSince, Changes
<1>10. ASSUME \/ \E d \in Doors : CallFails(d) \/ \E v \in SUBSET Markets : ChangeAsked(d, v)
              \/ \E m \in Markets : MarketButton(m) \/ OpensSignIn(m)
              \/ ButtonSets \/ UNCHANGED ledgerVars
       PROVE  OnlyUndosSince'
  BY <1>9, <1>10 DEF CallFails, ChangeAsked, MarketButton, OpensSignIn, ButtonSets, ledgerVars
<1> QED
  BY <1>3, <1>5, <1>6, <1>7, <1>8, <1>10 DEF LedgerNext

\* Only a yes applies a row that waited.
LEMMA AppliedStep ==
    ASSUME LedgerTypes, OnlyUndosSince, [LedgerNext]_ledgerVars,
           NEW c \in Changes, changes[c].status = "pending", changes'[c].status = "applied"
    PROVE  \A e \in Changes : e > c => changes[e].undo
  BY DEF OnlyUndosSince, LedgerTypes, Changes

\* However the calls of the agent, the seller's own doors, the buttons and the sweep
\* interleave, a yes in the chat applies what the seller was last asked.
THEOREM NewestAlwaysWins == LedgerSpec => NewestWins
<1>1. LedgerInit => OnlyUndosSince
  BY DEF LedgerInit, OnlyUndosSince, Changes
<1>2. LedgerTypes /\ OnlyUndosSince /\ [LedgerNext]_ledgerVars
        => [\A c \in Changes : changes[c].status = "pending" /\ changes'[c].status = "applied"
               => \A e \in Changes : e > c => changes[e].undo]_ledgerVars
  BY AppliedStep
<1>3. LedgerTypes /\ OnlyUndosSince /\ [LedgerNext]_ledgerVars => OnlyUndosSince'
  BY OnlyUndosStep
<1> QED
  BY <1>1, <1>2, <1>3, LedgerTyped, PTL DEF LedgerSpec, NewestWins

-----------------------------------------------------------------------------
(* One drive of a form.                                                    *)

StepName == Walked \cup {"preview", "", "terms", "unknown", "confirmed"}
Boxes == [Words -> Readings]
AtForm == {"open", "fill", "attach", "type", "choose", "boost", "check", "commit",
           "publish", "result", "done"}
AtWalk == {"open", "read", "act", "images", "wait", "preview", "press", "pressed",
           "result", "confirm", "done"}

Counts == 0..Images
Pages == 0..MaxSteps

DriveTypes ==
    /\ drives \in {"form", "steps", "edit"} /\ halves \subseteq {"text", "photos"}
    /\ left \subseteq halves
    /\ tab \in [step : StepName, in : BOOLEAN, box : Boxes, boost : BOOLEAN, images : Counts]
    /\ post \in [up : BOOLEAN, shows : Boxes, boost : BOOLEAN, images : Counts]
    /\ at \in IF drives = "form" THEN AtForm ELSE AtWalk
    /\ lastRead \in StepName /\ steps \in Pages
    /\ saved \in BOOLEAN /\ wrong \in BOOLEAN /\ touched \in BOOLEAN
    /\ outcome \in {"", "nothing", "maybe", "verified"}

LEMMA StepNames ==
    /\ \A s \in StepName : After(s) \subseteq StepName
    /\ {"copyfromanother", "subarea", "hood", "type", "cat", "edit", "geoverify", "editimage",
        "preview", "", "terms", "unknown", "confirmed"} \subseteq StepName
<1>1. /\ Steps[1] = "copyfromanother" /\ Steps[2] = "subarea" /\ Steps[3] = "hood"
      /\ Steps[4] = "type" /\ Steps[5] = "cat" /\ Steps[6] = "edit" /\ Steps[7] = "geoverify"
      /\ Steps[8] = "editimage" /\ Steps[9] = "preview"
  BY DEF Steps
<1>2. \A k \in 1..8 : Steps[k] \in Walked
  BY DEF Walked
<1>3. {"copyfromanother", "subarea", "hood", "type", "cat", "edit", "geoverify", "editimage"}
        \subseteq Walked
  <2>1. 1 \in 1..8 /\ 2 \in 1..8 /\ 3 \in 1..8 /\ 4 \in 1..8 /\ 5 \in 1..8 /\ 6 \in 1..8
        /\ 7 \in 1..8 /\ 8 \in 1..8
    OBVIOUS
  <2> QED
    BY <1>1, <1>2, <2>1
<1>4. \A k \in 1..9 : Steps[k] \in StepName
  <2>1. \A k \in 1..9 : k \in 1..8 \/ k = 9
    OBVIOUS
  <2> QED
    BY <1>1, <1>2, <2>1 DEF StepName
<1>5. \A s \in StepName : After(s) \subseteq StepName
  BY <1>4 DEF After, StepName
<1> QED
  BY <1>3, <1>5 DEF StepName

LEMMA CountsAndPages ==
    /\ 0 \in Counts /\ Images \in Counts
    /\ \A n \in Counts : n > 0 => n - 1 \in Counts
    /\ 0 \in Pages /\ \A n \in Pages : n < MaxSteps => n + 1 \in Pages
  BY PostDriveAssumption DEF Counts, Pages

LEMMA DriveTypesInit == PostInit => DriveTypes
<1> SUFFICES ASSUME PostInit PROVE DriveTypes
  OBVIOUS
<1>1. Blank \in Boxes /\ [w \in Words |-> "other"] \in Boxes
  BY DEF Blank, Boxes, Readings
<1>2. Before \in [up : BOOLEAN, shows : Boxes, boost : BOOLEAN, images : Counts]
  BY <1>1, CountsAndPages DEF Before, NoPost, OldPost
<1>3. tab \in [step : StepName, in : BOOLEAN, box : Boxes, boost : BOOLEAN, images : Counts]
  BY <1>1, CountsAndPages, StepNames DEF PostInit
<1>4. drives \in {"form", "steps", "edit"} /\ halves \subseteq {"text", "photos"}
  BY DEF PostInit
<1> QED
  BY <1>2, <1>3, <1>4, CountsAndPages, StepNames DEF PostInit, DriveTypes, AtForm, AtWalk

LEMMA DriveTypesStep == DriveTypes /\ [PostNext]_driveVars => DriveTypes'
<1> SUFFICES ASSUME DriveTypes, [PostNext]_driveVars PROVE DriveTypes'
  OBVIOUS
<1> USE StepNames, CountsAndPages DEF DriveTypes, StepsTo, Says, kept
<1>1. CASE Fails
  <2>1. Refusals \subseteq {"nothing", "maybe"}
    BY DEF Refusals
  <2>2. PICK o \in {"nothing", "maybe"} : Says(o)
    BY <1>1, <2>1 DEF Fails, Refuses
  <2> QED
    BY <1>1, <2>2 DEF Fails, AtForm, AtWalk
<1>2. CASE Opens
  <2>1. CASE drives = "form"
    BY <1>2, <2>1 DEF Opens, AtForm
  <2>2. CASE drives = "steps"
    <3>1. PICK in \in BOOLEAN, s \in {"copyfromanother", "subarea", "type", "terms", "unknown"} :
            tab' = [tab EXCEPT !.in = in, !.step = s]
      BY <1>2, <2>2 DEF Opens
    <3>2. s \in StepName
      BY <3>1
    <3>3. tab' \in [step : StepName, in : BOOLEAN, box : Boxes, boost : BOOLEAN, images : Counts]
      BY <3>1, <3>2
    <3> QED
      BY <1>2, <2>2, <3>3 DEF Opens, AtWalk
  <2>3. CASE drives = "edit"
    BY <1>2, <2>3 DEF Opens, Half, AtWalk
  <2> QED
    BY <2>1, <2>2, <2>3
<1>3. CASE LooksAtPage
  <2>1. steps' \in Pages
    BY <1>3 DEF LooksAtPage
  <2>4. lastRead' \in StepName /\ drives # "form"
    BY <1>3 DEF LooksAtPage, AtForm
  <2>2. at' \in AtWalk
    BY <1>3 DEF LooksAtPage, AtWalk
  <2>3. tab' \in [step : StepName, in : BOOLEAN, box : Boxes, boost : BOOLEAN, images : Counts]
    BY <1>3 DEF LooksAtPage
  <2> QED
    BY <1>3, <2>1, <2>2, <2>3, <2>4 DEF LooksAtPage
<1>4. CASE FillsEdit
  <2>1. PICK words \in Boxes : Submits(tab) \/ Submits([tab EXCEPT !.box = words])
    BY <1>4 DEF FillsEdit, Boxes
  <2>2. /\ [tab EXCEPT !.box = words]
            \in [step : StepName, in : BOOLEAN, box : Boxes, boost : BOOLEAN, images : Counts]
        /\ drives # "form"
    BY <1>4 DEF FillsEdit, AtForm
  <2>3. PICK p \in [step : StepName, in : BOOLEAN, box : Boxes, boost : BOOLEAN, images : Counts] :
          Submits(p)
    BY <2>1, <2>2
  <2>4. tab' \in [step : StepName, in : BOOLEAN, box : Boxes, boost : BOOLEAN, images : Counts]
    BY <2>3 DEF Submits
  <2> QED
    BY <1>4, <2>2, <2>3, <2>4 DEF FillsEdit, Submits, AtWalk
<1>5. CASE PicksChoice \/ TakesMap
  <2>1. Submits(tab) /\ UNCHANGED <<post, kept>> /\ drives # "form"
    BY <1>5 DEF PicksChoice, TakesMap, AtForm
  <2>2. tab' \in [step : StepName, in : BOOLEAN, box : Boxes, boost : BOOLEAN, images : Counts]
    BY <2>1 DEF Submits
  <2> QED
    BY <2>1, <2>2 DEF Submits, AtWalk
<1>6. CASE UploadsImages
  <2>1. PICK n \in {0, Images} : Submits([tab EXCEPT !.images = n])
    BY <1>6 DEF UploadsImages
  <2>2. [tab EXCEPT !.images = n]
          \in [step : StepName, in : BOOLEAN, box : Boxes, boost : BOOLEAN, images : Counts]
    OBVIOUS
  <2>3. tab' \in [step : StepName, in : BOOLEAN, box : Boxes, boost : BOOLEAN, images : Counts]
    BY <2>1, <2>2 DEF Submits
  <2> QED
    BY <1>6, <2>1, <2>3 DEF UploadsImages, Submits, AtWalk
<1>7. CASE TakesImageOff
  <2>1. tab.images - 1 \in Counts
    BY <1>7 DEF TakesImageOff
  <2>2. [tab EXCEPT !.images = @ - 1]
          \in [step : StepName, in : BOOLEAN, box : Boxes, boost : BOOLEAN, images : Counts]
    BY <2>1
  <2>3. [post EXCEPT !.images = tab.images - 1]
          \in [up : BOOLEAN, shows : Boxes, boost : BOOLEAN, images : Counts]
    BY <2>1
  <2> QED
    BY <1>7, <2>2, <2>3 DEF TakesImageOff, AtImages, AtForm, AtWalk
<1>8. CASE PutsImagesOn
  <2>1. [tab EXCEPT !.images = Images]
          \in [step : StepName, in : BOOLEAN, box : Boxes, boost : BOOLEAN, images : Counts]
    OBVIOUS
  <2>2. [post EXCEPT !.images = Images]
          \in [up : BOOLEAN, shows : Boxes, boost : BOOLEAN, images : Counts]
    OBVIOUS
  <2> QED
    BY <1>8, <2>1, <2>2 DEF PutsImagesOn, AtImages, Submits, AtForm, AtWalk
<1>9. CASE WaitsPast \/ ChecksPreview
  <2>1. drives # "form" /\ at' \in {"read", "press"}
    BY <1>9 DEF WaitsPast, ChecksPreview, AtForm
  <2> QED
    BY <1>9, <2>1 DEF WaitsPast, ChecksPreview, AtWalk
<1>10. Posted \in [up : BOOLEAN, shows : Boxes, boost : BOOLEAN, images : Counts]
  BY DEF Posted
<1>11. CASE Presses
  <2>1. PICK s \in {"confirmed", "preview", "terms", "unknown"} :
          tab' = [tab EXCEPT !.step = s] /\ post' \in {Posted, post}
    BY <1>11 DEF Presses, Pressed
  <2>2. tab' \in [step : StepName, in : BOOLEAN, box : Boxes, boost : BOOLEAN, images : Counts]
    BY <2>1
  <2>3. post' \in [up : BOOLEAN, shows : Boxes, boost : BOOLEAN, images : Counts]
    BY <1>10, <2>1
  <2> QED
    BY <1>11, <2>2, <2>3 DEF Presses, AtForm, AtWalk
<1>12. CASE NotConfirmed
  BY <1>12 DEF NotConfirmed, AtForm, AtWalk
<1>13. CASE AcceptsTerms
  <2>1. PICK s \in {"confirmed", "unknown"} :
          tab' = [tab EXCEPT !.step = s] /\ post' \in {Posted, post}
    BY <1>13 DEF AcceptsTerms
  <2>2. tab' \in [step : StepName, in : BOOLEAN, box : Boxes, boost : BOOLEAN, images : Counts]
    BY <2>1
  <2>3. post' \in [up : BOOLEAN, shows : Boxes, boost : BOOLEAN, images : Counts]
    BY <1>10, <2>1
  <2> QED
    BY <1>13, <2>2, <2>3 DEF AcceptsTerms, AtForm, AtWalk
<1>14. CASE SeesPost
  BY <1>14 DEF SeesPost, AtForm, AtWalk
<1>15. CASE ReadsBack
  BY <1>15 DEF ReadsBack, AtForm, AtWalk
<1>16. CASE FindsFields \/ ChoosesOptions \/ RefusesPromotion \/ VerifiesForm
  <2>1. CASE FindsFields
    BY <2>1 DEF FindsFields, AtForm, AtWalk
  <2>2. CASE ChoosesOptions
    BY <2>2 DEF ChoosesOptions, AtForm, AtWalk
  <2>3. CASE RefusesPromotion
    BY <2>3 DEF RefusesPromotion, AtForm, AtWalk
  <2>4. CASE VerifiesForm
    BY <2>4 DEF VerifiesForm, AtForm, AtWalk
  <2> QED
    BY <1>16, <2>1, <2>2, <2>3, <2>4
<1>21. CASE AttachesPhotos
  <2>1. PICK n \in {0, Images} : tab' = [tab EXCEPT !.images = n]
    BY <1>21 DEF AttachesPhotos
  <2>2. tab' \in [step : StepName, in : BOOLEAN, box : Boxes, boost : BOOLEAN, images : Counts]
    BY <2>1
  <2> QED
    BY <1>21, <2>2 DEF AttachesPhotos, AtForm, AtWalk
<1>17. CASE FillsText
  BY <1>17 DEF FillsText, Boxes, AtForm, AtWalk
<1>18. CASE PressesNext \/ PressesPublish
  BY <1>10, <1>18 DEF PressesNext, PressesPublish, AtForm, AtWalk
<1>19. CASE FindsListing
  BY <1>19 DEF FindsListing, AtForm, AtWalk
<1>20. CASE UNCHANGED driveVars
  BY <1>20 DEF driveVars
<1> QED
  BY <1>1, <1>2, <1>3, <1>4, <1>5, <1>6, <1>7, <1>8, <1>9, <1>11, <1>12, <1>13, <1>14,
     <1>15, <1>16, <1>17, <1>18, <1>19, <1>20,
     <1>21 DEF PostNext

\* Every variable of a drive keeps its type: the images never outnumber those there are, the
\* walk never looks at more than MAX_STEPS pages.
THEOREM DriveTyped == PostSpec => []DriveTypes
  BY DriveTypesInit, DriveTypesStep, PTL DEF PostSpec

\* Until the press, nothing has happened to the post, unless an edit's other half went through;
\* and the answer is the end.
Untouched ==
    /\ drives = "edit" => left # {}
    /\ "photos" \notin halves /\ ~saved /\ at \in Filling => post = Before
    /\ outcome # "" => at = "done"

LEMMA UntouchedInit == PostInit => Untouched /\ NothingMeansNothing
<1> SUFFICES ASSUME PostInit PROVE Untouched /\ NothingMeansNothing
  OBVIOUS
<1>1. post = Before /\ ~saved /\ outcome = ""
  BY DEF PostInit
<1>2. drives = "edit" => left # {}
  BY DEF PostInit
<1> QED
  BY <1>1, <1>2 DEF Untouched, NothingMeansNothing

\* An edit of the words alone never takes the photographs for its half.
LEMMA WordsOnly ==
    ASSUME DriveTypes, Untouched, "photos" \notin halves
    PROVE  ~AtImages
  BY DEF DriveTypes, Untouched, AtImages, Half

LEMMA UntouchedStep ==
    ASSUME DriveTypes, Untouched, NothingMeansNothing, [PostNext]_driveVars
    PROVE  Untouched' /\ NothingMeansNothing'
<1> USE DEF Untouched, NothingMeansNothing, StepsTo, Says, kept
<1>1. ASSUME drives' = drives PROVE Before' = Before
  BY <1>1 DEF Before, OldPost, NoPost
<1>2. CASE Fails
  <2>1. at \in Filling /\ UNCHANGED post /\ \E o \in Refusals : Says(o)
    BY <1>2 DEF Fails, Refuses
  <2>2. saved => Refusals = {"maybe"}
    BY DEF Refusals
  <2> QED
    BY <1>1, <2>1, <2>2 DEF Filling
<1>3. CASE Opens
  BY <1>1, <1>3 DEF Opens, Filling
<1>4. CASE LooksAtPage \/ PicksChoice \/ TakesMap \/ WaitsPast \/ ChecksPreview
  BY <1>1, <1>4 DEF LooksAtPage, PicksChoice, TakesMap, Submits, WaitsPast, ChecksPreview, Filling
<1>5. CASE FillsEdit \/ UploadsImages
  BY <1>1, <1>5 DEF FillsEdit, UploadsImages, Submits, Filling
<1>6. CASE TakesImageOff
  BY <1>1, <1>6, WordsOnly DEF TakesImageOff, AtImages
<1>7. CASE PutsImagesOn
  BY <1>1, <1>7, WordsOnly DEF PutsImagesOn, AtImages, Submits
<1>8. CASE Presses
  BY <1>1, <1>8 DEF Presses, Filling
<1>9. CASE NotConfirmed
  BY <1>1, <1>9 DEF NotConfirmed, Filling, Doubtful
<1>10. CASE AcceptsTerms \/ PressesPublish
  BY <1>1, <1>10 DEF AcceptsTerms, PressesPublish, Filling
<1>11. CASE SeesPost \/ FindsListing
  BY <1>1, <1>11 DEF SeesPost, FindsListing, Filling
<1>12. CASE ReadsBack
  <2>1. CASE left = {Half} /\ Says(IF wrong \/ ~HalfShows THEN "maybe" ELSE "verified")
    BY <1>1, <2>1, <1>12 DEF Filling, ReadsBack
  <2>2. CASE /\ left # {Half} /\ left' = left \ {Half} /\ at' = "open" /\ saved' = TRUE
             /\ UNCHANGED <<drives, halves, outcome>>
    <3>1. drives = "edit" => left' # {}
      BY <2>2 DEF Half
    <3> QED
      BY <1>1, <1>12, <2>2, <3>1 DEF ReadsBack
  <2> QED
    BY <1>12, <2>1, <2>2 DEF ReadsBack
<1>13. CASE FindsFields \/ AttachesPhotos \/ FillsText \/ ChoosesOptions \/ RefusesPromotion
            \/ VerifiesForm
  BY <1>1, <1>13 DEF FindsFields, AttachesPhotos, FillsText, ChoosesOptions, RefusesPromotion,
     VerifiesForm, Filling
<1>14. CASE PressesNext
  BY <1>1, <1>14 DEF PressesNext, Filling
<1>15. CASE UNCHANGED driveVars
  BY <1>1, <1>15 DEF driveVars
<1> QED
  BY <1>2, <1>3, <1>4, <1>5, <1>6, <1>7, <1>8, <1>9, <1>10, <1>11, <1>12, <1>13, <1>14, <1>15
  DEF PostNext

\* A driver answers that nothing was created, or changed, only where that is so: what lets a
\* lane post the thing again.  For every length of a walk and every number of images.
THEOREM NothingIsNothing == PostSpec => []NothingMeansNothing
<1>1. DriveTypes /\ Untouched /\ NothingMeansNothing /\ [PostNext]_driveVars
        => Untouched' /\ NothingMeansNothing'
  BY UntouchedStep
<1> QED
  BY <1>1, UntouchedInit, DriveTyped, PTL DEF PostSpec

\* What stands behind the press: the form or the preview showed what was asked, the promotion
\* was switched off, and neither is filled in again.
Checked ==
    /\ drives = "steps" => ~tab.boost
    /\ drives = "form" /\ at = "check" => ~tab.boost
    /\ drives # "edit" /\ at \in {"press", "pressed", "commit", "publish"}
         => ReadBack(tab.box) /\ ~tab.boost

LEMMA CheckedInit == PostInit => Checked /\ PostsWhatWasAsked
<1> SUFFICES ASSUME PostInit PROVE Checked /\ PostsWhatWasAsked
  OBVIOUS
<1>1. tab.boost = FALSE /\ at = "open"
  BY DEF PostInit
<1>2. drives # "edit" => ~post.up
  <2>1. post = Before
    BY DEF PostInit
  <2> QED
    BY <2>1 DEF Before, NoPost
<1> QED
  BY <1>1, <1>2 DEF Checked, PostsWhatWasAsked

LEMMA CheckedStep ==
    ASSUME DriveTypes, Checked, PostsWhatWasAsked, [PostNext]_driveVars
    PROVE  Checked' /\ PostsWhatWasAsked'
<1> USE DEF Checked, PostsWhatWasAsked, StepsTo, Says, kept, ReadBack
<1>1. /\ tab \in [step : StepName, in : BOOLEAN, box : Boxes, boost : BOOLEAN, images : Counts]
      /\ drives = "form" => at \in AtForm
      /\ drives # "form" => at \in AtWalk
  BY DEF DriveTypes
\* What goes up is what was checked.
<1>2. ASSUME drives # "edit" => ReadBack(tab.box) /\ ~tab.boost, post' = Posted, drives' = drives
      PROVE  PostsWhatWasAsked'
  BY <1>2 DEF Posted
<1>3. CASE Fails
  BY <1>3 DEF Fails, Refuses
<1>4. CASE Opens
  BY <1>1, <1>4 DEF Opens
<1>5. CASE LooksAtPage \/ PicksChoice \/ TakesMap \/ WaitsPast
  BY <1>1, <1>5 DEF LooksAtPage, PicksChoice, TakesMap, Submits, WaitsPast
<1>6. CASE FillsEdit \/ UploadsImages
  BY <1>1, <1>6 DEF FillsEdit, UploadsImages, Submits
<1>7. CASE TakesImageOff \/ PutsImagesOn
  BY <1>7 DEF TakesImageOff, PutsImagesOn, AtImages, Submits
<1>8. CASE ChecksPreview
  <2>1. at = "preview" /\ UNCHANGED <<tab, post, drives>> /\ at' = "press"
    BY <1>8 DEF ChecksPreview
  <2>2. drives # "edit" => drives = "steps"
    <3>1. drives # "form"
      BY <1>1, <2>1 DEF AtForm
    <3>2. drives \in {"form", "steps", "edit"}
      BY DEF DriveTypes
    <3> QED
      BY <3>1, <3>2
  <2>3. drives # "edit" => ReadBack(tab.box) /\ ~tab.boost
    BY <1>8, <2>2 DEF ChecksPreview, PreviewShows, Words
  <2> QED
    BY <2>1, <2>2, <2>3
<1>9. CASE Presses
  <2>1. drives # "edit" => ReadBack(tab.box) /\ ~tab.boost
    BY <1>9 DEF Presses
  <2>2. PostsWhatWasAsked'
    BY <1>2, <1>9, <2>1 DEF Presses, Pressed
  <2>3. tab'.box = tab.box /\ tab'.boost = tab.boost
    BY <1>1, <1>9 DEF Presses, Pressed
  <2> QED
    BY <1>9, <2>1, <2>2, <2>3 DEF Presses
<1>10. CASE AcceptsTerms
  <2>1. drives # "edit" => ReadBack(tab.box) /\ ~tab.boost
    BY <1>10 DEF AcceptsTerms
  <2>2. PostsWhatWasAsked'
    BY <1>2, <1>10, <2>1 DEF AcceptsTerms
  <2>3. tab'.box = tab.box /\ tab'.boost = tab.boost
    BY <1>1, <1>10 DEF AcceptsTerms
  <2> QED
    BY <1>10, <2>1, <2>2, <2>3 DEF AcceptsTerms
<1>11. CASE PressesNext \/ PressesPublish
  <2>1. drives # "edit" => ReadBack(tab.box) /\ ~tab.boost
    BY <1>11 DEF PressesNext, PressesPublish
  <2>2. PostsWhatWasAsked'
    BY <1>2, <1>11, <2>1 DEF PressesNext, PressesPublish
  <2> QED
    BY <1>11, <2>1, <2>2 DEF PressesNext, PressesPublish
<1>12. CASE NotConfirmed \/ SeesPost \/ FindsListing
  BY <1>12 DEF NotConfirmed, SeesPost, FindsListing
<1>13. CASE ReadsBack
  BY <1>1, <1>13 DEF ReadsBack
<1>14. CASE FindsFields \/ AttachesPhotos \/ ChoosesOptions
  BY <1>1, <1>14 DEF FindsFields, AttachesPhotos, ChoosesOptions, AtWalk
<1>15. CASE FillsText \/ RefusesPromotion \/ VerifiesForm
  BY <1>1, <1>15 DEF FillsText, RefusesPromotion, VerifiesForm, AtWalk
<1>16. CASE UNCHANGED driveVars
  BY <1>16 DEF driveVars
<1> QED
  BY <1>3, <1>4, <1>5, <1>6, <1>7, <1>8, <1>9, <1>10, <1>11, <1>12, <1>13, <1>14, <1>15, <1>16
  DEF PostNext

\* A post never goes up under another title or at another price than asked, nor with a paid
\* promotion.  For every length of a walk and every number of images.
THEOREM PostedAsAsked == PostSpec => []PostsWhatWasAsked
<1>1. DriveTypes /\ Checked /\ PostsWhatWasAsked /\ [PostNext]_driveVars
        => Checked' /\ PostsWhatWasAsked'
  BY CheckedStep
<1> QED
  BY <1>1, CheckedInit, DriveTyped, PTL DEF PostSpec

-----------------------------------------------------------------------------
(* The engine that buys.                                                   *)

\* Truncation to whole dollars keeps order.
LEMMA DollarsInt == ASSUME NEW x \in Int PROVE Dollars(x) \in Int
  BY BuyerAssumption, SMT DEF Dollars

LEMMA DollarsMonotone ==
  ASSUME NEW x \in Int, NEW y \in Int, x <= y
  PROVE  Dollars(x) <= Dollars(y)
<1> DEFINE p == x \div Coins
           q == y \div Coins
<1>1. p \in Int /\ q \in Int /\ Coins \in Nat \ {0}
  BY BuyerAssumption, SMT
<1>2. p <= q
  BY <1>1, BuyerAssumption, SMT
<1>3. p * Coins <= q * Coins
  <2> HIDE DEF p, q
  <2> QED  BY <1>1, <1>2, SMT
<1> QED
  BY <1>3 DEF Dollars

\* The engine's numbers are whole coins.
LEMMA RoundedInt ==
  ASSUME NEW x \in Int, NEW y \in Nat \ {0}
  PROVE  Rounded(x, y) \in Int
<1>1. y * Coins \in Nat \ {0} /\ Coins \in Int
  BY BuyerAssumption, SMT
<1> DEFINE q == x \div (y * Coins)
           r == 2 * (x % (y * Coins))
<1>2. q \in Int
  BY <1>1, SMT
<1>3. Coins * (q + 1) \in Int /\ Coins * q \in Int
  <2> HIDE DEF q
  <2> QED  BY <1>1, <1>2, SMT
<1> QED
  BY <1>3, Zenon DEF Rounded

LEMMA BudgetFields ==
  ASSUME NEW b \in Budgets
  PROVE  /\ b.max \in Nat /\ b.target \in Nat \ {0} /\ b.step \in Nat \ {0}
         /\ b.rounds \in Nat /\ b.num \in Nat /\ b.den \in Nat \ {0}
         /\ b # NoBudget
<1>1. b \in [max : Nat, target : Nat \ {0}, step : Nat \ {0}, rounds : Nat \ {0},
             num : Nat, den : Nat \ {0}]
  BY BuyerAssumption
<1> QED
  BY <1>1 DEF NoBudget

LEMMA OpeningInt ==
  ASSUME NEW p \in Asks, NEW b \in Budgets
  PROVE  Opening(p, b) \in Int
<1>1. p \in Int /\ Coins \in Int
  BY BuyerAssumption
<1>2. b.num * p \in Int
  BY <1>1, BudgetFields, SMT
<1>3. Rounded(b.num * p, b.den) \in Int /\ Rounded(b.target, 1) \in Int
  BY <1>2, RoundedInt, BudgetFields
<1> QED
  BY <1>1, <1>3, BudgetFields DEF Opening, Most, Least

LEMMA NearAskClimbs ==
  ASSUME NEW r, r.last \in Int, NEW p \in Asks, NEW b \in Budgets, r.last <= b.max
  PROVE  NearAsk(r, p, b) \in Int /\ NearAsk(r, p, b) >= r.last
<1>1. p \in Int /\ b.step * Coins \in Int
  BY BuyerAssumption, BudgetFields, SMT
<1> QED
  BY <1>1, BudgetFields DEF NearAsk, Most, Least

-----------------------------------------------------------------------------
(* The inductive invariant.                                                *)

\* Whoever was promised the purchase is still a live sibling.
PromisedLive ==
    \A s \in promised : shops[s].status \notin {"none"} \cup Ended

Numbers ==
    /\ shops \in [Shop -> ShopRow] /\ budget \in Budgets \cup {NoBudget}
    /\ read \in [Call -> Budgets \cup {NoBudget}]
    /\ promised \subseteq Shop

BuyInv == Numbers /\ PromisedLive

LEMMA BuyInitInv == BuyInit => BuyInv
  BY DEF BuyInit, BuyInv, Numbers, PromisedLive, ShopRow, NoShop, Nothing

\* A row as a call meets it is a row, and not "none".
LEMMA EnteredRow ==
  ASSUME Numbers, NEW s \in Shop
  PROVE  /\ Entered(s) \in ShopRow /\ Entered(s).status # "none"
         /\ Entered(s).last = shops[s].last /\ Entered(s).rounds = shops[s].rounds
         /\ shops[s].last \in Int /\ shops[s].rounds \in Nat
         /\ Entered(s).status \in Ended => shops[s].status \in Ended
  BY DEF Numbers, ShopRow, Entered, Ended

\* A row begun anew, field by field.
LEMMA Rewritten ==
  ASSUME NEW e \in ShopRow, NEW y \in Int, NEW z \in Nat
  PROVE  LET r == [e EXCEPT !.last = y, !.rounds = z, !.status = "negotiating"]
         IN  r \in ShopRow /\ r.status = "negotiating"
  BY DEF ShopRow

\* Writing one row and saying a word keeps the invariant, if what is taken is pending, and
\* what is not taken drops the promise.
LEMMA OneRow ==
  ASSUME BuyInv, NEW s \in Shop, NEW r \in ShopRow, NEW decision, NEW x,
         Save1(s, r), Say(s, decision, x),
         read' \in [Call -> Budgets \cup {NoBudget}], budget' = budget,
         decision = "accept" => r.status = "deal_pending"
  PROVE  BuyInv'
<1>1. shops' = [shops EXCEPT ![s] = r]
  BY DEF Save1
<1>2. promised' = IF decision = "accept" THEN promised \cup {s} ELSE promised \ {s}
  BY DEF Say
<1>3. Numbers'
  BY <1>1, <1>2 DEF BuyInv, Numbers
<1>4. ASSUME NEW t \in promised' PROVE shops'[t].status \notin {"none"} \cup Ended
  <2>1. t \in Shop
    BY <1>3, <1>4 DEF Numbers
  <2>2. CASE t = s
    BY <1>1, <1>2, <1>4, <2>2 DEF BuyInv, Numbers, Ended
  <2>3. CASE t # s
    BY <1>1, <1>2, <1>4, <2>1, <2>3 DEF BuyInv, Numbers, PromisedLive
  <2> QED  BY <2>2, <2>3
<1> QED
  BY <1>3, <1>4 DEF BuyInv, PromisedLive

LEMMA EndsReads ==
  ASSUME Numbers, NEW c \in Call, Ends(c)
  PROVE  read' \in [Call -> Budgets \cup {NoBudget}]
  BY DEF Numbers, Ends

LEMMA BuyNextInv == BuyInv /\ [BuyNext]_buyVars => BuyInv'
<1> SUFFICES ASSUME BuyInv, [BuyNext]_buyVars PROVE BuyInv'
  OBVIOUS
<1>0. Numbers
  BY DEF BuyInv
<1>1. CASE UNCHANGED buyVars
  BY <1>1 DEF BuyInv, Numbers, PromisedLive, buyVars, purchase
<1>2. ASSUME NEW b \in Budgets, NEW by, NEW force \in BOOLEAN, SetBudget(b, by, force)
      PROVE  BuyInv'
  BY <1>2 DEF SetBudget, Quiet, BuyInv, Numbers, PromisedLive
<1>3. ASSUME NEW s \in Shop, NEW x \in ByHand \cup {Nothing}, NEW n \in {0, 1}, Seed(s, x, n)
      PROVE  BuyInv'
  <2> DEFINE r == [Entered(s) EXCEPT !.last = IF x = Nothing THEN @ ELSE Dollars(x),
                                     !.rounds = Most(@, n), !.status = "negotiating"]
  <2>1. x \in Int
    BY BuyerAssumption DEF Nothing
  <2> DEFINE last == IF x = Nothing THEN shops[s].last ELSE Dollars(x)
             rounds == Most(shops[s].rounds, n)
  <2>a. last \in Int /\ rounds \in Nat
    BY <1>0, <2>1, EnteredRow, DollarsInt DEF Most
  <2>c. Entered(s) \in ShopRow /\ Entered(s).last = shops[s].last
        /\ Entered(s).rounds = shops[s].rounds
    BY <1>0, EnteredRow
  <2>2. r \in ShopRow /\ r.status = "negotiating"
    <3>1. r = [Entered(s) EXCEPT !.last = last, !.rounds = rounds, !.status = "negotiating"]
      BY <2>c, Zenon
    <3> HIDE DEF r, last, rounds
    <3> QED  BY <2>a, <2>c, <3>1, Rewritten
  <2>3. shops' = [shops EXCEPT ![s] = r] /\ promised' = promised /\ read' = read
        /\ budget' = budget
    BY <1>3 DEF Seed, Save1, Quiet
  <2>4. Numbers'
    BY <1>0, <2>2, <2>3 DEF Numbers
  <2>5. r.status = "negotiating"
    BY <2>2
  <2> HIDE DEF r
  <2>6. PromisedLive'
    BY <1>0, <2>3, <2>5 DEF Numbers, BuyInv, PromisedLive, Ended
  <2> QED  BY <2>4, <2>6 DEF BuyInv
<1>4. ASSUME NEW s \in Shop, Walk(s) PROVE BuyInv'
  <2>1. [shops[s] EXCEPT !.status = "walked"] \in ShopRow
    BY <1>0 DEF Numbers, ShopRow, Ended
  <2>2. /\ Save1(s, [shops[s] EXCEPT !.status = "walked"]) /\ Say(s, "walked", Nothing)
        /\ read' \in [Call -> Budgets \cup {NoBudget}] /\ budget' = budget
    BY <1>0, <1>4 DEF Walk, Numbers
  <2> QED  BY <2>1, <2>2, OneRow
<1>5. ASSUME NEW c \in Call, ReadBudget(c) PROVE BuyInv'
  BY <1>0, <1>5 DEF ReadBudget, Quiet, purchase, BuyInv, Numbers, PromisedLive
<1>6. ASSUME NEW c \in Call, Speaks(c) PROVE BuyInv'
  <2>1. read' \in [Call -> Budgets \cup {NoBudget}] /\ budget' = budget
    BY <1>0, <1>6, EndsReads DEF Speaks
  <2>2. ASSUME NEW s \in Shop, CommitTo(c, s) PROVE BuyInv'
    <3>1. shops' \in [Shop -> ShopRow]
      BY <1>0, <2>2 DEF CommitTo, Numbers, ShopRow, Ended
    <3>2. promised' = {s} /\ shops'[s].status = "committed"
      <4>1. shops'[s] = [shops[s] EXCEPT !.status = "committed"]
        BY <2>2 DEF CommitTo, Closed
      <4>2. shops[s] \in ShopRow
        BY <1>0 DEF Numbers
      <4> QED  BY <2>2, <4>1, <4>2 DEF CommitTo, ShopRow
    <3> QED  BY <1>0, <2>1, <3>1, <3>2 DEF BuyInv, Numbers, PromisedLive, Ended
  <2>3. ASSUME NEW s \in Shop, NEW p \in Asks,
               OpenTakes(c, s, p) \/ OpenOffers(c, s, p) \/ Reply(c, s, p)
        PROVE  BuyInv'
    <3> DEFINE e == Entered(s)
               b == read[c]
    <3>1. /\ e \in ShopRow /\ b \in Budgets /\ p \in Int
          /\ Pending(e) \in ShopRow /\ Pending(e).status = "deal_pending"
      BY <1>0, <1>6, EnteredRow, BuyerAssumption DEF Speaks, Numbers, Pending, ShopRow
    <3>2. ASSUME NEW x \in Int PROVE [e EXCEPT !.last = x] \in ShopRow
      BY <3>1 DEF ShopRow
    <3>3. ASSUME NEW x \in Int
          PROVE  [e EXCEPT !.last = Dollars(x), !.rounds = @ + 1] \in ShopRow
      <4>1. Dollars(x) \in Int
        BY DollarsInt
      <4>2. e.rounds + 1 \in Nat
        BY <3>1 DEF ShopRow
      <4> HIDE DEF e
      <4> QED  BY <3>1, <4>1, <4>2 DEF ShopRow
    <3>4. ASSUME NEW x \in Int, Counters(c, s, x) PROVE BuyInv'
      BY <2>1, <3>3, <3>4, OneRow DEF Counters, Names
    <3>5. CASE OpenTakes(c, s, p)
      BY <2>1, <3>1, <3>5, OneRow DEF OpenTakes, Names
    <3>6. CASE OpenOffers(c, s, p)
      BY <2>1, <3>1, <3>2, <3>6, OpeningInt, OneRow DEF OpenOffers, Names
    <3>7. CASE StandDown(s)
      BY <2>1, <3>1, <3>7, OneRow DEF StandDown
    <3>8. CASE ReplyTakes(c, s, p)
      BY <2>1, <3>1, <3>8, OneRow DEF ReplyTakes, Names
    <3>9. CASE CounterNear(c, s, p)
      <4>1. NearAsk(e, p, b) \in Int
        BY <1>0, <3>1, EnteredRow, BudgetFields, BuyerAssumption, SMT
           DEF NearAsk, Most, Least
      <4> QED  BY <3>4, <3>9, <4>1 DEF CounterNear
    <3>10. CASE WalksAway(c, s, p)
      <4>1. [e EXCEPT !.status = "walked"] \in ShopRow
        BY <3>1 DEF ShopRow, Ended
      <4> QED  BY <2>1, <3>10, <4>1, OneRow DEF WalksAway
    <3>11. CASE CounterHigh(c, s, p)
      <4>1. Climb(e, p, b) \in Int
        BY <1>0, <3>1, EnteredRow, BudgetFields, BuyerAssumption, SMT DEF Climb, Least
      <4> QED  BY <3>4, <3>11, <4>1 DEF CounterHigh
    <3>12. CASE HoldsOffer(c, s, p)
      BY <2>1, <3>1, <3>12, OneRow DEF HoldsOffer, Names
    <3> QED
      BY <2>3, <3>5, <3>6, <3>7, <3>8, <3>9, <3>10, <3>11, <3>12 DEF Reply
  <2> QED  BY <1>6, <2>2, <2>3 DEF Speaks
<1> QED
  BY <1>1, <1>2, <1>3, <1>4, <1>5, <1>6 DEF BuyNext

LEMMA BuyInvariance == BuySpec => []BuyInv
  BY BuyInitInv, BuyNextInv, PTL DEF BuySpec

-----------------------------------------------------------------------------
(* What a call says.                                                       *)

\* Only a call that has read the budget says anything but that a thread was walked from.
LEMMA Speaker ==
  ASSUME BuyNext, told'.decision \notin {"none", "walked"}
  PROVE  \E c \in Call : Speaks(c)
<1>1. NoWord.decision = "none"
  BY DEF NoWord
<1>2. ~Quiet
  BY <1>1 DEF Quiet
<1>3. ASSUME NEW s \in Shop PROVE ~Walk(s)
  BY DEF Walk, Say
<1> QED
  BY <1>2, <1>3 DEF BuyNext, SetBudget, Seed, ReadBudget

\* What each answer is called.
LEMMA Decided ==
  ASSUME NEW c \in Call, NEW s \in Shop, NEW p \in Asks
  PROVE  /\ OpenTakes(c, s, p) => told'.decision = "accept"
         /\ OpenOffers(c, s, p) => told'.decision = "opening_offer"
         /\ StandDown(s) => told'.decision = "stand_down"
         /\ ReplyTakes(c, s, p) => told'.decision = "accept"
         /\ CounterNear(c, s, p) => told'.decision = "counter"
         /\ WalksAway(c, s, p) => told'.decision = "walk_away"
         /\ CounterHigh(c, s, p) => told'.decision = "counter"
         /\ HoldsOffer(c, s, p) => told'.decision = "hold"
  BY DEF OpenTakes, OpenOffers, StandDown, ReplyTakes, CounterNear, WalksAway, CounterHigh,
         HoldsOffer, Counters, Names, Say

LEMMA DecidedToCommit ==
  ASSUME NEW c \in Call, NEW s \in Shop, CommitTo(c, s)
  PROVE  told'.decision = "committed" /\ told'.price = Nothing
  BY DEF CommitTo

\* A number a seller is told is within the budget, but for a call that read an older one.
THEOREM BudgetIsKept == BuySpec => BudgetHolds
<1>1. ASSUME BuyInv, BuyNext, told'.price # Nothing
      PROVE  \/ told'.price <= budget.max
             \/ \E c \in Call : read[c] \notin {NoBudget, budget} /\ read'[c] = NoBudget
  <2>1. ASSUME NEW c \in Call, Speaks(c), told'.price <= read[c].max
        PROVE  \/ told'.price <= budget.max
               \/ read[c] \notin {NoBudget, budget} /\ read'[c] = NoBudget
    BY <1>1, <2>1 DEF Speaks, Ends, BuyInv, Numbers
  <2>2. ASSUME NEW c \in Call, Speaks(c) PROVE told'.price <= read[c].max
    <3>1. PICK s \in Shop, p \in Asks :
             OpenTakes(c, s, p) \/ OpenOffers(c, s, p) \/ Reply(c, s, p)
      BY <1>1, <2>2, DecidedToCommit DEF Speaks
    <3>2. ASSUME NEW d, NEW x, NEW r, Names(c, s, d, x, r) PROVE told'.price <= read[c].max
      BY <3>2 DEF Names, Say, Within
    <3>3. ~StandDown(s) /\ ~WalksAway(c, s, p)
      BY <1>1 DEF StandDown, WalksAway, Say
    <3> QED
      BY <3>1, <3>2, <3>3 DEF OpenTakes, OpenOffers, Reply, ReplyTakes, CounterNear,
           CounterHigh, HoldsOffer, Counters
  <2>3. ~(told' = NoWord) /\ ~(\E s \in Shop : Say(s, "walked", Nothing))
    BY <1>1 DEF NoWord, Say
  <2> QED
    BY <1>1, <2>1, <2>2, <2>3 DEF BuyNext, SetBudget, Seed, ReadBudget, Walk, Quiet
<1>2. ASSUME BuyInv, [BuyNext]_buyVars
      PROVE  [told'.price # Nothing =>
                \/ told'.price <= budget.max
                \/ \E c \in Call : read[c] \notin {NoBudget, budget} /\ read'[c] = NoBudget]_buyVars
  BY <1>1, <1>2
<1> QED
  BY <1>2, BuyInvariance, PTL DEF BuySpec, BudgetHolds

\* A counter or a held offer is no lower than what was offered before.
THEOREM OffersNeverFall == BuySpec => OffersClimb
<1>1. ASSUME BuyInv, BuyNext, told'.decision \in {"counter", "hold"}
      PROVE  told'.price >= Dollars(shops[told'.to].last)
  <2>0. Numbers
    BY <1>1 DEF BuyInv
  <2>1. PICK c \in Call, s \in Shop, p \in Asks :
           /\ Speaks(c)
           /\ CounterNear(c, s, p) \/ CounterHigh(c, s, p) \/ HoldsOffer(c, s, p)
    BY <1>1, Speaker, Decided, DecidedToCommit DEF Speaks, Reply
  <2> DEFINE e == Entered(s)
             b == read[c]
             last == shops[s].last
  <2>2. /\ b \in Budgets /\ e.last = last /\ last \in Int /\ e.rounds \in Nat
        /\ p \in Nat \ {0}
    BY <2>0, <2>1, EnteredRow, BuyerAssumption DEF Speaks, Numbers
  <2>3. /\ b.max \in Nat /\ b.step \in Nat /\ b.target \in Nat
        /\ b.max >= Coins /\ Coins \in Nat \ {0}
    BY <2>2, BudgetFields, BuyerAssumption
  <2>4. CASE CounterNear(c, s, p)
    <3>1. NearAsk(e, p, b) \in Int /\ NearAsk(e, p, b) >= last
      <4>1. last <= b.max
        BY <2>2, <2>3, <2>4 DEF CounterNear, Takes, Met, Nothing
      <4> QED  BY <2>2, <4>1, NearAskClimbs
    <3>2. told'.to = s /\ told'.price = Dollars(NearAsk(e, p, b))
      BY <2>4 DEF CounterNear, Counters, Names, Say
    <3> QED  BY <2>2, <3>1, <3>2, DollarsMonotone, DollarsInt
  <2>5. CASE CounterHigh(c, s, p)
    <3>1. Climb(e, p, b) \in Int /\ Climb(e, p, b) >= last
      <4>1. p > b.max /\ (last # Nothing => Climb(e, p, b) > last)
        BY <2>5 DEF CounterHigh, TooHigh
      <4>2. b.step * Coins * (e.rounds + 1) \in Nat
        BY <2>2, <2>3, SMT
      <4>3. Climb(e, p, b) \in Int
        BY <2>2, <2>3, <4>2 DEF Climb, Least, Nothing
      <4>4. CASE last = Nothing
        BY <2>2, <2>3, <4>1, <4>2, <4>4 DEF Climb, Least, Nothing
      <4> QED  BY <2>2, <4>1, <4>3, <4>4
    <3>2. told'.to = s /\ told'.price = Dollars(Climb(e, p, b))
      BY <2>5 DEF CounterHigh, Counters, Names, Say
    <3> QED  BY <2>2, <3>1, <3>2, DollarsMonotone, DollarsInt
  <2>6. CASE HoldsOffer(c, s, p)
    BY <2>2, <2>6, DollarsInt DEF HoldsOffer, Names, Say
  <2> QED  BY <2>1, <2>4, <2>5, <2>6
<1>2. ASSUME BuyInv, [BuyNext]_buyVars
      PROVE  [told'.decision \in {"counter", "hold"}
                => told'.price >= Dollars(shops[told'.to].last)]_buyVars
  BY <1>1, <1>2
<1> QED
  BY <1>2, BuyInvariance, PTL DEF BuySpec, OffersClimb

\* Committing to one seller closes every other one whose price was taken.
THEOREM OthersAreTold == BuySpec => PromisedAreTold
<1>1. ASSUME BuyInv, BuyNext, told'.decision = "committed"
      PROVE  \A s \in promised \ {told'.to} : shops'[s].status = "lost"
  <2>1. PICK c \in Call, s \in Shop : CommitTo(c, s)
    BY <1>1, Speaker, Decided, DecidedToCommit DEF Speaks, Reply
  <2>2. ASSUME NEW t \in promised \ {s} PROVE shops'[t].status = "lost"
    <3>1. t \in Closed(s) /\ t # s /\ shops[t] \in ShopRow
      BY <1>1, <2>2 DEF BuyInv, Numbers, PromisedLive, Closed
    <3>2. shops'[t] = [shops[t] EXCEPT !.status = "lost"]
      BY <2>1, <3>1 DEF CommitTo, Closed
    <3> QED  BY <3>1, <3>2 DEF ShopRow
  <2> QED  BY <2>1, <2>2 DEF CommitTo
<1>2. ASSUME BuyInv, [BuyNext]_buyVars
      PROVE  [told'.decision = "committed"
                => \A s \in promised \ {told'.to} : shops'[s].status = "lost"]_buyVars
  BY <1>1, <1>2
<1> QED
  BY <1>2, BuyInvariance, PTL DEF BuySpec, PromisedAreTold

-----------------------------------------------------------------------------
(* A marketplace and the lanes that look at it.                            *)

Visits == [at : {"idle", "open", "list", "read", "tell"}, began : SUBSET Messages,
           rows : SUBSET Messages, sweep : BOOLEAN, failed : BOOLEAN, passed : SUBSET Threads]
Minds == [heard : BOOLEAN, refused : 0..BlindAfter, out : Nat, misses : 0..Attempts,
          resting : BOOLEAN, tick : Int]
Blocks == [cause : Walls \cup {"none", "refused", "logged_out"}, live : BOOLEAN,
           strikes : 0..MaxStrikes, told : BOOLEAN]
TapRows == [asked : BOOLEAN, at : {"idle", "look", "serve", "tell"},
            found : Walls \cup {"none", "verify", "logged_in", "logged_out", "unknown"}]

PeopleTypes ==
    /\ kind \in {"timer", "ring"}
    /\ said \in [Threads -> 0..MaxSaid] /\ stored \in [Threads -> 0..MaxSaid]
    /\ stat \in [Threads -> {"none", "active", "escalated"}]
    /\ ring \in [Messages -> {"none", "shown", "heard", "due", "answered"}]
    /\ held \in {"no", "busy", "paused"}

LaneTypes == visit \in Visits /\ mem \in Minds /\ block \in Blocks /\ tap \in TapRows

\* What began a visit and is not in the list that is being read, is stored, is of a thread that
\* was passed over, or of one that could not be read.
LookedAt(m) ==
    \/ \E n \in 1..MaxSaid : <<m[1], n>> \in visit.rows /\ n >= m[2]
    \/ stored[m[1]] >= m[2]
    \/ m[1] \in visit.passed
    \/ visit.failed

\* Only what was said rings; and while conversations are read, what rang before the visit has
\* been looked at or is in the list.
ReadsWhatRang ==
    /\ \A m \in Messages : ring[m] # "none" => m[2] <= said[m[1]]
    /\ \A m \in visit.began : m[2] <= said[m[1]]
    /\ visit.at = "read" => \A m \in visit.began : LookedAt(m)

WatchInv == PeopleTypes /\ LaneTypes /\ ReadsWhatRang

LEMMA WatchNumbers ==
    /\ MaxSaid \in Nat /\ MaxStrikes \in Nat
    /\ BlindAfter \in Nat \ {0} /\ Attempts \in Nat \ {0} /\ SweepEvery \in Nat \ {0}
    /\ NoVisit \in Visits /\ Fresh \in Minds /\ NoBlock \in Blocks /\ NoTap \in TapRows
  BY WatchAssumption DEF NoVisit, Visits, Fresh, Minds, NoBlock, Blocks, NoTap, TapRows

LEMMA MessagesAre ==
    ASSUME NEW m \in Messages
    PROVE  m[1] \in Threads /\ m[2] \in 1..MaxSaid /\ m = <<m[1], m[2]>>
  BY DEF Messages

LEMMA WatchInit == Init => WatchInv
<1> SUFFICES ASSUME Init PROVE WatchInv
  OBVIOUS
<1>1. PeopleTypes
  BY WatchNumbers DEF Init, PeopleTypes
<1>2. LaneTypes
  BY WatchNumbers DEF Init, LaneTypes
<1>3. ReadsWhatRang
  BY DEF Init, ReadsWhatRang, NoVisit
<1> QED
  BY <1>1, <1>2, <1>3 DEF WatchInv

\* The lanes let go of the market: the ring's answer, as a fact about the visit that ends.
LEMMA Settles ==
    ASSUME PeopleTypes, LaneTypes, NEW m \in Minds, NEW clean \in BOOLEAN, SettleVisit(m, clean)
    PROVE  /\ visit' = NoVisit /\ mem' \in Minds
           /\ ring' \in [Messages -> {"none", "shown", "heard", "due", "answered"}]
           /\ \A r \in Messages : \/ ring'[r] = ring[r]
                                  \/ /\ r \in visit.began /\ ring[r] \in {"heard", "due"}
                                     /\ ring'[r] = "answered"
                                     /\ clean \/ m.misses + 1 >= Attempts
<1> DEFINE misses == IF clean THEN 0 ELSE m.misses + 1
           over == clean \/ misses >= Attempts
<1>1. m.misses \in 0..Attempts /\ Attempts \in Nat \ {0}
  BY WatchNumbers DEF Minds
<1>2. misses \in Nat /\ (~over => misses \in 0..Attempts) /\ (over => clean \/ m.misses + 1 >= Attempts)
  BY <1>1
<1>3. visit' = NoVisit
  BY DEF SettleVisit
<1>4. CASE kind = "timer"
  BY <1>3, <1>4 DEF SettleVisit, PeopleTypes
<1>5. CASE kind # "timer"
  <2>1. /\ mem' = [m EXCEPT !.misses = IF over THEN 0 ELSE misses, !.resting = ~over]
        /\ ring' = [r \in Messages |-> IF over /\ r \in visit.began /\ ring[r] \in {"heard", "due"}
                                       THEN "answered" ELSE ring[r]]
    BY <1>5 DEF SettleVisit
  <2>2. (IF over THEN 0 ELSE misses) \in 0..Attempts /\ (~over) \in BOOLEAN
    BY <1>1, <1>2
  <2> HIDE DEF over, misses
  <2>3. mem' \in Minds
    BY <2>1, <2>2 DEF Minds
  <2>4. ring' \in [Messages -> {"none", "shown", "heard", "due", "answered"}]
    BY <2>1 DEF PeopleTypes
  <2> QED
    BY <1>2, <1>3, <2>1, <2>3, <2>4
<1> QED
  BY <1>4, <1>5

\* What a visit comes to when it stops reading: it ends, or the market is stopped first.
Over == \/ /\ visit' = [visit EXCEPT !.at = "tell"] /\ UNCHANGED ring
        \/ /\ visit' = NoVisit
           /\ ring' \in [Messages -> {"none", "shown", "heard", "due", "answered"}]
           /\ \A r \in Messages :
                ring'[r] = ring[r] \/ (ring[r] \in {"heard", "due"} /\ ring'[r] = "answered")

\* A ring is answered for want of visits only by the last of them.
LastOfThem == \A r \in Messages :
    ring[r] \in {"heard", "due"} /\ ring'[r] = "answered" => mem.misses + 1 >= Attempts

LEMMA OverKeeps ==
    ASSUME PeopleTypes, LaneTypes, ReadsWhatRang, Over,
           UNCHANGED <<kind, people, stored, held>>, mem' \in Minds, block' \in Blocks, tap' \in TapRows
    PROVE  PeopleTypes' /\ LaneTypes' /\ ReadsWhatRang'
<1>1. visit' \in Visits /\ visit'.at # "read" /\ visit'.began \subseteq visit.began
  <2>1. CASE visit' = [visit EXCEPT !.at = "tell"]
    BY <2>1 DEF LaneTypes, Visits
  <2>2. CASE visit' = NoVisit
    BY <2>2, WatchNumbers DEF NoVisit
  <2> QED
    BY <2>1, <2>2 DEF Over
<1>2. /\ ring' \in [Messages -> {"none", "shown", "heard", "due", "answered"}]
      /\ \A m \in Messages : ring'[m] # "none" => ring[m] # "none"
  BY DEF Over, PeopleTypes
<1>3. ReadsWhatRang'
  BY <1>1, <1>2 DEF ReadsWhatRang, people
<1> QED
  BY <1>1, <1>2, <1>3 DEF PeopleTypes, LaneTypes, people

LEMMA SettlesOver ==
    ASSUME PeopleTypes, LaneTypes, NEW m \in Minds, m.misses = mem.misses, SettleVisit(m, FALSE)
    PROVE  Over /\ LastOfThem /\ mem' \in Minds
<1>1. /\ visit' = NoVisit /\ mem' \in Minds
      /\ ring' \in [Messages -> {"none", "shown", "heard", "due", "answered"}]
      /\ \A r \in Messages : \/ ring'[r] = ring[r]
                             \/ /\ r \in visit.began /\ ring[r] \in {"heard", "due"}
                                /\ ring'[r] = "answered"
                                /\ FALSE \/ m.misses + 1 >= Attempts
  BY Settles
<1> QED
  BY <1>1 DEF Over, LastOfThem

\* block_market, on any cause there is.
LEMMA Blocked ==
    ASSUME block \in Blocks, NEW cause \in Walls \cup {"refused", "logged_out"}, BlockMarket(cause)
    PROVE  block' \in Blocks
<1>1. block.strikes + 1 \in 0..MaxStrikes
  BY WatchNumbers DEF BlockMarket, Blocks
<1> QED
  BY <1>1 DEF BlockMarket, Blocks

LEMMA Told ==
    ASSUME block \in Blocks, ReportBlockOnce
    PROVE  block' \in Blocks
  BY DEF ReportBlockOnce, Blocks

LEMMA StopsOver ==
    ASSUME PeopleTypes, LaneTypes, NEW m \in Minds, NEW cause \in Walls \cup {"refused", "logged_out"},
           Stops(m, cause)
    PROVE  Over /\ LastOfThem /\ mem' \in Minds /\ block' \in Blocks /\ stored' = stored
<1>1. Over /\ mem' \in Minds /\ stored' = stored /\ ring' = ring
  BY DEF Stops, Over
<1>2. block' \in Blocks
  BY Blocked DEF Stops, LaneTypes
<1>3. LastOfThem
  BY <1>1 DEF LastOfThem
<1> QED
  BY <1>1, <1>2, <1>3

LEMMA BlindOver ==
    ASSUME PeopleTypes, LaneTypes, NEW refusal \in BOOLEAN, CountBlind(mem, refusal)
    PROVE  Over /\ LastOfThem /\ mem' \in Minds /\ block' \in Blocks /\ stored' = stored
<1> DEFINE k == IF refusal /\ kind = "ring" THEN mem.refused + 1 ELSE mem.refused
           none == [mem EXCEPT !.refused = 0]
           more == [mem EXCEPT !.refused = k]
<1>1. mem \in Minds /\ mem.refused \in 0..BlindAfter /\ BlindAfter \in Nat \ {0}
  BY WatchNumbers DEF LaneTypes, Minds
<1>2. none \in Minds
  BY <1>1 DEF Minds
<1>3. CASE refusal /\ k >= BlindAfter
  <2>1. Stops(none, "refused")
    BY <1>3 DEF CountBlind
  <2> HIDE DEF none
  <2> QED
    BY <1>2, <2>1, StopsOver
<1>4. CASE ~(refusal /\ k >= BlindAfter)
  <2>1. SettleVisit(more, FALSE) /\ UNCHANGED <<stored, block>>
    BY <1>4 DEF CountBlind
  <2>2. k \in 0..BlindAfter
    BY <1>1, <1>4
  <2> HIDE DEF k
  <2>3. more \in Minds /\ more.misses = mem.misses
    BY <1>1, <2>2 DEF Minds
  <2> HIDE DEF more
  <2> QED
    BY <2>1, <2>3, SettlesOver DEF LaneTypes
<1> QED
  BY <1>3, <1>4

\* What AnsweredWasRead says of a step.
RingsSpent == \A m \in Messages :
    ring[m] \in {"heard", "due"} /\ ring'[m] = "answered" =>
      \/ stored[m[1]] >= m[2]
      \/ m[1] \in visit.passed
      \/ mem.misses + 1 >= Attempts

LEMMA OverStep ==
    ASSUME WatchInv, Over, LastOfThem, UNCHANGED <<kind, people, stored, held, tap>>,
           mem' \in Minds, block' \in Blocks
    PROVE  WatchInv' /\ RingsSpent
<1>1. PeopleTypes' /\ LaneTypes' /\ ReadsWhatRang'
  BY OverKeeps DEF WatchInv, LaneTypes
<1> QED
  BY <1>1 DEF WatchInv, LastOfThem, RingsSpent

LEMMA VisitStopsStep ==
    ASSUME WatchInv, TellStopped \/ VisitFails \/ SignedOut \/ Walled \/ ListUnreadable
    PROVE  WatchInv' /\ RingsSpent
<1>1. PeopleTypes /\ LaneTypes /\ mem \in Minds /\ block \in Blocks
  BY DEF WatchInv, LaneTypes
<1>2. CASE TellStopped
  <2>1. SettleVisit(mem, FALSE) /\ ReportBlockOnce /\ UNCHANGED <<kind, people, stored, tap, held>>
    BY <1>2 DEF TellStopped
  <2>2. Over /\ LastOfThem /\ mem' \in Minds
    BY <1>1, <2>1, SettlesOver
  <2> QED
    BY <1>1, <2>1, <2>2, Told, OverStep
<1>3. CASE VisitFails
  <2>1. CountBlind(mem, FALSE) /\ UNCHANGED <<kind, people, tap, held>>
    BY <1>3 DEF VisitFails
  <2> QED
    BY <1>1, <2>1, BlindOver, OverStep
<1>4. CASE SignedOut
  <2> DEFINE zero == [mem EXCEPT !.out = 0]
             one == [mem EXCEPT !.out = @ + 1]
  <2>1. UNCHANGED <<kind, people, tap, held>>
    BY <1>4 DEF SignedOut
  <2>2. Stops(zero, "logged_out") \/ GivesUp(one) \/ GivesUp(mem)
    BY <1>4 DEF SignedOut
  <2>3. zero \in Minds /\ one \in Minds /\ one.misses = mem.misses
    BY <1>1 DEF Minds
  <2> HIDE DEF zero, one
  <2>4. CASE Stops(zero, "logged_out")
    BY <1>1, <2>1, <2>3, <2>4, StopsOver, OverStep
  <2>5. CASE GivesUp(one)
    <3>1. SettleVisit(one, FALSE) /\ stored' = stored /\ block' = block
      BY <2>5 DEF GivesUp
    <3> QED
      BY <1>1, <2>1, <2>3, <3>1, SettlesOver, OverStep
  <2>6. CASE GivesUp(mem)
    <3>1. SettleVisit(mem, FALSE) /\ stored' = stored /\ block' = block
      BY <2>6 DEF GivesUp
    <3> QED
      BY <1>1, <2>1, <3>1, SettlesOver, OverStep
  <2> QED
    BY <2>2, <2>4, <2>5, <2>6
<1>5. CASE Walled
  <2> DEFINE zero == [mem EXCEPT !.refused = 0]
  <2>1. UNCHANGED <<kind, people, tap, held>>
    BY <1>5 DEF Walled
  <2>2. PICK wall \in Walls : Stops(mem, wall) \/ Stops(zero, wall)
    BY <1>5 DEF Walled
  <2>3. zero \in Minds
    BY <1>1, WatchNumbers DEF Minds
  <2> HIDE DEF zero
  <2>4. CASE Stops(mem, wall)
    BY <1>1, <2>1, <2>4, StopsOver, OverStep
  <2>5. CASE Stops(zero, wall)
    BY <1>1, <2>1, <2>3, <2>5, StopsOver, OverStep
  <2> QED
    BY <2>2, <2>4, <2>5
<1>6. CASE ListUnreadable
  <2>1. PICK refusal \in BOOLEAN : CountBlind(mem, refusal)
    BY <1>6 DEF ListUnreadable
  <2>2. UNCHANGED <<kind, people, tap, held>>
    BY <1>6 DEF ListUnreadable
  <2> QED
    BY <1>1, <2>1, <2>2, BlindOver, OverStep
<1> QED
  BY <1>2, <1>3, <1>4, <1>5, <1>6

LEMMA VisitEndsStep ==
    ASSUME WatchInv, VisitEnds
    PROVE  WatchInv' /\ RingsSpent
<1>1. PeopleTypes /\ LaneTypes /\ ReadsWhatRang /\ mem \in Minds /\ block \in Blocks /\ tap \in TapRows
  BY DEF WatchInv, LaneTypes
<1>2. UNCHANGED <<kind, people, tap, held>>
  BY DEF VisitEnds
<1>3. CASE visit.failed
  <2>1. CountBlind(mem, FALSE)
    BY <1>3 DEF VisitEnds
  <2> QED
    BY <1>1, <1>2, <2>1, BlindOver, OverStep
<1>4. CASE ~visit.failed
  <2>1. SettleVisit(mem, TRUE) /\ UNCHANGED <<stored, block>>
    BY <1>4 DEF VisitEnds, AllClear
  <2>2. /\ visit' = NoVisit /\ mem' \in Minds
        /\ ring' \in [Messages -> {"none", "shown", "heard", "due", "answered"}]
        /\ \A r \in Messages : \/ ring'[r] = ring[r]
                               \/ /\ r \in visit.began /\ ring[r] \in {"heard", "due"}
                                  /\ ring'[r] = "answered"
                                  /\ TRUE \/ mem.misses + 1 >= Attempts
    BY <1>1, <2>1, Settles
  <2>3. Over
    BY <2>2 DEF Over
  <2>4. WatchInv'
    BY <1>1, <1>2, <2>1, <2>2, <2>3, OverKeeps DEF WatchInv
  <2>5. ASSUME NEW m \in Messages, ring[m] \in {"heard", "due"}, ring'[m] = "answered"
        PROVE  stored[m[1]] >= m[2] \/ m[1] \in visit.passed
    <3>1. m \in visit.began
      BY <2>2, <2>5
    <3>2. LookedAt(m)
      BY <1>1, <3>1 DEF ReadsWhatRang, VisitEnds
    <3> QED
      BY <1>4, <3>2 DEF LookedAt, VisitEnds
  <2> QED
    BY <2>4, <2>5 DEF RingsSpent
<1> QED
  BY <1>3, <1>4

\* A step that neither visits, nor rings, nor reads.
LEMMA BesideStep ==
    ASSUME WatchInv, UNCHANGED <<kind, people, stored, ring, visit>>,
           mem' \in Minds, block' \in Blocks, tap' \in TapRows, held' \in {"no", "busy", "paused"}
    PROVE  WatchInv' /\ RingsSpent
<1>1. PeopleTypes' /\ LaneTypes'
  BY DEF WatchInv, PeopleTypes, LaneTypes, people
<1>2. ReadsWhatRang'
  BY DEF WatchInv, ReadsWhatRang, LookedAt, people
<1> QED
  BY <1>1, <1>2 DEF WatchInv, RingsSpent

LEMMA ConnectingStep ==
    ASSUME WatchInv, Connecting
    PROVE  WatchInv' /\ RingsSpent
<1> USE WatchNumbers
<1>1. mem \in Minds /\ block \in Blocks /\ tap \in TapRows /\ held \in {"no", "busy", "paused"}
  BY DEF WatchInv, LaneTypes, PeopleTypes
<1>2. UNCHANGED <<kind, people, stored, ring, visit, mem, held>>
  BY DEF Connecting, TapGoesStale, Probe, ProbeDetached, ProbeFails, Probed, StillWalled, TapTold,
         Unblocks, Reports, TapOnly
<1>3. Served \in TapRows
  BY <1>1 DEF Served, NoTap, TapRows
<1>4. tap' \in TapRows
  <2>1. CASE TapGoesStale \/ ProbeFails
    BY <2>1 DEF TapGoesStale, ProbeFails
  <2>2. CASE Probe
    BY <1>1, <2>2 DEF Probe, TapRows
  <2>3. CASE ProbeDetached \/ TapTold \/ Unblocks \/ Reports
    BY <1>3, <2>3 DEF ProbeDetached, TapTold, Unblocks, Reports
  <2>4. CASE Probed
    BY <2>4 DEF Probed, TapRows
  <2>5. CASE StillWalled
    BY <1>1, <2>5 DEF StillWalled, TapRows
  <2> QED
    BY <2>1, <2>2, <2>3, <2>4, <2>5 DEF Connecting
<1>5. block' \in Blocks
  <2>1. CASE StillWalled
    BY <1>1, <2>1, Blocked DEF StillWalled
  <2>2. CASE TapTold
    BY <1>1, <2>2, Told DEF TapTold
  <2>3. CASE Unblocks
    BY <2>3 DEF Unblocks
  <2>4. CASE block' = block
    BY <1>1, <2>4
  <2> QED
    BY <2>1, <2>2, <2>3, <2>4
       DEF Connecting, TapGoesStale, Probe, ProbeDetached, ProbeFails, Probed, Reports
<1> QED
  BY <1>1, <1>2, <1>4, <1>5, BesideStep

LEMMA OutsideStep ==
    ASSUME WatchInv,
           \/ Taps \/ Hold("busy") \/ Hold("paused") \/ LetGo \/ RetryIsUp \/ Expires \/ UNCHANGED vars
    PROVE  WatchInv' /\ RingsSpent
<1>1. mem \in Minds /\ block \in Blocks /\ tap \in TapRows /\ held \in {"no", "busy", "paused"}
  BY DEF WatchInv, LaneTypes, PeopleTypes
<1>2. UNCHANGED <<kind, people, stored, ring, visit>>
  BY DEF Taps, Hold, LetGo, RetryIsUp, Expires, vars, people
<1>3. mem' \in Minds
  BY <1>1 DEF Taps, Hold, LetGo, RetryIsUp, Expires, vars, Minds
<1>4. block' \in Blocks
  BY <1>1 DEF Taps, Hold, LetGo, RetryIsUp, Expires, vars, Blocks
<1>5. tap' \in TapRows
  BY <1>1 DEF Taps, Hold, LetGo, RetryIsUp, Expires, vars, TapRows
<1>6. held' \in {"no", "busy", "paused"}
  BY <1>1 DEF Taps, Hold, LetGo, RetryIsUp, Expires, vars
<1> QED
  BY <1>2, <1>3, <1>4, <1>5, <1>6, BesideStep

LEMMA DiesStep ==
    ASSUME WatchInv, Dies
    PROVE  WatchInv' /\ RingsSpent
<1>1. PeopleTypes /\ LaneTypes /\ ReadsWhatRang
  BY DEF WatchInv
<1>2. visit' = NoVisit /\ mem' = Fresh /\ UNCHANGED <<kind, people, stored, ring, block, held>>
  BY DEF Dies
<1>3. tap' \in TapRows
  BY <1>1 DEF Dies, NoTap, LaneTypes, TapRows
<1>4. Over /\ LastOfThem
  BY <1>1, <1>2 DEF Over, LastOfThem, PeopleTypes
<1>5. PeopleTypes' /\ LaneTypes' /\ ReadsWhatRang'
  BY <1>1, <1>2, <1>3, <1>4, WatchNumbers, OverKeeps DEF LaneTypes
<1> QED
  BY <1>4, <1>5 DEF WatchInv, RingsSpent, LastOfThem

\* A message is said, a notification is shown, heard, or has become due.
LEMMA RingingStep ==
    ASSUME WatchInv,
           \/ \E t \in Threads : BuyerWrites(t) \/ Escalates(t)
           \/ \E m \in Messages : ComesDue(m)
           \/ DoorbellHears
    PROVE  WatchInv' /\ RingsSpent
<1>1. PeopleTypes /\ LaneTypes /\ ReadsWhatRang /\ MaxSaid \in Nat
  BY WatchNumbers DEF WatchInv
<1>2. /\ kind' = kind /\ visit' = visit /\ block' = block /\ tap' = tap /\ held' = held
      /\ stored' = stored
  BY DEF BuyerWrites, Escalates, ComesDue, DoorbellHears, people, bounds
<1>3. mem' \in Minds
  BY <1>1 DEF BuyerWrites, Escalates, ComesDue, DoorbellHears, LaneTypes, Minds
<1>4. LaneTypes'
  BY <1>1, <1>2, <1>3 DEF LaneTypes
<1>5. /\ PeopleTypes'
      /\ \A t \in Threads : said'[t] >= said[t]
      /\ \A m \in Messages : ring'[m] # "none" => m[2] <= said'[m[1]]
      /\ \A m \in Messages : ring[m] \in {"heard", "due"} => ring'[m] # "answered"
  <2>1. ASSUME NEW t \in Threads, BuyerWrites(t)
        PROVE  <1>5!:
    <3>1. PICK shown \in {"none", "shown"} :
            ring' = [ring EXCEPT ![<<t, said[t] + 1>>] = shown]
      BY <2>1 DEF BuyerWrites
    <3>2. said' = [said EXCEPT ![t] = @ + 1] /\ said[t] \in 0..MaxSaid /\ said[t] < MaxSaid
          /\ stat' = stat
      BY <1>1, <2>1 DEF BuyerWrites, PeopleTypes
    <3>3. PeopleTypes'
      <4>1. said' \in [Threads -> 0..MaxSaid]
        BY <1>1, <3>2 DEF PeopleTypes
      <4>2. ring' \in [Messages -> {"none", "shown", "heard", "due", "answered"}]
        BY <1>1, <3>1 DEF PeopleTypes
      <4> QED
        BY <1>1, <1>2, <3>2, <4>1, <4>2 DEF PeopleTypes
    <3>4. \A u \in Threads : said'[u] >= said[u]
      BY <1>1, <3>2 DEF PeopleTypes
    <3>5. ASSUME NEW m \in Messages
          PROVE  /\ ring'[m] # "none" => m[2] <= said'[m[1]]
                 /\ ring[m] \in {"heard", "due"} => ring'[m] # "answered"
      <4>1. m[1] \in Threads /\ m[2] \in 1..MaxSaid /\ m = <<m[1], m[2]>>
        BY MessagesAre
      <4>2. CASE m = <<t, said[t] + 1>>
        <5>1. ring'[m] = shown
          BY <1>1, <3>1, <4>2 DEF PeopleTypes
        <5> QED
          BY <1>1, <3>2, <4>2, <5>1 DEF PeopleTypes
      <4>3. CASE m # <<t, said[t] + 1>>
        <5>1. ring'[m] = ring[m]
          BY <1>1, <3>1, <4>3 DEF PeopleTypes
        <5>2. ring[m] # "none" => m[2] <= said[m[1]]
          BY <1>1 DEF ReadsWhatRang
        <5>3. said[m[1]] \in 0..MaxSaid /\ said'[m[1]] \in 0..MaxSaid
          BY <1>1, <3>3, <4>1 DEF PeopleTypes
        <5> QED
          BY <1>1, <3>4, <4>1, <5>1, <5>2, <5>3
      <4> QED
        BY <4>2, <4>3
    <3> QED
      BY <3>3, <3>4, <3>5
  <2>2. ASSUME NEW t \in Threads, Escalates(t)
        PROVE  <1>5!:
    BY <1>1, <1>2, <2>2 DEF Escalates, PeopleTypes, ReadsWhatRang
  <2>3. ASSUME NEW m \in Messages, ComesDue(m)
        PROVE  <1>5!:
    BY <1>1, <1>2, <2>3 DEF ComesDue, PeopleTypes, ReadsWhatRang, people
  <2>4. ASSUME DoorbellHears
        PROVE  <1>5!:
    BY <1>1, <1>2, <2>4 DEF DoorbellHears, Shown, PeopleTypes, ReadsWhatRang, people
  <2> QED
    BY <2>1, <2>2, <2>3, <2>4
<1>6. \A m \in visit.began : m[2] <= said'[m[1]]
  <2> SUFFICES ASSUME NEW m \in visit.began PROVE m[2] <= said'[m[1]]
    OBVIOUS
  <2>1. m \in Messages /\ m[1] \in Threads /\ m[2] \in 1..MaxSaid
    BY <1>1, MessagesAre DEF LaneTypes, Visits
  <2>2. m[2] <= said[m[1]] /\ said[m[1]] \in 0..MaxSaid /\ said'[m[1]] \in 0..MaxSaid
    BY <1>1, <1>5, <2>1 DEF ReadsWhatRang, PeopleTypes
  <2> QED
    BY <1>1, <1>5, <2>1, <2>2
<1>7. ReadsWhatRang'
  BY <1>1, <1>2, <1>5, <1>6 DEF ReadsWhatRang, LookedAt
<1> QED
  BY <1>4, <1>5, <1>7 DEF WatchInv, RingsSpent

\* A visit begins: whatever has rung has been said.
LEMMA InboxLaneStep ==
    ASSUME WatchInv, InboxLane
    PROVE  WatchInv' /\ RingsSpent
<1> DEFINE rung == {m \in Messages : ring[m] \in {"heard", "due"}}
<1>1. PeopleTypes /\ LaneTypes /\ ReadsWhatRang
  BY DEF WatchInv
<1>2. /\ visit' = [NoVisit EXCEPT !.at = "open", !.began = rung]
      /\ UNCHANGED <<kind, people, stored, ring, mem, block, tap, held>>
  BY DEF InboxLane
<1>3. visit'.at = "open" /\ visit'.began = rung /\ visit' \in Visits
  BY <1>2 DEF NoVisit, Visits
<1>4. PeopleTypes' /\ LaneTypes'
  BY <1>1, <1>2, <1>3 DEF PeopleTypes, LaneTypes, people
<1>5. ReadsWhatRang'
  BY <1>1, <1>2, <1>3 DEF ReadsWhatRang, people
<1> QED
  BY <1>2, <1>4, <1>5 DEF WatchInv, RingsSpent

LEMMA SignedInStep ==
    ASSUME WatchInv, NEW state \in {"logged_in", "unknown"}, SignedIn(state)
    PROVE  WatchInv' /\ RingsSpent
<1>1. PeopleTypes /\ LaneTypes /\ ReadsWhatRang
  BY DEF WatchInv
<1>2. /\ visit' = [visit EXCEPT !.at = "list"]
      /\ UNCHANGED <<kind, people, stored, ring, block, tap, held>>
  BY DEF SignedIn
<1>3. visit' \in Visits /\ visit'.at = "list" /\ visit'.began = visit.began
  BY <1>1, <1>2 DEF LaneTypes, Visits
<1>4. mem' \in Minds
  BY <1>1 DEF SignedIn, LaneTypes, Minds
<1>5. PeopleTypes' /\ LaneTypes'
  BY <1>1, <1>2, <1>3, <1>4 DEF PeopleTypes, LaneTypes, people
<1>6. ReadsWhatRang'
  BY <1>1, <1>2, <1>3 DEF ReadsWhatRang, people
<1> QED
  BY <1>2, <1>5, <1>6 DEF WatchInv, RingsSpent

\* The list holds what was said by the time it is read, and what began the visit was said before.
LEMMA ListReadStep ==
    ASSUME WatchInv, ListRead
    PROVE  WatchInv' /\ RingsSpent
<1> DEFINE tick == IF kind = "timer" THEN (mem.tick + 1) % SweepEvery ELSE 0
           list == {<<t, said[t]>> : t \in {u \in Threads : said[u] > 0}}
<1>1. PeopleTypes /\ LaneTypes /\ ReadsWhatRang
  BY DEF WatchInv
<1>2. /\ mem' = [mem EXCEPT !.refused = 0, !.tick = tick]
      /\ visit' = [visit EXCEPT !.at = "read", !.sweep = kind = "timer" /\ tick = 0, !.rows = list]
      /\ UNCHANGED <<kind, people, stored, ring, block, tap, held>>
  BY DEF ListRead
<1>3. tick \in Int
  BY <1>1, WatchNumbers DEF LaneTypes, Minds
<1> HIDE DEF tick
<1>4. mem' \in Minds
  <2>1. mem \in Minds /\ 0 \in 0..BlindAfter
    BY <1>1, WatchNumbers DEF LaneTypes
  <2> QED
    BY <1>2, <1>3, <2>1 DEF Minds
<1>5. list \subseteq Messages
  BY <1>1, WatchNumbers DEF PeopleTypes, Messages
<1>6. (kind = "timer" /\ tick = 0) \in BOOLEAN
  OBVIOUS
<1>7. \A m \in Messages : m[2] <= said[m[1]] => m \in Messages /\ <<m[1], said[m[1]]>> \in list
  <2> SUFFICES ASSUME NEW m \in Messages, m[2] <= said[m[1]] PROVE <<m[1], said[m[1]]>> \in list
    OBVIOUS
  <2>1. m[1] \in Threads /\ m[2] \in 1..MaxSaid
    BY MessagesAre
  <2>2. said[m[1]] \in 0..MaxSaid
    BY <1>1, <2>1 DEF PeopleTypes
  <2>3. said[m[1]] > 0
    BY <2>1, <2>2, WatchNumbers
  <2> QED
    BY <2>1, <2>3
<1> HIDE DEF list
<1>8. /\ visit' \in Visits /\ visit'.began = visit.began /\ visit'.rows = list
  BY <1>1, <1>2, <1>5, <1>6 DEF LaneTypes, Visits
<1>9. PeopleTypes' /\ LaneTypes'
  BY <1>1, <1>2, <1>4, <1>8 DEF PeopleTypes, LaneTypes, people
<1>10. \A m \in visit.began : LookedAt(m)'
  <2> SUFFICES ASSUME NEW m \in visit.began PROVE LookedAt(m)'
    OBVIOUS
  <2>1. m \in Messages /\ m[2] <= said[m[1]] /\ m[1] \in Threads
    BY <1>1, MessagesAre DEF ReadsWhatRang, LaneTypes, Visits
  <2>2. <<m[1], said[m[1]]>> \in visit'.rows
    BY <1>7, <1>8, <2>1
  <2>3. said[m[1]] \in 1..MaxSaid
    <3>1. m[2] \in 1..MaxSaid /\ said[m[1]] \in 0..MaxSaid
      BY <1>1, <2>1, MessagesAre DEF PeopleTypes
    <3> QED
      BY <2>1, <3>1, WatchNumbers
  <2> QED
    BY <2>1, <2>2, <2>3 DEF LookedAt
<1>11. ReadsWhatRang'
  BY <1>1, <1>2, <1>8, <1>10 DEF ReadsWhatRang, people
<1> QED
  BY <1>2, <1>9, <1>11 DEF WatchInv, RingsSpent

\* A row leaves the list: what it stood for is stored, or passed over, or could not be read.
LEMMA RowsStep ==
    ASSUME WatchInv, NEW t \in Threads, NEW n \in 1..MaxSaid, PassOver(t, n) \/ ReadThread(t, n)
    PROVE  WatchInv' /\ RingsSpent
<1>1. PeopleTypes /\ LaneTypes /\ ReadsWhatRang /\ MaxSaid \in Nat
  BY WatchNumbers DEF WatchInv
<1>2. /\ UNCHANGED <<kind, said, ring, mem, block, tap, held>>
      /\ visit.at = "read"
  BY DEF PassOver, ReadThread, people
<1>3. CASE PassOver(t, n)
  <2> DEFINE passed == IF stat[t] = "escalated" THEN visit.passed \cup {t} ELSE visit.passed
  <2>1. /\ visit' = [visit EXCEPT !.rows = @ \ {<<t, n>>}, !.passed = passed]
        /\ UNCHANGED <<stat, stored>>
        /\ stat[t] = "escalated" \/ CanSkip(t, n)
    BY <1>3 DEF PassOver, people
  <2>2. passed \in SUBSET Threads /\ visit.passed \subseteq passed
    BY <1>1 DEF LaneTypes, Visits
  <2>3. stat[t] # "escalated" => stored[t] = n
    BY <2>1 DEF CanSkip
  <2>4. stat[t] = "escalated" => t \in passed
    OBVIOUS
  <2> HIDE DEF passed
  <2>5. /\ visit' \in Visits /\ visit'.began = visit.began /\ visit'.failed = visit.failed
        /\ visit'.rows = visit.rows \ {<<t, n>>} /\ visit'.passed = passed
    BY <1>1, <2>1, <2>2 DEF LaneTypes, Visits
  <2>6. PeopleTypes' /\ LaneTypes'
    BY <1>1, <1>2, <2>1, <2>5 DEF PeopleTypes, LaneTypes
  <2>7. \A m \in visit.began : LookedAt(m)'
    <3> SUFFICES ASSUME NEW m \in visit.began PROVE LookedAt(m)'
      OBVIOUS
    <3>1. LookedAt(m) /\ m \in Messages
      BY <1>1, <1>2 DEF ReadsWhatRang, LaneTypes, Visits
    <3>2. ASSUME NEW k \in 1..MaxSaid, <<m[1], k>> \in visit.rows, k >= m[2]
          PROVE  LookedAt(m)'
      <4>1. CASE m[1] = t /\ k = n
        BY <2>1, <2>3, <2>4, <2>5, <3>2, <4>1 DEF LookedAt
      <4>2. CASE ~(m[1] = t /\ k = n)
        <5>1. <<m[1], k>> \in visit'.rows
          BY <2>5, <3>2, <4>2
        <5> QED
          BY <3>2, <5>1 DEF LookedAt
      <4> QED
        BY <4>1, <4>2
    <3>3. CASE stored[m[1]] >= m[2] \/ m[1] \in visit.passed \/ visit.failed
      BY <2>1, <2>2, <2>5, <3>3 DEF LookedAt
    <3> QED
      BY <3>1, <3>2, <3>3 DEF LookedAt
  <2>8. ReadsWhatRang'
    BY <1>1, <1>2, <2>5, <2>7 DEF ReadsWhatRang
  <2> QED
    BY <1>2, <2>6, <2>8 DEF WatchInv, RingsSpent
<1>4. CASE ReadThread(t, n)
  <2>1. PICK unreadable \in BOOLEAN :
          /\ stored' = IF unreadable THEN stored ELSE [stored EXCEPT ![t] = said[t]]
          /\ visit' = [visit EXCEPT !.rows = @ \ {<<t, n>>}, !.failed = @ \/ unreadable]
    BY <1>4 DEF ReadThread
  <2>2. stat' = [stat EXCEPT ![t] = "active"]
    BY <1>4 DEF ReadThread
  <2>3. (visit.failed \/ unreadable) \in BOOLEAN
    OBVIOUS
  <2>4. /\ visit' \in Visits /\ visit'.began = visit.began /\ visit'.passed = visit.passed
        /\ visit'.rows = visit.rows \ {<<t, n>>} /\ visit'.failed = (visit.failed \/ unreadable)
    BY <1>1, <2>1, <2>3 DEF LaneTypes, Visits
  <2>5. stored' \in [Threads -> 0..MaxSaid] /\ stat' \in [Threads -> {"none", "active", "escalated"}]
    BY <1>1, <2>1, <2>2 DEF PeopleTypes
  <2>6. PeopleTypes' /\ LaneTypes'
    BY <1>1, <1>2, <2>4, <2>5 DEF PeopleTypes, LaneTypes
  <2>7. \A m \in visit.began : LookedAt(m)'
    <3> SUFFICES ASSUME NEW m \in visit.began PROVE LookedAt(m)'
      OBVIOUS
    <3>1. LookedAt(m) /\ m \in Messages /\ m[2] <= said[m[1]]
      BY <1>1, <1>2 DEF ReadsWhatRang, LaneTypes, Visits
    <3>2. m[1] \in Threads /\ m[2] \in 1..MaxSaid
      BY <3>1, MessagesAre
    <3>3. CASE unreadable \/ visit.failed
      BY <2>4, <3>3 DEF LookedAt
    <3>4. CASE ~unreadable /\ m[1] = t
      <4>1. stored'[m[1]] = said[m[1]]
        BY <1>1, <2>1, <3>4 DEF PeopleTypes
      <4> QED
        BY <3>1, <3>2, <4>1, <1>1 DEF LookedAt, PeopleTypes
    <3>5. CASE ~unreadable /\ ~visit.failed /\ m[1] # t
      <4>1. stored'[m[1]] = stored[m[1]]
        BY <1>1, <2>1, <3>2, <3>5 DEF PeopleTypes
      <4>2. \A k \in 1..MaxSaid : <<m[1], k>> \in visit.rows => <<m[1], k>> \in visit'.rows
        BY <2>4, <3>5
      <4> QED
        BY <2>4, <3>1, <3>5, <4>1, <4>2 DEF LookedAt
    <3> QED
      BY <3>3, <3>4, <3>5
  <2>8. ReadsWhatRang'
    BY <1>1, <1>2, <2>4, <2>7 DEF ReadsWhatRang
  <2> QED
    BY <1>2, <2>6, <2>8 DEF WatchInv, RingsSpent
<1> QED
  BY <1>3, <1>4

LEMMA WatchStep == WatchInv /\ [Next]_vars => WatchInv' /\ RingsSpent
<1> SUFFICES ASSUME WatchInv, [Next]_vars PROVE WatchInv' /\ RingsSpent
  OBVIOUS
<1>1. CASE Visiting
  BY <1>1, VisitStopsStep, VisitEndsStep, InboxLaneStep, SignedInStep, ListReadStep, RowsStep
     DEF Visiting
<1>2. CASE Connecting
  BY <1>2, ConnectingStep
<1>3. CASE \/ DoorbellHears \/ \E t \in Threads : BuyerWrites(t) \/ Escalates(t)
           \/ \E m \in Messages : ComesDue(m)
  BY <1>3, RingingStep
<1>4. CASE \/ Taps \/ Hold("busy") \/ Hold("paused") \/ LetGo \/ RetryIsUp \/ Expires
           \/ UNCHANGED vars
  BY <1>4, OutsideStep
<1>5. CASE Dies
  BY <1>5, DiesStep
<1> QED
  BY <1>1, <1>2, <1>3, <1>4, <1>5 DEF Next

\* Every variable of the market's lanes keeps its type: no more walls, visits or refusals are
\* counted than there may be.
THEOREM WatchTyped == Spec => []TypeOK
<1>1. WatchInv => TypeOK
  BY DEF WatchInv, PeopleTypes, LaneTypes, Visits, Minds, Blocks, TapRows, TypeOK
<1> QED
  BY <1>1, WatchInit, WatchStep, PTL DEF Spec

\* A ring is spent only on a look at what rang, or by the last of the visits it is given, for any
\* conversations, messages, walls, refusals and deaths of the daemon (_settle_visit).
THEOREM RingsAreRead == Spec => AnsweredWasRead
<1>1. WatchInv /\ [Next]_vars => [RingsSpent]_vars
  BY WatchStep
<1>2. Spec => [][RingsSpent]_vars
  BY <1>1, WatchInit, WatchStep, PTL DEF Spec
<1> QED
  BY <1>2 DEF AnsweredWasRead, RingsSpent

-----------------------------------------------------------------------------
(* The commands that replace the daemon's code.                            *)

CommandEndings == {"done", "failed", "undone", "killed"}

\* Which steps belong to which command, and what is known of its fields.
CommandShape ==
    /\ cmd.op = "none" <=> cmd.at \in CommandEndings
    /\ cmd.at \in {"fetch", "leave", "wait", "check"} => cmd.op = "update"
    /\ cmd.at = "ask" => cmd.op = "setup"
    /\ cmd.at \in {"stop", "stage", "provision", "swap", "start"} => cmd.op \in {"update",
       "setup"}
    /\ cmd.at \in {"undo", "back", "restore", "restart"} =>
          cmd.op \in {"update", "rollback"} /\ cmd.from \in Versions
    /\ cmd.op \in {"update", "setup"} => cmd.to \in Versions
    /\ cmd.at \in {"fetch", "leave"} => ~cmd.was
    /\ cmd.at \in {"wait", "check"} => registered

\* What an update leaves current pointing at, and what it may go back to, is whole.
CodeBehind ==
    /\ cmd.at = "swap" => dirs[cmd.to] = "ready"
    /\ cmd.op = "update" =>
          /\ dirs[current] = "ready"
          /\ cmd.at \in {"fetch", "stop", "stage", "provision", "swap"} => cmd.to > current
          /\ cmd.at \in {"stop", "stage", "provision", "swap"} => cmd.from = current
          /\ cmd.at \in {"leave", "start", "wait", "check", "undo", "back"} =>
                current = cmd.to /\ cmd.from \in Versions /\ dirs[cmd.from] = "ready"
          /\ cmd.at \in {"restore", "restart"} => current = cmd.from

\* No worker runs while the code or the database under it is replaced.
WorkerBelow ==
    /\ cmd.at \in {"stage", "provision", "swap", "leave", "start", "ask", "back", "restore",
                   "restart"} => ~registered
    /\ worker.at # "off" => registered /\ worker.code = current
    /\ worker.at \in {"snapped", "between"} => db.schema < Ships[current]

\* What was written before the update is in the database, and in any snapshot taken since.
RowsBehind ==
    /\ snap.at <= clock
    /\ cmd.op = "update" /\ cmd.at # "fetch" =>
          /\ cmd.since <= clock /\ db.rows >= cmd.old.rows
          /\ snap.at > cmd.since => snap.rows >= cmd.old.rows

\* A database the old version cannot read has a snapshot beside it that it can.
WayBack ==
    cmd.op = "update" /\ cmd.at # "fetch" /\ cmd.old.schema <= Ships[cmd.from] =>
        /\ snap.at > cmd.since => snap.schema <= Ships[cmd.from]
        /\ db.schema <= Ships[cmd.from] \/ (snap.at > cmd.since /\ cmd.at # "restart")
        /\ cmd.at \in {"stop", "stage", "provision", "swap", "leave"} =>
              db.schema <= Ships[cmd.from]
        /\ cmd.at \in {"start", "wait", "check", "undo"} /\ worker.at # "between" =>
              db.schema <= Ships[cmd.from] \/ db.schema >= Ships[cmd.to]
        /\ cmd.at \in {"wait", "check", "undo"} /\ worker.at \in {"snapped", "between"} =>
              snap.at > cmd.since

\* What the constants are.
LEMMA UpdateConstants ==
    /\ Versions \subseteq Nat /\ Ships \in [Versions -> Nat] /\ MaxTicks \in Nat
    /\ VersionsKept \in Nat /\ BackupsKeep \in Nat /\ Tears \in BOOLEAN /\ MaxRows \in Nat
  BY UpdateAssumption DEF UpdateAssumption

\* Pruning takes nothing from behind current.
LEMMA PrunedKeeps ==
    ASSUME UpdateTypes
    PROVE  Pruned \in [Versions -> {"none", "bare", "ready"}] /\ Pruned[current] = dirs[current]
<1> DEFINE others == Installed \ {current}
           old(v) == /\ v \in others
                     /\ Cardinality({w \in others : made[w] > made[v]}) >= VersionsKept - 1
<1>1. Pruned = [v \in Versions |-> IF old(v) THEN "none" ELSE dirs[v]]
    BY DEF Pruned
<1>2. ~old(current) /\ current \in Versions
    BY DEF UpdateTypes
<1> HIDE DEF old
<1> QED
    BY <1>1, <1>2 DEF UpdateTypes

\* Each step keeps the types.  A version that goes live, or comes back, is one the command names.
LEMMA UpdateTypesKept ==
    ASSUME UpdateTypes, CommandShape, UpdateNext
    PROVE  UpdateTypes'
<1> USE UpdateConstants DEF UpdateTypes, CommandShape, CommandEndings, layout
<1>1. CASE Spawns
    BY <1>1 DEF Spawns
<1>2. CASE Snapshots
    BY <1>2 DEF Snapshots, NoSnap, WorkerAt
<1>3. CASE Migrates
    BY <1>3 DEF Migrates, WorkerAt
<1>4. CASE ComesUp
    BY <1>4 DEF ComesUp, WorkerAt
<1>5. CASE WritesRows
    BY <1>5 DEF WritesRows
<1>6. CASE WorkerDies
    BY <1>6 DEF WorkerDies, Off
<1>7. CASE StartsByHand
    BY <1>7 DEF StartsByHand
<1>8. CASE StopsByHand
    BY <1>8 DEF StopsByHand, Off
<1>9. ASSUME NEW v \in Versions, UpdateBegins(v) PROVE UpdateTypes'
    BY <1>9 DEF UpdateBegins, NoCommand, Updatable, IsNewer
<1>10. ASSUME NEW v \in Versions, SetupBegins(v) PROVE UpdateTypes'
    BY <1>10 DEF SetupBegins, NoCommand
<1>11. ASSUME NEW v \in Versions, RollbackBegins(v) PROVE UpdateTypes'
    BY <1>11 DEF RollbackBegins, IsPrevious, Installed, Updatable
<1>12. CASE Fetches
    BY <1>12 DEF Fetches
<1>13. CASE FetchFails
    BY <1>13 DEF FetchFails, NoCommand
<1>14. CASE StopsWorker
    BY <1>14 DEF StopsWorker, Off
<1>15. CASE Stages
    BY <1>15 DEF Stages, CommandAt
<1>16. CASE Provisions
    BY <1>16 DEF Provisions, CommandAt
<1>17. CASE InstallFails
    BY <1>17 DEF InstallFails, NoCommand
<1>18. CASE SwapsCurrent
    BY <1>18 DEF SwapsCurrent, CommandAt
<1>19. CASE LeavesStopped
    BY <1>19, PrunedKeeps DEF LeavesStopped, NoCommand, Reinstalled
<1>20. CASE UpdateStarts
    BY <1>20 DEF UpdateStarts, CommandAt
<1>21. CASE SetupPrunes
    BY <1>21, PrunedKeeps DEF SetupPrunes, CommandAt
<1>22. CASE SetupStarts
    BY <1>22 DEF SetupStarts, NoCommand, Modes
<1>23. CASE HearsWorker
    BY <1>23 DEF HearsWorker, CommandAt
<1>24. CASE Accepts
    BY <1>24, PrunedKeeps DEF Accepts, NoCommand
<1>25. CASE TimesOut
    BY <1>25 DEF TimesOut, CommandAt
<1>26. CASE Breaks
    BY <1>26 DEF Breaks, CommandAt
<1>27. CASE UndoStops
    BY <1>27 DEF UndoStops, Off, CommandAt
<1>28. CASE SwapsBack
    BY <1>28 DEF SwapsBack, CommandAt
<1>29. CASE Restores
    BY <1>29 DEF Restores, TakenSince, CommandAt
<1>30. CASE Restarts
    BY <1>30 DEF Restarts, NoCommand
<1>31. CASE Killed
    BY <1>31 DEF Killed, NoCommand
<1> QED
    BY <1>1, <1>2, <1>3, <1>4, <1>5, <1>6, <1>7, <1>8, <1>9, <1>10, <1>11, <1>12, <1>13, <1>14,
       <1>15, <1>16, <1>17, <1>18, <1>19, <1>20, <1>21, <1>22, <1>23, <1>24, <1>25, <1>26,
       <1>27, <1>28, <1>29, <1>30, <1>31
       DEF UpdateNext, WorkerNext, CommandNext

\* Each step keeps which steps belong to which command.
LEMMA CommandShapeKept ==
    ASSUME UpdateTypes, CommandShape, CodeBehind, UpdateNext
    PROVE  CommandShape'
<1> USE UpdateConstants DEF UpdateTypes, CommandShape, CodeBehind, CommandEndings, layout
<1>1. CASE Spawns
    BY <1>1 DEF Spawns
<1>2. CASE Snapshots
    BY <1>2 DEF Snapshots, NoSnap, WorkerAt
<1>3. CASE Migrates
    BY <1>3 DEF Migrates, WorkerAt
<1>4. CASE ComesUp
    BY <1>4 DEF ComesUp, WorkerAt
<1>5. CASE WritesRows
    BY <1>5 DEF WritesRows
<1>6. CASE WorkerDies
    BY <1>6 DEF WorkerDies, Off
<1>7. CASE StartsByHand
    BY <1>7 DEF StartsByHand
<1>8. CASE StopsByHand
    BY <1>8 DEF StopsByHand, Off
<1>9. ASSUME NEW v \in Versions, UpdateBegins(v) PROVE CommandShape'
    BY <1>9 DEF UpdateBegins, NoCommand, Updatable, IsNewer
<1>10. ASSUME NEW v \in Versions, SetupBegins(v) PROVE CommandShape'
    BY <1>10 DEF SetupBegins, NoCommand
<1>11. ASSUME NEW v \in Versions, RollbackBegins(v) PROVE CommandShape'
    BY <1>11 DEF RollbackBegins, IsPrevious, Installed, Updatable
<1>12. CASE Fetches
    BY <1>12 DEF Fetches
<1>13. CASE FetchFails
    BY <1>13 DEF FetchFails, NoCommand
<1>14. CASE StopsWorker
    BY <1>14 DEF StopsWorker, Off
<1>15. CASE Stages
    BY <1>15 DEF Stages, CommandAt
<1>16. CASE Provisions
    BY <1>16 DEF Provisions, CommandAt
<1>17. CASE InstallFails
    BY <1>17 DEF InstallFails, NoCommand
<1>18. CASE SwapsCurrent
    BY <1>18 DEF SwapsCurrent, CommandAt
<1>19. CASE LeavesStopped
    BY <1>19, PrunedKeeps DEF LeavesStopped, NoCommand, Reinstalled
<1>20. CASE UpdateStarts
    BY <1>20 DEF UpdateStarts, CommandAt
<1>21. CASE SetupPrunes
    BY <1>21, PrunedKeeps DEF SetupPrunes, CommandAt
<1>22. CASE SetupStarts
    BY <1>22 DEF SetupStarts, NoCommand, Modes
<1>23. CASE HearsWorker
    BY <1>23 DEF HearsWorker, CommandAt
<1>24. CASE Accepts
    BY <1>24, PrunedKeeps DEF Accepts, NoCommand
<1>25. CASE TimesOut
    BY <1>25 DEF TimesOut, CommandAt
<1>26. CASE Breaks
    BY <1>26 DEF Breaks, CommandAt
<1>27. CASE UndoStops
    BY <1>27 DEF UndoStops, Off, CommandAt
<1>28. CASE SwapsBack
    BY <1>28 DEF SwapsBack, CommandAt
<1>29. CASE Restores
    BY <1>29 DEF Restores, TakenSince, CommandAt
<1>30. CASE Restarts
    BY <1>30 DEF Restarts, NoCommand
<1>31. CASE Killed
    BY <1>31 DEF Killed, NoCommand
<1> QED
    BY <1>1, <1>2, <1>3, <1>4, <1>5, <1>6, <1>7, <1>8, <1>9, <1>10, <1>11, <1>12, <1>13, <1>14,
       <1>15, <1>16, <1>17, <1>18, <1>19, <1>20, <1>21, <1>22, <1>23, <1>24, <1>25, <1>26,
       <1>27, <1>28, <1>29, <1>30, <1>31
       DEF UpdateNext, WorkerNext, CommandNext

\* Each step of an update has a whole version behind it, whoever else restarts or dies.
LEMMA CodeBehindKept ==
    ASSUME UpdateTypes, CommandShape, CodeBehind, WorkerBelow, UpdateNext
    PROVE  CodeBehind'
<1> USE UpdateConstants DEF UpdateTypes, CommandShape, CodeBehind, CommandEndings, layout
<1>1. CASE Spawns
    BY <1>1 DEF Spawns
<1>2. CASE Snapshots
    BY <1>2 DEF Snapshots, NoSnap, WorkerAt
<1>3. CASE Migrates
    BY <1>3 DEF Migrates, WorkerAt
<1>4. CASE ComesUp
    BY <1>4 DEF ComesUp, WorkerAt
<1>5. CASE WritesRows
    BY <1>5 DEF WritesRows
<1>6. CASE WorkerDies
    BY <1>6 DEF WorkerDies, Off
<1>7. CASE StartsByHand
    BY <1>7 DEF StartsByHand
<1>8. CASE StopsByHand
    BY <1>8 DEF StopsByHand, Off
<1>9. ASSUME NEW v \in Versions, UpdateBegins(v) PROVE CodeBehind'
    BY <1>9 DEF UpdateBegins, NoCommand, Updatable, IsNewer
<1>10. ASSUME NEW v \in Versions, SetupBegins(v) PROVE CodeBehind'
    BY <1>10 DEF SetupBegins, NoCommand
<1>11. ASSUME NEW v \in Versions, RollbackBegins(v) PROVE CodeBehind'
    BY <1>11 DEF RollbackBegins, IsPrevious, Installed, Updatable
<1>12. CASE Fetches
    BY <1>12 DEF Fetches
<1>13. CASE FetchFails
    BY <1>13 DEF FetchFails, NoCommand
<1>14. CASE StopsWorker
    BY <1>14 DEF StopsWorker, Off
<1>15. CASE Stages
    BY <1>15 DEF Stages, CommandAt
<1>16. CASE Provisions
    BY <1>16 DEF Provisions, CommandAt
<1>17. CASE InstallFails
    BY <1>17 DEF InstallFails, NoCommand
<1>18. CASE SwapsCurrent
    BY <1>18 DEF SwapsCurrent, CommandAt
<1>19. CASE LeavesStopped
    BY <1>19, PrunedKeeps DEF LeavesStopped, NoCommand, Reinstalled
<1>20. CASE UpdateStarts
    BY <1>20 DEF UpdateStarts, CommandAt
<1>21. CASE SetupPrunes
    BY <1>21, PrunedKeeps DEF SetupPrunes, CommandAt
<1>22. CASE SetupStarts
    BY <1>22 DEF SetupStarts, NoCommand, Modes
<1>23. CASE HearsWorker
    BY <1>23 DEF HearsWorker, CommandAt
<1>24. CASE Accepts
    BY <1>24, PrunedKeeps DEF Accepts, NoCommand
<1>25. CASE TimesOut
    BY <1>25 DEF TimesOut, CommandAt
<1>26. CASE Breaks
    BY <1>26 DEF Breaks, CommandAt
<1>27. CASE UndoStops
    BY <1>27 DEF UndoStops, Off, CommandAt
<1>28. CASE SwapsBack
    BY <1>28 DEF SwapsBack, CommandAt
<1>29. CASE Restores
    BY <1>29 DEF Restores, TakenSince, CommandAt
<1>30. CASE Restarts
    BY <1>30 DEF Restarts, NoCommand
<1>31. CASE Killed
    BY <1>31 DEF Killed, NoCommand
<1> QED
    BY <1>1, <1>2, <1>3, <1>4, <1>5, <1>6, <1>7, <1>8, <1>9, <1>10, <1>11, <1>12, <1>13, <1>14,
       <1>15, <1>16, <1>17, <1>18, <1>19, <1>20, <1>21, <1>22, <1>23, <1>24, <1>25, <1>26,
       <1>27, <1>28, <1>29, <1>30, <1>31
       DEF UpdateNext, WorkerNext, CommandNext

\* The worker stays down, and is the code that is current when it is up.
LEMMA WorkerBelowKept ==
    ASSUME UpdateTypes, CommandShape, CodeBehind, WorkerBelow, UpdateNext
    PROVE  WorkerBelow'
<1> USE UpdateConstants DEF UpdateTypes, CommandShape, WorkerBelow, CommandEndings, layout
<1>1. CASE Spawns
    BY <1>1 DEF Spawns
<1>2. CASE Snapshots
    BY <1>2 DEF Snapshots, NoSnap, WorkerAt
<1>3. CASE Migrates
    BY <1>3 DEF Migrates, WorkerAt
<1>4. CASE ComesUp
    BY <1>4 DEF ComesUp, WorkerAt
<1>5. CASE WritesRows
    BY <1>5 DEF WritesRows
<1>6. CASE WorkerDies
    BY <1>6 DEF WorkerDies, Off
<1>7. CASE StartsByHand
    BY <1>7 DEF StartsByHand
<1>8. CASE StopsByHand
    BY <1>8 DEF StopsByHand, Off
<1>9. ASSUME NEW v \in Versions, UpdateBegins(v) PROVE WorkerBelow'
    BY <1>9 DEF UpdateBegins, NoCommand, Updatable, IsNewer
<1>10. ASSUME NEW v \in Versions, SetupBegins(v) PROVE WorkerBelow'
    BY <1>10 DEF SetupBegins, NoCommand
<1>11. ASSUME NEW v \in Versions, RollbackBegins(v) PROVE WorkerBelow'
    BY <1>11 DEF RollbackBegins, IsPrevious, Installed, Updatable
<1>12. CASE Fetches
    BY <1>12 DEF Fetches
<1>13. CASE FetchFails
    BY <1>13 DEF FetchFails, NoCommand
<1>14. CASE StopsWorker
    BY <1>14 DEF StopsWorker, Off
<1>15. CASE Stages
    BY <1>15 DEF Stages, CommandAt
<1>16. CASE Provisions
    BY <1>16 DEF Provisions, CommandAt
<1>17. CASE InstallFails
    BY <1>17 DEF InstallFails, NoCommand
<1>18. CASE SwapsCurrent
    BY <1>18 DEF SwapsCurrent, CommandAt
<1>19. CASE LeavesStopped
    BY <1>19, PrunedKeeps DEF LeavesStopped, NoCommand, Reinstalled
<1>20. CASE UpdateStarts
    BY <1>20 DEF UpdateStarts, CommandAt
<1>21. CASE SetupPrunes
    BY <1>21, PrunedKeeps DEF SetupPrunes, CommandAt
<1>22. CASE SetupStarts
    BY <1>22 DEF SetupStarts, NoCommand, Modes
<1>23. CASE HearsWorker
    BY <1>23 DEF HearsWorker, CommandAt
<1>24. CASE Accepts
    BY <1>24, PrunedKeeps DEF Accepts, NoCommand
<1>25. CASE TimesOut
    BY <1>25 DEF TimesOut, CommandAt
<1>26. CASE Breaks
    BY <1>26 DEF Breaks, CommandAt
<1>27. CASE UndoStops
    BY <1>27 DEF UndoStops, Off, CommandAt
<1>28. CASE SwapsBack
    BY <1>28 DEF SwapsBack, CommandAt
<1>29. CASE Restores
    BY <1>29 DEF Restores, TakenSince, CommandAt
<1>30. CASE Restarts
    BY <1>30 DEF Restarts, NoCommand
<1>31. CASE Killed
    BY <1>31 DEF Killed, NoCommand
<1> QED
    BY <1>1, <1>2, <1>3, <1>4, <1>5, <1>6, <1>7, <1>8, <1>9, <1>10, <1>11, <1>12, <1>13, <1>14,
       <1>15, <1>16, <1>17, <1>18, <1>19, <1>20, <1>21, <1>22, <1>23, <1>24, <1>25, <1>26,
       <1>27, <1>28, <1>29, <1>30, <1>31
       DEF UpdateNext, WorkerNext, CommandNext

\* No step loses rows that were there before the update, from the database or its snapshots.
LEMMA RowsBehindKept ==
    ASSUME UpdateTypes, CommandShape, RowsBehind, UpdateNext
    PROVE  RowsBehind'
<1> USE UpdateConstants DEF UpdateTypes, CommandShape, RowsBehind, CommandEndings, layout
<1>1. CASE Spawns
    BY <1>1 DEF Spawns
<1>2. CASE Snapshots
    BY <1>2 DEF Snapshots, NoSnap, WorkerAt
<1>3. CASE Migrates
    BY <1>3 DEF Migrates, WorkerAt
<1>4. CASE ComesUp
    BY <1>4 DEF ComesUp, WorkerAt
<1>5. CASE WritesRows
    BY <1>5 DEF WritesRows
<1>6. CASE WorkerDies
    BY <1>6 DEF WorkerDies, Off
<1>7. CASE StartsByHand
    BY <1>7 DEF StartsByHand
<1>8. CASE StopsByHand
    BY <1>8 DEF StopsByHand, Off
<1>9. ASSUME NEW v \in Versions, UpdateBegins(v) PROVE RowsBehind'
    BY <1>9 DEF UpdateBegins, NoCommand, Updatable, IsNewer
<1>10. ASSUME NEW v \in Versions, SetupBegins(v) PROVE RowsBehind'
    BY <1>10 DEF SetupBegins, NoCommand
<1>11. ASSUME NEW v \in Versions, RollbackBegins(v) PROVE RowsBehind'
    BY <1>11 DEF RollbackBegins, IsPrevious, Installed, Updatable
<1>12. CASE Fetches
    BY <1>12 DEF Fetches
<1>13. CASE FetchFails
    BY <1>13 DEF FetchFails, NoCommand
<1>14. CASE StopsWorker
    BY <1>14 DEF StopsWorker, Off
<1>15. CASE Stages
    BY <1>15 DEF Stages, CommandAt
<1>16. CASE Provisions
    BY <1>16 DEF Provisions, CommandAt
<1>17. CASE InstallFails
    BY <1>17 DEF InstallFails, NoCommand
<1>18. CASE SwapsCurrent
    BY <1>18 DEF SwapsCurrent, CommandAt
<1>19. CASE LeavesStopped
    BY <1>19, PrunedKeeps DEF LeavesStopped, NoCommand, Reinstalled
<1>20. CASE UpdateStarts
    BY <1>20 DEF UpdateStarts, CommandAt
<1>21. CASE SetupPrunes
    BY <1>21, PrunedKeeps DEF SetupPrunes, CommandAt
<1>22. CASE SetupStarts
    BY <1>22 DEF SetupStarts, NoCommand, Modes
<1>23. CASE HearsWorker
    BY <1>23 DEF HearsWorker, CommandAt
<1>24. CASE Accepts
    BY <1>24, PrunedKeeps DEF Accepts, NoCommand
<1>25. CASE TimesOut
    BY <1>25 DEF TimesOut, CommandAt
<1>26. CASE Breaks
    BY <1>26 DEF Breaks, CommandAt
<1>27. CASE UndoStops
    BY <1>27 DEF UndoStops, Off, CommandAt
<1>28. CASE SwapsBack
    BY <1>28 DEF SwapsBack, CommandAt
<1>29. CASE Restores
    BY <1>29 DEF Restores, TakenSince, CommandAt
<1>30. CASE Restarts
    BY <1>30 DEF Restarts, NoCommand
<1>31. CASE Killed
    BY <1>31 DEF Killed, NoCommand
<1> QED
    BY <1>1, <1>2, <1>3, <1>4, <1>5, <1>6, <1>7, <1>8, <1>9, <1>10, <1>11, <1>12, <1>13, <1>14,
       <1>15, <1>16, <1>17, <1>18, <1>19, <1>20, <1>21, <1>22, <1>23, <1>24, <1>25, <1>26,
       <1>27, <1>28, <1>29, <1>30, <1>31
       DEF UpdateNext, WorkerNext, CommandNext

\* Each step leaves a database the old version reads, or a snapshot of one: as long as no
\* worker dies between two migrations and snapshots are kept at all.
LEMMA WayBackKept ==
    ASSUME UpdateTypes, CommandShape, CodeBehind, WorkerBelow, RowsBehind, WayBack, ~Tears,
           BackupsKeep > 0, UpdateNext
    PROVE  WayBack'
<1> USE UpdateConstants DEF UpdateTypes, CommandShape, CodeBehind, WorkerBelow, RowsBehind,
   WayBack, CommandEndings, layout
<1>1. CASE Spawns
    BY <1>1 DEF Spawns
<1>2. CASE Snapshots
    BY <1>2 DEF Snapshots, NoSnap, WorkerAt
<1>3. CASE Migrates
    BY <1>3 DEF Migrates, WorkerAt
<1>4. CASE ComesUp
    BY <1>4 DEF ComesUp, WorkerAt
<1>5. CASE WritesRows
    BY <1>5 DEF WritesRows
<1>6. CASE WorkerDies
    BY <1>6 DEF WorkerDies, Off
<1>7. CASE StartsByHand
    BY <1>7 DEF StartsByHand
<1>8. CASE StopsByHand
    BY <1>8 DEF StopsByHand, Off
<1>9. ASSUME NEW v \in Versions, UpdateBegins(v) PROVE WayBack'
    BY <1>9 DEF UpdateBegins, NoCommand, Updatable, IsNewer
<1>10. ASSUME NEW v \in Versions, SetupBegins(v) PROVE WayBack'
    BY <1>10 DEF SetupBegins, NoCommand
<1>11. ASSUME NEW v \in Versions, RollbackBegins(v) PROVE WayBack'
    BY <1>11 DEF RollbackBegins, IsPrevious, Installed, Updatable
<1>12. CASE Fetches
    BY <1>12 DEF Fetches
<1>13. CASE FetchFails
    BY <1>13 DEF FetchFails, NoCommand
<1>14. CASE StopsWorker
    BY <1>14 DEF StopsWorker, Off
<1>15. CASE Stages
    BY <1>15 DEF Stages, CommandAt
<1>16. CASE Provisions
    BY <1>16 DEF Provisions, CommandAt
<1>17. CASE InstallFails
    BY <1>17 DEF InstallFails, NoCommand
<1>18. CASE SwapsCurrent
    BY <1>18 DEF SwapsCurrent, CommandAt
<1>19. CASE LeavesStopped
    BY <1>19, PrunedKeeps DEF LeavesStopped, NoCommand, Reinstalled
<1>20. CASE UpdateStarts
    BY <1>20 DEF UpdateStarts, CommandAt
<1>21. CASE SetupPrunes
    BY <1>21, PrunedKeeps DEF SetupPrunes, CommandAt
<1>22. CASE SetupStarts
    BY <1>22 DEF SetupStarts, NoCommand, Modes
<1>23. CASE HearsWorker
    BY <1>23 DEF HearsWorker, CommandAt
<1>24. CASE Accepts
    BY <1>24, PrunedKeeps DEF Accepts, NoCommand
<1>25. CASE TimesOut
    BY <1>25 DEF TimesOut, CommandAt
<1>26. CASE Breaks
    BY <1>26 DEF Breaks, CommandAt
<1>27. CASE UndoStops
    BY <1>27 DEF UndoStops, Off, CommandAt
<1>28. CASE SwapsBack
    BY <1>28 DEF SwapsBack, CommandAt
<1>29. CASE Restores
    BY <1>29 DEF Restores, TakenSince, CommandAt
<1>30. CASE Restarts
    BY <1>30 DEF Restarts, NoCommand
<1>31. CASE Killed
    BY <1>31 DEF Killed, NoCommand
<1> QED
    BY <1>1, <1>2, <1>3, <1>4, <1>5, <1>6, <1>7, <1>8, <1>9, <1>10, <1>11, <1>12, <1>13, <1>14,
       <1>15, <1>16, <1>17, <1>18, <1>19, <1>20, <1>21, <1>22, <1>23, <1>24, <1>25, <1>26,
       <1>27, <1>28, <1>29, <1>30, <1>31
       DEF UpdateNext, WorkerNext, CommandNext

UpdateInv == UpdateTypes /\ CommandShape /\ CodeBehind /\ WorkerBelow /\ RowsBehind

\* At the start no command runs, nothing is pending and nothing was ever snapshotted.
LEMMA UpdateStart == ASSUME UpdateInit PROVE UpdateInv /\ WayBack
<1> USE UpdateConstants
<1>1. UpdateTypes
    BY DEF UpdateInit, UpdateTypes, NoCommand, Off, NoSnap
<1>2. CommandShape /\ CodeBehind /\ RowsBehind /\ WayBack
    BY <1>1 DEF UpdateInit, CommandShape, CommandEndings, CodeBehind, RowsBehind, WayBack,
       NoCommand, NoSnap
<1>3. WorkerBelow
    BY DEF UpdateInit, WorkerBelow, NoCommand, Off
<1> QED
    BY <1>1, <1>2, <1>3 DEF UpdateInv

\* A stutter keeps the invariant.
LEMMA UpdateStands ==
    ASSUME UpdateInv, UNCHANGED updateVars
    PROVE  UpdateInv' /\ (WayBack => WayBack')
<1>1. UpdateTypes' /\ CommandShape' /\ CodeBehind' /\ WorkerBelow' /\ RowsBehind'
    BY DEF UpdateInv, updateVars, layout, UpdateTypes, CommandShape, CommandEndings, CodeBehind,
       WorkerBelow,
           RowsBehind
<1>2. WayBack => WayBack'
    BY DEF updateVars, layout, WayBack
<1> QED
    BY <1>1, <1>2 DEF UpdateInv

\* The invariant is inductive.
LEMMA UpdateKept ==
    ASSUME UpdateInv, [UpdateNext]_updateVars
    PROVE  UpdateInv'
<1>1. CASE UpdateNext
    BY <1>1, UpdateTypesKept, CommandShapeKept, CodeBehindKept, WorkerBelowKept, RowsBehindKept
       DEF UpdateInv
<1>2. CASE UNCHANGED updateVars
    BY <1>2, UpdateStands
<1> QED
    BY <1>1, <1>2

\* It holds in every reachable state.
LEMMA UpdateHolds == UpdateSpec => []UpdateInv
<1>1. UpdateInit => UpdateInv
    BY UpdateStart
<1>2. UpdateInv /\ [UpdateNext]_updateVars => UpdateInv'
    BY UpdateKept
<1> QED
    BY <1>1, <1>2, PTL DEF UpdateSpec

\* A command, the worker, the database and the tree of versions stay what they are in every
\* reachable state.
THEOREM UpdateTyped == UpdateSpec => []UpdateTypes
<1>1. UpdateInv => UpdateTypes
    BY DEF UpdateInv
<1> QED
    BY <1>1, UpdateHolds, PTL

\* What current points at stays whole: staging touches another version, a swap goes to one that
\* is provisioned, the way back to the one before, and pruning spares it.
LEMMA CodeStays ==
    ASSUME UpdateInv, UpdateNext, cmd.op = "update", dirs[current] = "ready"
    PROVE  dirs'[current'] = "ready"
<1> USE UpdateConstants DEF UpdateInv, UpdateTypes, CommandShape, CodeBehind, layout
<1>1. CASE Spawns
    BY <1>1 DEF Spawns
<1>2. CASE Snapshots
    BY <1>2 DEF Snapshots, NoSnap, WorkerAt
<1>3. CASE Migrates
    BY <1>3 DEF Migrates, WorkerAt
<1>4. CASE ComesUp
    BY <1>4 DEF ComesUp, WorkerAt
<1>5. CASE WritesRows
    BY <1>5 DEF WritesRows
<1>6. CASE WorkerDies
    BY <1>6 DEF WorkerDies, Off
<1>7. CASE StartsByHand
    BY <1>7 DEF StartsByHand
<1>8. CASE StopsByHand
    BY <1>8 DEF StopsByHand, Off
<1>9. ASSUME NEW v \in Versions, UpdateBegins(v) PROVE dirs'[current'] = "ready"
    BY <1>9 DEF UpdateBegins, NoCommand, Updatable, IsNewer
<1>10. ASSUME NEW v \in Versions, SetupBegins(v) PROVE dirs'[current'] = "ready"
    BY <1>10 DEF SetupBegins, NoCommand
<1>11. ASSUME NEW v \in Versions, RollbackBegins(v) PROVE dirs'[current'] = "ready"
    BY <1>11 DEF RollbackBegins, IsPrevious, Installed, Updatable
<1>12. CASE Fetches
    BY <1>12 DEF Fetches
<1>13. CASE FetchFails
    BY <1>13 DEF FetchFails, NoCommand
<1>14. CASE StopsWorker
    BY <1>14 DEF StopsWorker, Off
<1>15. CASE Stages
    BY <1>15 DEF Stages, CommandAt
<1>16. CASE Provisions
    BY <1>16 DEF Provisions, CommandAt
<1>17. CASE InstallFails
    BY <1>17 DEF InstallFails, NoCommand
<1>18. CASE SwapsCurrent
    BY <1>18 DEF SwapsCurrent, CommandAt
<1>19. CASE LeavesStopped
    BY <1>19, PrunedKeeps DEF LeavesStopped, NoCommand, Reinstalled
<1>20. CASE UpdateStarts
    BY <1>20 DEF UpdateStarts, CommandAt
<1>21. CASE SetupPrunes
    BY <1>21, PrunedKeeps DEF SetupPrunes, CommandAt
<1>22. CASE SetupStarts
    BY <1>22 DEF SetupStarts, NoCommand, Modes
<1>23. CASE HearsWorker
    BY <1>23 DEF HearsWorker, CommandAt
<1>24. CASE Accepts
    BY <1>24, PrunedKeeps DEF Accepts, NoCommand
<1>25. CASE TimesOut
    BY <1>25 DEF TimesOut, CommandAt
<1>26. CASE Breaks
    BY <1>26 DEF Breaks, CommandAt
<1>27. CASE UndoStops
    BY <1>27 DEF UndoStops, Off, CommandAt
<1>28. CASE SwapsBack
    BY <1>28 DEF SwapsBack, CommandAt
<1>29. CASE Restores
    BY <1>29 DEF Restores, TakenSince, CommandAt
<1>30. CASE Restarts
    BY <1>30 DEF Restarts, NoCommand
<1>31. CASE Killed
    BY <1>31 DEF Killed, NoCommand
<1> QED
    BY <1>1, <1>2, <1>3, <1>4, <1>5, <1>6, <1>7, <1>8, <1>9, <1>10, <1>11, <1>12, <1>13, <1>14,
       <1>15, <1>16, <1>17, <1>18, <1>19, <1>20, <1>21, <1>22, <1>23, <1>24, <1>25, <1>26,
       <1>27, <1>28, <1>29, <1>30, <1>31
       DEF UpdateNext, WorkerNext, CommandNext

\* At every step of an update, wherever it fails or is killed, there is a version to run behind
\* current if there was one (installer/materialize.py).
THEOREM CodeToRun == UpdateSpec => AlwaysCodeToRun
<1>1. ASSUME UpdateInv, [UpdateNext]_updateVars
      PROVE  [cmd.op = "update" /\ dirs[current] = "ready" => dirs'[current'] =
         "ready"]_updateVars
    BY <1>1, CodeStays
<1> QED
    BY <1>1, UpdateHolds, PTL DEF UpdateSpec, AlwaysCodeToRun

\* An update that stopped the worker ends, unless killed, by registering the job again.
LEMMA StartedAgain ==
    ASSUME UpdateInv, UpdateNext, cmd.op = "update", cmd.was,
           cmd'.at \in {"done", "failed", "undone"}
    PROVE  registered'
<1> USE UpdateConstants DEF UpdateInv, UpdateTypes, CommandShape, CommandEndings, layout
<1>1. CASE Spawns
    BY <1>1 DEF Spawns
<1>2. CASE Snapshots
    BY <1>2 DEF Snapshots, NoSnap, WorkerAt
<1>3. CASE Migrates
    BY <1>3 DEF Migrates, WorkerAt
<1>4. CASE ComesUp
    BY <1>4 DEF ComesUp, WorkerAt
<1>5. CASE WritesRows
    BY <1>5 DEF WritesRows
<1>6. CASE WorkerDies
    BY <1>6 DEF WorkerDies, Off
<1>7. CASE StartsByHand
    BY <1>7 DEF StartsByHand
<1>8. CASE StopsByHand
    BY <1>8 DEF StopsByHand, Off
<1>9. ASSUME NEW v \in Versions, UpdateBegins(v) PROVE registered'
    BY <1>9 DEF UpdateBegins, NoCommand, Updatable, IsNewer
<1>10. ASSUME NEW v \in Versions, SetupBegins(v) PROVE registered'
    BY <1>10 DEF SetupBegins, NoCommand
<1>11. ASSUME NEW v \in Versions, RollbackBegins(v) PROVE registered'
    BY <1>11 DEF RollbackBegins, IsPrevious, Installed, Updatable
<1>12. CASE Fetches
    BY <1>12 DEF Fetches
<1>13. CASE FetchFails
    BY <1>13 DEF FetchFails, NoCommand
<1>14. CASE StopsWorker
    BY <1>14 DEF StopsWorker, Off
<1>15. CASE Stages
    BY <1>15 DEF Stages, CommandAt
<1>16. CASE Provisions
    BY <1>16 DEF Provisions, CommandAt
<1>17. CASE InstallFails
    BY <1>17 DEF InstallFails, NoCommand
<1>18. CASE SwapsCurrent
    BY <1>18 DEF SwapsCurrent, CommandAt
<1>19. CASE LeavesStopped
    BY <1>19 DEF LeavesStopped, NoCommand, Reinstalled
<1>20. CASE UpdateStarts
    BY <1>20 DEF UpdateStarts, CommandAt
<1>21. CASE SetupPrunes
    BY <1>21 DEF SetupPrunes, CommandAt
<1>22. CASE SetupStarts
    BY <1>22 DEF SetupStarts, NoCommand, Modes
<1>23. CASE HearsWorker
    BY <1>23 DEF HearsWorker, CommandAt
<1>24. CASE Accepts
    BY <1>24 DEF Accepts, NoCommand
<1>25. CASE TimesOut
    BY <1>25 DEF TimesOut, CommandAt
<1>26. CASE Breaks
    BY <1>26 DEF Breaks, CommandAt
<1>27. CASE UndoStops
    BY <1>27 DEF UndoStops, Off, CommandAt
<1>28. CASE SwapsBack
    BY <1>28 DEF SwapsBack, CommandAt
<1>29. CASE Restores
    BY <1>29 DEF Restores, TakenSince, CommandAt
<1>30. CASE Restarts
    BY <1>30 DEF Restarts, NoCommand
<1>31. CASE Killed
    BY <1>31 DEF Killed, NoCommand
<1> QED
    BY <1>1, <1>2, <1>3, <1>4, <1>5, <1>6, <1>7, <1>8, <1>9, <1>10, <1>11, <1>12, <1>13, <1>14,
       <1>15, <1>16, <1>17, <1>18, <1>19, <1>20, <1>21, <1>22, <1>23, <1>24, <1>25, <1>26,
       <1>27, <1>28, <1>29, <1>30, <1>31
       DEF UpdateNext, WorkerNext, CommandNext

\* An update never ends with a worker it stopped left down (installer/update.py).
THEOREM NotLeftDown == UpdateSpec => NeverLeftDown
<1>1. ASSUME UpdateInv, [UpdateNext]_updateVars
      PROVE  [cmd.op = "update" /\ cmd'.at \in {"done", "failed", "undone"} /\ cmd.was
                 => registered']_updateVars
    BY <1>1, StartedAgain
<1> QED
    BY <1>1, UpdateHolds, PTL DEF UpdateSpec, NeverLeftDown

\* Nothing ends as undone but the last step of the way back.
LEMMA UndoneByRestart ==
    ASSUME UpdateInv, WayBack, UpdateNext, cmd.op = "update", cmd'.at = "undone"
    PROVE  Restarts
<1> USE UpdateConstants DEF UpdateInv, UpdateTypes, CommandShape, CommandEndings, layout
<1>1. CASE Spawns
    BY <1>1 DEF Spawns
<1>2. CASE Snapshots
    BY <1>2 DEF Snapshots, NoSnap, WorkerAt
<1>3. CASE Migrates
    BY <1>3 DEF Migrates, WorkerAt
<1>4. CASE ComesUp
    BY <1>4 DEF ComesUp, WorkerAt
<1>5. CASE WritesRows
    BY <1>5 DEF WritesRows
<1>6. CASE WorkerDies
    BY <1>6 DEF WorkerDies, Off
<1>7. CASE StartsByHand
    BY <1>7 DEF StartsByHand
<1>8. CASE StopsByHand
    BY <1>8 DEF StopsByHand, Off
<1>9. ASSUME NEW v \in Versions, UpdateBegins(v) PROVE Restarts
    BY <1>9 DEF UpdateBegins, NoCommand, Updatable, IsNewer
<1>10. ASSUME NEW v \in Versions, SetupBegins(v) PROVE Restarts
    BY <1>10 DEF SetupBegins, NoCommand
<1>11. ASSUME NEW v \in Versions, RollbackBegins(v) PROVE Restarts
    BY <1>11 DEF RollbackBegins, IsPrevious, Installed, Updatable
<1>12. CASE Fetches
    BY <1>12 DEF Fetches
<1>13. CASE FetchFails
    BY <1>13 DEF FetchFails, NoCommand
<1>14. CASE StopsWorker
    BY <1>14 DEF StopsWorker, Off
<1>15. CASE Stages
    BY <1>15 DEF Stages, CommandAt
<1>16. CASE Provisions
    BY <1>16 DEF Provisions, CommandAt
<1>17. CASE InstallFails
    BY <1>17 DEF InstallFails, NoCommand
<1>18. CASE SwapsCurrent
    BY <1>18 DEF SwapsCurrent, CommandAt
<1>19. CASE LeavesStopped
    BY <1>19 DEF LeavesStopped, NoCommand, Reinstalled
<1>20. CASE UpdateStarts
    BY <1>20 DEF UpdateStarts, CommandAt
<1>21. CASE SetupPrunes
    BY <1>21 DEF SetupPrunes, CommandAt
<1>22. CASE SetupStarts
    BY <1>22 DEF SetupStarts, NoCommand, Modes
<1>23. CASE HearsWorker
    BY <1>23 DEF HearsWorker, CommandAt
<1>24. CASE Accepts
    BY <1>24 DEF Accepts, NoCommand
<1>25. CASE TimesOut
    BY <1>25 DEF TimesOut, CommandAt
<1>26. CASE Breaks
    BY <1>26 DEF Breaks, CommandAt
<1>27. CASE UndoStops
    BY <1>27 DEF UndoStops, Off, CommandAt
<1>28. CASE SwapsBack
    BY <1>28 DEF SwapsBack, CommandAt
<1>29. CASE Restores
    BY <1>29 DEF Restores, TakenSince, CommandAt
<1>30. CASE Restarts
    BY <1>30 DEF Restarts, NoCommand
<1>31. CASE Killed
    BY <1>31 DEF Killed, NoCommand
<1> QED
    BY <1>1, <1>2, <1>3, <1>4, <1>5, <1>6, <1>7, <1>8, <1>9, <1>10, <1>11, <1>12, <1>13, <1>14,
       <1>15, <1>16, <1>17, <1>18, <1>19, <1>20, <1>21, <1>22, <1>23, <1>24, <1>25, <1>26,
       <1>27, <1>28, <1>29, <1>30, <1>31
       DEF UpdateNext, WorkerNext, CommandNext

\* That step finds the old version in place and whole, and a database it can read with all its
\* rows.
LEMMA RestartIsWhole ==
    ASSUME UpdateInv, WayBack, Restarts, cmd.op = "update"
    PROVE  /\ registered' /\ current' = cmd.from /\ dirs'[current'] = "ready"
           /\ db'.rows >= cmd.old.rows
           /\ cmd.old.schema <= Ships[cmd.from] => db'.schema <= Ships[cmd.from]
  BY UpdateConstants DEF UpdateInv, Restarts, layout, CodeBehind, CommandShape, RowsBehind,
     WayBack

\* The way back is open in every reachable state.
LEMMA WayBackHolds ==
    ASSUME ~Tears, BackupsKeep > 0
    PROVE  UpdateSpec => [](UpdateInv /\ WayBack)
<1>1. UpdateInit => UpdateInv /\ WayBack
    BY UpdateStart
<1>2. UpdateInv /\ WayBack /\ [UpdateNext]_updateVars => UpdateInv' /\ WayBack'
    <2>1. ASSUME UpdateInv, WayBack, UpdateNext PROVE WayBack'
        BY <2>1, WayBackKept DEF UpdateInv
    <2> QED
        BY <2>1, UpdateKept, UpdateStands
<1> QED
    BY <1>1, <1>2, PTL DEF UpdateSpec

\* An update that undoes itself puts the old version back, running, with a database it can read
\* and with all that was written before (installer/update.py:_roll_back_to), whatever updates,
\* rollbacks, installs and deaths came before.  A worker that dies between two migrations of one
\* start, and is started again, snapshots what it left half migrated; and where no snapshot is
\* kept there is nothing to put back: both are excluded.
THEOREM UndoneInFull ==
    ASSUME ~Tears, BackupsKeep > 0
    PROVE  UpdateSpec => UpdateIsUndone
<1>1. ASSUME UpdateInv, WayBack, [UpdateNext]_updateVars
      PROVE  [cmd.op = "update" /\ cmd'.at = "undone" =>
                /\ registered' /\ current' = cmd.from /\ dirs'[current'] = "ready"
                /\ db'.rows >= cmd.old.rows
                /\ cmd.old.schema <= Ships[cmd.from] => db'.schema <= Ships[cmd.from]]_updateVars
    BY <1>1, UndoneByRestart, RestartIsWhole
<1> QED
    BY <1>1, WayBackHolds, PTL DEF UpdateSpec, UpdateIsUndone
=============================================================================
