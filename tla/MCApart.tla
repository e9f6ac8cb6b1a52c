------------------------------- MODULE MCApart -------------------------------
(***************************************************************************)
(* Parts of the daemon that share no row and no tab, each checked in a     *)
(* world of its own: the bracket around a send, the lanes of one listing,  *)
(* the ledger of settings, one drive of a marketplace's form, the commands *)
(* that replace the daemon's code.                                         *)
(***************************************************************************)
EXTENDS MCSendBracket, Listings, SettingsLedger, PostDrive, Update, TLC

CONSTANTS price, text, market

VARIABLE world

MCFields == {price, text}
FieldSymmetry == Permutations(MCFields)

\* The last release brings two migrations, the others none of their own.
MCShips == [v \in Versions |-> IF v = 3 THEN 3 ELSE 1]

rest == <<vars, shopVars, ledgerVars, driveVars, updateVars>>

\* What is left of the edits' rows once the settled ones that owe nothing are forgotten: no guard
\* and no property reads them, and a new row only goes behind them.
StillOwes(r) == r.status \in {"pending", "running"} \/ (r.status # "superseded" /\ ~r.reported)
RevsOwing == SelectSeq(revs, StillOwes)

\* A version's age counts while it is installed, and how a command ended never does.
MadeInstalled == [v \in Versions |-> IF v \in Installed THEN made[v] ELSE 0]
CommandRunning == IF cmd.op = "none" THEN NoCommand("done") ELSE cmd

ApartView ==
    <<world, vars, thing, crossVars, RevsOwing, call, edit, failed, surveyVars, ledgerVars,
      driveVars, mode, dirs, MadeInstalled, current, registered, worker, db, snap,
      CommandRunning, clock>>

\* Bound: where passes post, a run is spent on listings of ours or on what goes wrong meanwhile.
RecipeBudget == kind = "recipe" => Cardinality({p \in Posts : ~posts[p].hand}) + troubles <= 2

\* The parts a world does not run stand still, at one of their initial states.
ApartInit ==
    /\ world \in {"bracket", "shop", "ledger", "drive", "update"}
    /\ Init /\ ShopInit /\ LedgerInit /\ PostInit /\ UpdateInit /\ current = 1
    /\ world # "shop" => kind = "driven" /\ item.known /\ posts = <<>>
    /\ world # "drive" => drives = "form"
    /\ world # "update" => mode = "login"

ApartNext ==
    /\ UNCHANGED world
    /\ \/ world = "bracket" /\ Next
          /\ UNCHANGED <<shopVars, ledgerVars, driveVars, updateVars>>
       \/ world = "shop" /\ ShopNext /\ RecipeBudget'
          /\ UNCHANGED <<vars, ledgerVars, driveVars, updateVars>>
       \/ world = "ledger" /\ LedgerNext
          /\ UNCHANGED <<vars, shopVars, driveVars, updateVars>>
       \/ world = "drive" /\ PostNext
          /\ UNCHANGED <<vars, shopVars, ledgerVars, updateVars>>
       \/ world = "update" /\ UpdateNext
          /\ UNCHANGED <<vars, shopVars, ledgerVars, driveVars>>

ApartSpec == ApartInit /\ [][ApartNext]_<<world, rest>>
=============================================================================
