--------------------------- MODULE SettingsLedger ---------------------------
(***************************************************************************)
(* One setting that needs the seller's word, connected_markets, and the    *)
(* ledger its changes go through (settings.py, store/settings.py).  The    *)
(* agent can only propose; what it proposes is held until a tap, a typed   *)
(* word or the shell approves it.  A door the seller uses themselves sets  *)
(* the value at once.  Buttons stay in the chat for ever, so any change    *)
(* may be approved, cancelled or undone again at any time.                 *)
(*                                                                         *)
(* A door reads the value in force, and writes its change in a transaction *)
(* later; the doors run in threads of their own.                           *)
(***************************************************************************)
EXTENDS Naturals, Sequences

CONSTANTS
    Markets,        \* the marketplaces there are
    Connectable,    \* those that serve where the seller sells
    MaxChanges      \* bound: rows of the ledger

ASSUME LedgerAssumption == Connectable \subseteq Markets /\ MaxChanges \in Nat

VARIABLES
    settings,       \* connected_markets: the value in force
    changes,        \* pending_setting_changes, oldest first
    door,           \* each door: the call it is in
    signIn          \* marketplaces whose sign-in page is asked for

ledgerVars == <<settings, changes, door, signIn>>

Doors == {"agent", "shell", "chat"}
NoCall == [step |-> "idle", value |-> {}, prior |-> {}, adds |-> {}]

Status == {"pending", "applied", "cancelled", "superseded", "expired"}

\* A row of the ledger.  "old" is past PROPOSAL_TTL_SEC.  "undo" says that an undo wrote it:
\* the code keeps no such mark.
Change(v, p, s) == [value |-> v, prior |-> p, status |-> s, old |-> FALSE, undo |-> FALSE]
Changes == DOMAIN changes

LedgerInit ==
    /\ settings = {} /\ changes = <<>> /\ signIn = {}
    /\ door = [d \in Doors |-> NoCall]

-----------------------------------------------------------------------------
(* The transactions                                                        *)

SupersedeNone == changes
Supersede ==
    [c \in Changes |-> IF changes[c].status = "pending"
                       THEN [changes[c] EXCEPT !.status = "superseded"] ELSE changes[c]]

Decide(c, s) == changes' = [changes EXCEPT ![c].status = s]

ProposeSettingChange(d) ==
    /\ changes' = Append(Supersede, Change(door[d].value, door[d].prior, "pending"))
    /\ UNCHANGED settings

ApplySettingNow(d) ==
    /\ changes' = Append(Supersede, Change(door[d].value, door[d].prior, "applied"))
    /\ settings' = door[d].value

\* A tap on Approve, or the word typed: the row is looked at again under the lock.
Approve(c) ==
    /\ changes[c].status = "pending"
    /\ IF changes[c].old
       THEN Decide(c, "expired") /\ UNCHANGED settings
       ELSE Decide(c, "applied") /\ settings' = changes[c].value
    /\ UNCHANGED <<door, signIn>>

Cancel(c) ==
    /\ changes[c].status = "pending"
    /\ Decide(c, IF changes[c].old THEN "expired" ELSE "cancelled")
    /\ UNCHANGED <<settings, door, signIn>>

\* An undo looks at the value in force, not at which change put it there; what it writes is
\* a change of its own, and leaves a pending one be.
Undo(c) ==
    /\ Len(changes) < MaxChanges
    /\ changes[c].status = "applied" /\ settings = changes[c].value
    /\ changes' = Append(changes, [Change(changes[c].prior, settings, "applied") EXCEPT !.undo = TRUE])
    /\ settings' = changes[c].prior
    /\ UNCHANGED <<door, signIn>>

-----------------------------------------------------------------------------
(* The doors                                                               *)

\* propose_setting_change and set_now read the value in force: nothing to do if it is what is
\* wanted already.
ReadsInForce(d, v, adds) ==
    door' = [door EXCEPT ![d] = IF v = settings THEN NoCall
                                ELSE [step |-> "write", value |-> v, prior |-> settings, adds |-> adds]]

\* The agent proposes any list the seller could have; the shell sets one.
ChangeAsked(d, v) ==
    /\ d \in {"agent", "shell"} /\ door[d].step = "idle" /\ Len(changes) < MaxChanges
    /\ v \subseteq Connectable
    /\ ReadsInForce(d, v, {}) /\ UNCHANGED <<settings, changes, signIn>>

Lists(v, adds) == [step |-> "list", value |-> v, prior |-> {}, adds |-> adds]

\* A tap on Connect or Disconnect makes the new list from the one it reads.
MarketButton(m) ==
    /\ door["chat"].step = "idle" /\ Len(changes) < MaxChanges
    /\ \/ /\ m \in Connectable \ settings
          /\ door' = [door EXCEPT !["chat"] = Lists(settings \cup {m}, {m})]
       \/ /\ m \in settings
          /\ door' = [door EXCEPT !["chat"] = Lists(settings \ {m}, {})]
    /\ UNCHANGED <<settings, changes, signIn>>

\* set_now, under the button: it reads again; the list may hold by now, the sign-in is asked
\* for all the same.  A list with a market that no longer serves the seller is refused.
ButtonSets ==
    LET k == door["chat"] IN
    /\ k.step = "list"
    /\ IF k.value \subseteq Connectable THEN ReadsInForce("chat", k.value, k.adds)
       ELSE door' = [door EXCEPT !["chat"] = NoCall]
    /\ signIn' = IF k.value = settings THEN signIn \cup k.adds ELSE signIn
    /\ UNCHANGED <<settings, changes>>

Writes(d) ==
    /\ door[d].step = "write" /\ Len(changes) < MaxChanges
    /\ IF d = "agent" THEN ProposeSettingChange(d) ELSE ApplySettingNow(d)
    /\ signIn' = signIn \cup door[d].adds
    /\ door' = [door EXCEPT ![d] = NoCall]

\* The daemon dies in the call, or the database refuses the write.
CallFails(d) ==
    /\ door[d].step # "idle" /\ door' = [door EXCEPT ![d] = NoCall]
    /\ UNCHANGED <<settings, changes, signIn>>

-----------------------------------------------------------------------------
(* Time, and the lane that opens the sign-in page                          *)

Ages(c) ==
    /\ changes[c].status = "pending" /\ ~changes[c].old
    /\ changes' = [e \in Changes |-> IF e <= c THEN [changes[e] EXCEPT !.old = TRUE] ELSE changes[e]]
    /\ UNCHANGED <<settings, door, signIn>>

\* expire_stale_proposals, the sweep.
SweepProposals ==
    /\ \E c \in Changes : changes[c].status = "pending" /\ changes[c].old
    /\ changes' = [c \in Changes |-> IF changes[c].status = "pending" /\ changes[c].old
                                     THEN [changes[c] EXCEPT !.status = "expired"] ELSE changes[c]]
    /\ UNCHANGED <<settings, door, signIn>>

OpensSignIn(m) ==
    /\ m \in signIn /\ signIn' = signIn \ {m}
    /\ UNCHANGED <<settings, changes, door>>

LedgerNext ==
    \/ \E d \in Doors : Writes(d) \/ CallFails(d) \/ \E v \in SUBSET Markets : ChangeAsked(d, v)
    \/ \E m \in Markets : MarketButton(m) \/ OpensSignIn(m)
    \/ ButtonSets \/ SweepProposals
    \/ \E c \in Changes : Approve(c) \/ Cancel(c) \/ Undo(c) \/ Ages(c)

LedgerSpec == LedgerInit /\ [][LedgerNext]_ledgerVars

-----------------------------------------------------------------------------
(* Properties                                                              *)

LedgerTypes ==
    /\ settings \subseteq Markets /\ signIn \subseteq Markets
    /\ changes \in Seq([value : SUBSET Markets, prior : SUBSET Markets, status : Status,
                        old : BOOLEAN, undo : BOOLEAN])
    /\ door \in [Doors -> [step : {"idle", "list", "write"}, value : SUBSET Markets,
                           prior : SUBSET Markets, adds : SUBSET Markets]]

\* A yes in the chat applies what the seller was last asked: once a newer proposal is held, or
\* the seller has set the value through a door of their own, the older question is dead however
\* its calls interleave with the others (supersede in both write paths, re-checked under the
\* lock).
NewestWins ==
    [][\A c \in Changes : changes[c].status = "pending" /\ changes'[c].status = "applied"
          => \A e \in Changes : e > c => changes[e].undo]_ledgerVars
=============================================================================
