------------------------------- MODULE Update -------------------------------
(***************************************************************************)
(* The commands that replace the daemon's code (installer/update.py,       *)
(* installer/materialize.py, the layout step of setup_cli.py), the         *)
(* supervisor's job around them (supervisor.py), and the worker that       *)
(* migrates the database as it starts (migrations/__init__.py).  A command *)
(* is a process of its own: each of its steps is an action, and it may be  *)
(* killed after any of them.  One command runs at a time, and its user     *)
(* starts and stops the worker by hand only between commands.              *)
(***************************************************************************)
EXTENDS Naturals, FiniteSets

CONSTANTS
    Versions,       \* the releases, by number
    Ships,          \* the last migration each release brings
    VersionsKept,   \* how many installed versions an update leaves
    BackupsKeep,    \* how many snapshots of the database are kept
    Tears,          \* whether a worker may die between two migrations of one start
    MaxTicks,       \* bound: trees staged and snapshots taken
    MaxRows         \* bound: what the worker writes to the database

ASSUME UpdateAssumption ==
    /\ Versions \subseteq Nat /\ IsFiniteSet(Versions)
    /\ Ships \in [Versions -> Nat] /\ BackupsKeep \in Nat
    /\ VersionsKept \in Nat \ {0} /\ Tears \in BOOLEAN
    /\ MaxTicks \in Nat /\ MaxRows \in Nat

VARIABLES
    mode,           \* where the job's file lies: in "login" mode installing it registers it
    dirs,           \* versions/<v>: "none", "bare" without its dependencies, "ready"
    made,           \* when versions/<v> was put there
    current,        \* the version the symlink points at
    registered,     \* the supervisor holds the job
    worker,         \* the job's process: the code it runs, and how far its start is
    db,             \* sellee.db: its last migration, and how much has been written
    snap,           \* the newest snapshot of it; at = 0 when there is none
    cmd,            \* the command that runs, or how the last one ended
    clock

layout     == <<dirs, made, current>>
updateVars == <<mode, layout, registered, worker, db, snap, cmd, clock>>

Modes  == {"login", "manual"}
Off    == [code |-> 0, at |-> "off"]
NoSnap == [schema |-> 0, rows |-> 0, at |-> 0]

\* No command: how the last one ended is all that is left of it.
NoCommand(how) ==
    [op |-> "none", at |-> how, to |-> 0, from |-> 0, since |-> 0, was |-> FALSE,
     old |-> [schema |-> 0, rows |-> 0]]

\* One version was set up and its worker not started yet.
UpdateInit ==
    /\ mode \in Modes
    /\ current \in Versions
    /\ dirs = [v \in Versions |-> IF v = current THEN "ready" ELSE "none"]
    /\ made = [v \in Versions |-> IF v = current THEN 1 ELSE 0]
    /\ registered = FALSE /\ worker = Off
    /\ db = [schema |-> 0, rows |-> 0] /\ snap = NoSnap
    /\ cmd = NoCommand("done") /\ clock = 1

-----------------------------------------------------------------------------
(* The worker.                                                             *)

WorkerAt(at) == worker' = [worker EXCEPT !.at = at]

\* The supervisor runs the job from whatever current points at, and again when it dies.
\* Code without its dependencies dies at its imports, every time.
Spawns ==
    /\ registered /\ worker.at = "off" /\ dirs[current] = "ready"
    /\ worker' = [code |-> current, at |-> "starting"]
    /\ UNCHANGED <<mode, layout, registered, db, snap, cmd, clock>>

\* Migrations are pending: the database is snapshotted first, and old snapshots pruned.
Snapshots ==
    /\ worker.at = "starting" /\ db.schema < Ships[worker.code]
    /\ clock < MaxTicks /\ clock' = clock + 1
    /\ snap' = IF BackupsKeep = 0 THEN NoSnap
               ELSE [schema |-> db.schema, rows |-> db.rows, at |-> clock + 1]
    /\ WorkerAt("snapped")
    /\ UNCHANGED <<mode, layout, registered, db, cmd>>

\* Each migration is a transaction of its own.
Migrates ==
    /\ worker.at \in {"snapped", "between"}
    /\ db' = [db EXCEPT !.schema = @ + 1]
    /\ WorkerAt(IF db.schema + 1 < Ships[worker.code] THEN "between" ELSE "up")
    /\ UNCHANGED <<mode, layout, registered, snap, cmd, clock>>

\* Nothing is pending; that the database may be newer than the code is not looked at.
ComesUp ==
    /\ worker.at = "starting" /\ db.schema >= Ships[worker.code]
    /\ WorkerAt("up")
    /\ UNCHANGED <<mode, layout, registered, db, snap, cmd, clock>>

WritesRows ==
    /\ worker.at = "up" /\ db.rows < MaxRows
    /\ db' = [db EXCEPT !.rows = @ + 1]
    /\ UNCHANGED <<mode, layout, registered, worker, snap, cmd, clock>>

\* It is killed, or a migration fails and takes it down; the job stays with the supervisor.
WorkerDies ==
    /\ worker.at # "off"
    /\ worker.at = "between" => Tears
    /\ worker' = Off
    /\ UNCHANGED <<mode, layout, registered, db, snap, cmd, clock>>

\* daemon start, daemon stop.
StartsByHand ==
    /\ cmd.op = "none" /\ ~registered /\ registered' = TRUE
    /\ UNCHANGED <<mode, layout, worker, db, snap, cmd, clock>>

StopsByHand ==
    /\ cmd.op = "none" /\ registered /\ registered' = FALSE /\ worker' = Off
    /\ UNCHANGED <<mode, layout, db, snap, cmd, clock>>

WorkerNext ==
    \/ Spawns \/ Snapshots \/ Migrates \/ ComesUp \/ WritesRows \/ WorkerDies
    \/ StartsByHand \/ StopsByHand

-----------------------------------------------------------------------------
(* The steps of a command.                                                 *)

CommandAt(at) == cmd' = [cmd EXCEPT !.at = at]

Installed == {v \in Versions : dirs[v] # "none"}

\* All but the newest are deleted, never the live one.
Pruned ==
    LET others   == Installed \ {current}
        newer(v) == {w \in others : made[w] > made[v]}
    IN  [v \in Versions |->
            IF v \in others /\ Cardinality(newer(v)) >= VersionsKept - 1 THEN "none" ELSE dirs[v]]

\* The most recently installed of those that are not live, whatever became of it.
IsPrevious(v) ==
    /\ v \in Installed \ {current}
    /\ \A w \in Installed \ {current} : made[w] <= made[v]

IsNewer(v) == v > current

\* The command is code of the live version, and cannot run without its dependencies.
Updatable == dirs[current] = "ready"

UpdateBegins(v) ==
    /\ cmd.op = "none" /\ Updatable /\ IsNewer(v)
    /\ cmd' = [NoCommand("fetch") EXCEPT !.op = "update", !.to = v]
    /\ UNCHANGED <<mode, layout, registered, worker, db, snap, clock>>

\* The release is downloaded, held to its digest and unpacked.  What the update would undo is
\* what comes after this moment.
Fetches ==
    /\ cmd.at = "fetch"
    /\ cmd' = [cmd EXCEPT !.at = "stop", !.from = current, !.since = clock, !.old = db]
    /\ UNCHANGED <<mode, layout, registered, worker, db, snap, clock>>

FetchFails ==
    /\ cmd.at = "fetch"
    /\ cmd' = NoCommand("failed")
    /\ UNCHANGED <<mode, layout, registered, worker, db, snap, clock>>

\* ./setup, from a checkout or an unpacked release of any version.
SetupBegins(v) ==
    /\ cmd.op = "none"
    /\ cmd' = [NoCommand("stop") EXCEPT !.op = "setup", !.to = v]
    /\ UNCHANGED <<mode, layout, registered, worker, db, snap, clock>>

\* sellee update --rollback: to the version installed last, of those that are not live.
RollbackBegins(v) ==
    /\ cmd.op = "none" /\ Updatable /\ IsPrevious(v)
    /\ cmd' = [op |-> "rollback", at |-> "undo", to |-> current, from |-> v,
               since |-> made[current], was |-> FALSE, old |-> db]
    /\ UNCHANGED <<mode, layout, registered, worker, db, snap, clock>>

StopsWorker ==
    /\ cmd.at = "stop"
    /\ cmd' = [cmd EXCEPT !.at = "stage", !.was = registered]
    /\ registered' = FALSE /\ worker' = Off
    /\ UNCHANGED <<mode, layout, db, snap, clock>>

\* The tree is copied beside its place and renamed into it.
Stages ==
    /\ cmd.at = "stage" /\ CommandAt("provision")
    /\ clock < MaxTicks /\ clock' = clock + 1
    /\ dirs' = [dirs EXCEPT ![cmd.to] = "bare"]
    /\ made' = [made EXCEPT ![cmd.to] = clock + 1]
    /\ UNCHANGED <<mode, current, registered, worker, db, snap>>

Provisions ==
    /\ cmd.at = "provision" /\ CommandAt("swap")
    /\ dirs' = [dirs EXCEPT ![cmd.to] = "ready"]
    /\ UNCHANGED <<mode, made, current, registered, worker, db, snap, clock>>

\* No disk, no network, a current that is not ours: a version without its dependencies is
\* removed, and an update puts the worker it stopped back up.
InstallFails ==
    /\ cmd.at \in {"stage", "provision", "swap"}
    /\ dirs' = IF cmd.at = "provision" THEN [dirs EXCEPT ![cmd.to] = "none"] ELSE dirs
    /\ registered' = (cmd.op = "update" /\ cmd.was)
    /\ cmd' = NoCommand("failed")
    /\ UNCHANGED <<mode, made, current, worker, db, snap, clock>>

SwapsCurrent ==
    /\ cmd.at = "swap"
    /\ current' = cmd.to
    /\ CommandAt(IF cmd.op = "update" /\ ~cmd.was THEN "leave" ELSE "start")
    /\ UNCHANGED <<mode, dirs, made, registered, worker, db, snap, clock>>

\* Writing the job's file again registers the job in one of the modes.
Reinstalled == registered \/ mode = "login"

\* The worker was not running, and is not started by hand.
LeavesStopped ==
    /\ cmd.at = "leave"
    /\ registered' = Reinstalled
    /\ dirs' = Pruned
    /\ cmd' = NoCommand("done")
    /\ UNCHANGED <<mode, made, current, worker, db, snap, clock>>

UpdateStarts ==
    /\ cmd.op = "update" /\ cmd.at = "start" /\ CommandAt("wait")
    /\ registered' = TRUE
    /\ UNCHANGED <<mode, layout, worker, db, snap, clock>>

SetupPrunes ==
    /\ cmd.op = "setup" /\ cmd.at = "start" /\ CommandAt("ask")
    /\ dirs' = Pruned
    /\ UNCHANGED <<mode, made, current, registered, worker, db, snap, clock>>

\* Setup asks for the mode, and starts the worker in either.
SetupStarts ==
    /\ cmd.at = "ask"
    /\ mode' \in Modes
    /\ registered' = TRUE
    /\ cmd' = NoCommand("done")
    /\ UNCHANGED <<layout, worker, db, snap, clock>>

\* A heartbeat newer than the start.
HearsWorker ==
    /\ cmd.at = "wait" /\ worker.at = "up" /\ CommandAt("check")
    /\ UNCHANGED <<mode, layout, registered, worker, db, snap, clock>>

\* Nothing fails its check that did not fail it before.
Accepts ==
    /\ cmd.at = "check"
    /\ dirs' = Pruned
    /\ cmd' = NoCommand("done")
    /\ UNCHANGED <<mode, made, current, registered, worker, db, snap, clock>>

TimesOut ==
    /\ cmd.at = "wait" /\ CommandAt("undo")
    /\ UNCHANGED <<mode, layout, registered, worker, db, snap, clock>>

\* A check fails that did not fail before the update.
Breaks ==
    /\ cmd.at = "check" /\ CommandAt("undo")
    /\ UNCHANGED <<mode, layout, registered, worker, db, snap, clock>>

UndoStops ==
    /\ cmd.at = "undo" /\ CommandAt("back")
    /\ registered' = FALSE /\ worker' = Off
    /\ UNCHANGED <<mode, layout, db, snap, clock>>

SwapsBack ==
    /\ cmd.at = "back" /\ CommandAt("restore")
    /\ current' = cmd.from
    /\ UNCHANGED <<mode, dirs, made, registered, worker, db, snap, clock>>

\* Mutant: the newest snapshot is put back, whoever took it.
AnySnapshot == snap.at > 0

\* The newest snapshot was taken after the version being left arrived.
TakenSince == snap.at > cmd.since

Restores ==
    /\ cmd.at = "restore" /\ CommandAt("restart")
    /\ db' = IF TakenSince THEN [schema |-> snap.schema, rows |-> snap.rows] ELSE db
    /\ UNCHANGED <<mode, layout, registered, worker, snap, clock>>

Restarts ==
    /\ cmd.at = "restart"
    /\ registered' = TRUE
    /\ cmd' = NoCommand(IF cmd.op = "update" THEN "undone" ELSE "done")
    /\ UNCHANGED <<mode, layout, worker, db, snap, clock>>

\* The command dies.  Between the two renames that stage a version again, neither is in place.
Killed ==
    /\ cmd.op # "none"
    /\ dirs' \in {dirs} \cup
          (IF cmd.at = "stage" THEN {[dirs EXCEPT ![cmd.to] = "none"]} ELSE {})
    /\ cmd' = NoCommand("killed")
    /\ UNCHANGED <<mode, made, current, registered, worker, db, snap, clock>>

CommandNext ==
    \/ \E v \in Versions : UpdateBegins(v) \/ SetupBegins(v) \/ RollbackBegins(v)
    \/ Fetches \/ FetchFails \/ StopsWorker \/ Stages \/ Provisions \/ InstallFails
    \/ SwapsCurrent \/ LeavesStopped \/ UpdateStarts \/ SetupPrunes \/ SetupStarts
    \/ HearsWorker \/ Accepts \/ TimesOut \/ Breaks \/ UndoStops \/ SwapsBack \/ Restores \/ Restarts
    \/ Killed

UpdateNext == WorkerNext \/ CommandNext

UpdateSpec == UpdateInit /\ [][UpdateNext]_updateVars

-----------------------------------------------------------------------------
(* Properties.                                                             *)

\* A command's steps and the worker's, the version each is about, and what stands meanwhile.
UpdateTypes ==
    /\ mode \in Modes /\ registered \in BOOLEAN /\ clock \in Nat
    /\ dirs \in [Versions -> {"none", "bare", "ready"}]
    /\ made \in [Versions -> Nat] /\ current \in Versions
    /\ worker \in [code : Versions \cup {0},
                   at : {"off", "starting", "snapped", "between", "up"}]
    /\ worker.at # "off" => worker.code \in Versions
    /\ db \in [schema : Nat, rows : Nat]
    /\ snap \in [schema : Nat, rows : Nat, at : Nat]
    /\ cmd \in [op : {"none", "update", "setup", "rollback"},
                at : {"done", "failed", "undone", "killed", "fetch", "stop", "stage", "provision",
                      "swap", "leave", "start", "ask", "wait", "check", "undo", "back",
                      "restore", "restart"},
                to : Versions \cup {0}, from : Versions \cup {0}, since : Nat, was : BOOLEAN,
                old : [schema : Nat, rows : Nat]]

\* "A version without dependencies must never become the live one: a failure here leaves the
\* previous version running": while an update runs, at every step it may fail or die at, there
\* is a version to run behind current if there was one.
AlwaysCodeToRun ==
    [][cmd.op = "update" /\ dirs[current] = "ready" => dirs'[current'] = "ready"]_updateVars

\* "Put the previous version back, and with it the database that version can read", and nothing
\* written before the update is thrown away: when an update undoes itself, whatever updates,
\* rollbacks and installs came before, the old version is live and running, it can read the
\* database if it could before, and all that was written before the update began is in it.
UpdateIsUndone ==
    [][cmd.op = "update" /\ cmd'.at = "undone" =>
          /\ registered' /\ current' = cmd.from /\ dirs'[current'] = "ready"
          /\ db'.rows >= cmd.old.rows
          /\ cmd.old.schema <= Ships[cmd.from] => db'.schema <= Ships[cmd.from]]_updateVars

\* "Its state before the update decides whether it should be running after": an update that
\* stopped the worker never ends, but by being killed, with the worker left down.
NeverLeftDown ==
    [][cmd.op = "update" /\ cmd'.at \in {"done", "failed", "undone"} /\ cmd.was
          => registered']_updateVars
=============================================================================
