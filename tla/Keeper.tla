------------------------------- MODULE Keeper -------------------------------
(***************************************************************************)
(* The daemon's one way to the browser.  Every lane asks a factory, which  *)
(* makes Chrome answer, keeps one client of one page server in a holder,   *)
(* and replaces a server that has lost Chrome; the lane then drives Chrome *)
(* through that client under the client's own lock.  The lanes are tasks   *)
(* of the scheduler.  Chrome, the servers and the passes are the world     *)
(* around it: Chrome is closed and comes back on another port, a server    *)
(* loses it, hangs or exits, an agent's pass needs the tab.                *)
(***************************************************************************)
EXTENDS TaskLoop

CONSTANTS
    Lanes,          \* the tasks that drive the browser
    Ports,          \* the ports Chrome may choose
    Clients,        \* enough identities for the clients alive at once
    NoClient,       \* not one of them: nothing held
    Free,           \* not a task: a lock nobody holds
    RecycleAfter,   \* RECYCLE_AFTER_FAILURES, tool failures in a row
    RecycleMax,     \* BROWSER_RECYCLE_MAX, replacements within the window
    MaxTroubles     \* bound: what happens to Chrome, the servers and the tab

ASSUME KeeperAssumption ==
    /\ Lanes \subseteq Tasks \ Replaceable
    /\ IsFiniteSet(Clients) /\ Cardinality(Clients) > Cardinality(Lanes)
    /\ NoClient \notin Clients /\ Free \notin Tasks
    /\ {RecycleAfter, RecycleMax} \subseteq Nat \ {0}
    /\ MaxTroubles \in Nat

VARIABLES
    chrome,         \* whether Chrome answers, and on which port
    holder,         \* the daemon's holder: a client, and the replacements charged
    client,         \* every client: its server, its streak of failures, its lock
    lane,           \* where each lane is, and what it has read so far
    passing,        \* a pass or a sign-in has the browser (browser_busy)
    troubles        \* what has gone wrong so far (a bound only)

browser == <<chrome, holder, client, lane, passing, troubles>>
vars == <<loop, browser>>

Alive == {"up", "lost", "hung"}     \* what a poll of the process takes for running

NewClient(port) ==
    [port |-> port, retired |-> FALSE, lock |-> Free, server |-> "none", streak |-> 0,
     detached |-> FALSE, tab |-> FALSE, aged |-> FALSE]

AnyPort == CHOOSE p \in Ports : TRUE

Away == [at |-> "idle", port |-> AnyPort, client |-> NoClient]

Init ==
    /\ LoopInit
    /\ chrome \in [up : BOOLEAN, port : Ports]
    /\ holder = [client |-> NoClient, recycles |-> 0, cooling |-> FALSE]
    /\ client = [c \in Clients |-> NewClient(AnyPort)]
    /\ lane = [l \in Lanes |-> Away]
    /\ passing = FALSE /\ troubles \in 0..MaxTroubles

\* A client nobody refers to any more is forgotten, with the process it may leave
\* behind, and its identity is given out again.
Referred == {holder.client} \cup {lane[l].client : l \in Lanes}
NextId   == CHOOSE c \in Clients \ Referred : TRUE
Remembered(clients) ==
    [c \in Clients |-> IF c \in Referred' THEN clients[c] ELSE NewClient(AnyPort)]

-----------------------------------------------------------------------------
(* Where a lane is.                                                        *)

At(l, step)   == lane[l].at = step
Goes(l, step) == lane' = [lane EXCEPT ![l].at = step]
Takes(l, step, c) == lane' = [lane EXCEPT ![l] = [@ EXCEPT !.at = step, !.client = c]]
\* The client the factory answers with, tabs apart; the port is not asked again.
Settles(l, c) == lane' = [lane EXCEPT ![l] = [Away EXCEPT !.at = "prune", !.client = c]]

\* The lane's run is over.  An exception of the browser's is counted by some lanes and
\* let through to the scheduler by others.
Ends(l) ==
    /\ lane' = [lane EXCEPT ![l] = Away]
    /\ \E r \in RunsOf(l), ok \in BOOLEAN : Over(r, ok)

Starts(l) ==
    /\ At(l, "idle") /\ Goes(l, "ensure")
    /\ \E r \in RunsOf(l) : Begin(r)
    /\ UNCHANGED <<chrome, holder, client, passing, troubles>>

-----------------------------------------------------------------------------
(* The factory.                                                            *)

\* Chrome is started when it does not answer, and takes a port of its own choice; a
\* start that fails, or that a failed one shortly before forbids, ends the run.
EnsureChrome(l) ==
    /\ At(l, "ensure")
    /\ \/ \E p \in Ports :
              /\ chrome.up => p = chrome.port
              /\ chrome' = [up |-> TRUE, port |-> p]
              /\ lane' = [lane EXCEPT ![l] = [@ EXCEPT !.at = "look", !.port = p]]
              /\ UNCHANGED loop
       \/ ~chrome.up /\ Ends(l) /\ UNCHANGED chrome
    /\ UNCHANGED <<holder, client, passing, troubles>>

Held == holder.client
Answering(port) == chrome.up /\ chrome.port = port
LostChrome(c, port) == client[c].streak >= RecycleAfter /\ Answering(port)
\* Mutant: a server is replaced for its age alone.
RecycleReason_AgeOnly(c, port) == client[c].aged

RecycleReason(c, port) == LostChrome(c, port) \/ client[c].aged

Charged == [client |-> NoClient, recycles |-> holder.recycles + 1, cooling |-> TRUE]

Spent == holder.recycles >= RecycleMax

\* The replacement, once there is a reason and no pass drives: too soon after the last
\* one the same client is handed back, and with the allowance spent nobody gets one.
Recycle(l) ==
    /\ client' = [client EXCEPT ![Held].detached = @ \/ LostChrome(Held, lane[l].port)]
    /\ CASE holder.cooling ->
                Settles(l, Held) /\ UNCHANGED <<holder, loop>>
         [] ~holder.cooling /\ Spent ->
                Ends(l) /\ UNCHANGED holder
         [] OTHER ->
                /\ holder' = Charged
                /\ Takes(l, "dispose", Held)
                /\ UNCHANGED loop

Look(l) ==
    /\ At(l, "look")
    /\ IF Held = NoClient
       THEN Goes(l, "build") /\ UNCHANGED <<client, holder, loop>>
       ELSE IF client[Held].port # lane[l].port
       THEN Takes(l, "evict", Held) /\ UNCHANGED <<client, holder, loop>>
       ELSE IF RecycleReason(Held, lane[l].port) /\ ~passing
       THEN Recycle(l)
       ELSE Settles(l, Held) /\ UNCHANGED <<client, holder, loop>>
    /\ UNCHANGED <<chrome, passing, troubles>>

\* close(): behind the lock, and the server's whole group is killed.  Nothing else of a
\* closed client is ever read again.
Closed(c) == [client EXCEPT ![c] = [NewClient(AnyPort) EXCEPT !.retired = TRUE]]
\* Mutant: a close that does not wait for the lock.
MayClose_AtOnce(c) == TRUE

MayClose(c) == client[c].lock = Free

\* A client that dials a port Chrome has left, closed and dropped from the holder.
Evict(l) ==
    LET c == lane[l].client IN
    /\ At(l, "evict") /\ MayClose(c)
    /\ holder' = [holder EXCEPT !.client = NoClient]
    /\ Takes(l, "build", NoClient)
    /\ client' = Remembered(Closed(c))
    /\ UNCHANGED <<chrome, passing, troubles, loop>>

\* The client a recycle took out of the holder, closed; then whatever is held by now.
Dispose(l) ==
    LET c == lane[l].client IN
    /\ At(l, "dispose") /\ MayClose(c)
    /\ IF Held = NoClient THEN Takes(l, "build", NoClient) ELSE Settles(l, Held)
    /\ UNCHANGED <<chrome, holder, passing, troubles, loop>>
    /\ client' = Remembered(Closed(c))

Build(l) ==
    /\ At(l, "build")
    /\ holder' = [holder EXCEPT !.client = NextId]
    /\ Settles(l, NextId)
    /\ client' = Remembered([client EXCEPT ![NextId] = NewClient(lane[l].port)])
    /\ UNCHANGED <<chrome, passing, troubles, loop>>

-----------------------------------------------------------------------------
(* What a client does when it is called; the results are pairs of what it  *)
(* has become and whether the call came back well.                         *)

Answered(cl, ok) == [cl |-> cl, ok |-> ok]
Alike(cl)        == Answered(cl, FALSE)

\* A new process: its own counters, and no tab.  One that fails its handshake is killed
\* again.
Respawned(cl) ==
    {[NewClient(cl.port) EXCEPT !.lock = cl.lock, !.retired = cl.retired, !.server = s] :
        s \in {"none", IF Answering(cl.port) THEN "up" ELSE "lost"}}

\* Mutant: a closed client that is called again starts a server.
Start_Again(cl) == IF cl.server \in Alive THEN {cl} ELSE Respawned(cl)

\* _start: nothing for a client that was closed, or whose process is running.
Start(cl) == IF cl.retired \/ cl.server \in Alive THEN {cl} ELSE Respawned(cl)

Failing(cl) == [cl EXCEPT !.streak = IF @ < RecycleAfter THEN @ + 1 ELSE @]

\* One exchange.  Only a failure of the tool counts towards the streak.
Exchange(cl) ==
    CASE cl.server \notin Alive \/ cl.server = "hung" -> {Alike(cl)}
      [] cl.server = "lost" -> {Alike(Failing(cl))}
      [] OTHER -> {Alike(Failing(cl)), Answered([cl EXCEPT !.streak = 0], TRUE)}

CallOnce(cl) ==
    IF cl.detached THEN {Alike(cl)} ELSE UNION {Exchange(s) : s \in Start(cl)}

\* ensure_tab: the process is started first, whatever is known of its connection.
EnsureTab(cl) ==
    UNION {IF s.server \notin Alive THEN {Alike(s)}
           ELSE IF s.tab THEN {Answered(s, TRUE)}
           ELSE {[a EXCEPT !.cl.tab = a.ok] : a \in CallOnce(s)} : s \in Start(cl)}

\* close_stray_tabs, which asks its server only when it has a tab of its own to keep.
PruneTabs(cl) == IF cl.tab THEN UNION {CallOnce(s) : s \in Start(cl)}
                 ELSE {Answered(cl, TRUE)}

\* A page that fails a call of a server that is well is one of the troubles.
Spends(a) ==
    /\ troubles' = troubles + (IF a.cl.server = "up" /\ ~a.cl.detached /\ ~a.ok THEN 1 ELSE 0)
    /\ troubles' <= MaxTroubles

-----------------------------------------------------------------------------
(* The rest of the factory, and the lane's bracket.                        *)

Prune(l) ==
    LET c == lane[l].client IN
    /\ At(l, "prune") /\ Goes(l, "enter")
    /\ IF passing THEN UNCHANGED <<client, troubles>>
       ELSE /\ client[c].lock = Free
            /\ \E a \in PruneTabs(client[c]) :
                   Spends(a) /\ client' = [client EXCEPT ![c] = a.cl]
    /\ UNCHANGED <<chrome, holder, passing, loop>>

\* exclusive(): the lane holds the client's lock until it leaves.
Enter(l) ==
    LET c == lane[l].client IN
    /\ At(l, "enter") /\ client[c].lock = Free
    /\ client' = [client EXCEPT ![c].lock = l]
    /\ Goes(l, "tab")
    /\ UNCHANGED <<chrome, holder, passing, troubles, loop>>

Inside(l) == lane[l].at \in {"tab", "drive"}

LeavesWith(l, cl) ==
    /\ Ends(l) /\ UNCHANGED holder
    /\ client' = Remembered([client EXCEPT ![lane[l].client] = [cl EXCEPT !.lock = Free]])

TakesTab(l) ==
    LET c == lane[l].client IN
    /\ At(l, "tab")
    /\ \E a \in EnsureTab(client[c]) :
           /\ Spends(a)
           /\ IF a.ok THEN Goes(l, "drive") /\ client' = [client EXCEPT ![c] = a.cl]
                                           /\ UNCHANGED <<holder, loop>>
                      ELSE LeavesWith(l, a.cl)
    /\ UNCHANGED <<chrome, passing>>

\* The calls it came for stand as one more.
Drives(l) ==
    /\ At(l, "drive")
    /\ \E a \in CallOnce(client[lane[l].client]) : Spends(a) /\ LeavesWith(l, a.cl)
    /\ UNCHANGED <<chrome, passing>>

LaneStep(l) ==
    \/ Starts(l) \/ EnsureChrome(l) \/ Look(l) \/ Evict(l) \/ Dispose(l) \/ Build(l)
    \/ Prune(l) \/ Enter(l) \/ TakesTab(l) \/ Drives(l)

-----------------------------------------------------------------------------
(* The world around, and time.                                             *)

Trouble == troubles < MaxTroubles /\ troubles' = troubles + 1

\* Every server that drove it is left with a dead connection, and goes on answering.
ChromeCloses ==
    /\ Trouble /\ chrome.up
    /\ chrome' = [chrome EXCEPT !.up = FALSE]
    /\ client' = [c \in Clients |->
                    [client[c] EXCEPT !.server = IF @ = "up" THEN "lost" ELSE @]]
    /\ UNCHANGED <<holder, lane, passing, loop>>

ServerFails(c) ==
    /\ Trouble /\ client[c].server = "up"
    /\ \E s \in {"lost", "hung", "dead"} : client' = [client EXCEPT ![c].server = s]
    /\ UNCHANGED <<chrome, holder, lane, passing, loop>>

Ages(c) ==
    /\ Trouble /\ client[c].server \in Alive /\ ~client[c].aged
    /\ client' = [client EXCEPT ![c].aged = TRUE]
    /\ UNCHANGED <<chrome, holder, lane, passing, loop>>

PassStarts ==
    /\ Trouble /\ ~passing /\ passing' = TRUE
    /\ UNCHANGED <<chrome, holder, client, lane, loop>>

PassEnds ==
    /\ passing /\ passing' = FALSE
    /\ UNCHANGED <<chrome, holder, client, lane, troubles, loop>>

CooldownPasses ==
    /\ holder.cooling /\ holder' = [holder EXCEPT !.cooling = FALSE]
    /\ UNCHANGED <<chrome, client, lane, passing, troubles, loop>>

\* The oldest replacement leaves the window; the last one has cooled long before.
WindowPasses ==
    /\ holder.recycles > 0 /\ ~holder.cooling
    /\ holder' = [holder EXCEPT !.recycles = @ - 1]
    /\ UNCHANGED <<chrome, client, lane, passing, troubles, loop>>

Others == Work(Tasks \ Lanes) /\ UNCHANGED browser
Turns  == LoopTurn /\ UNCHANGED browser

World ==
    \/ ChromeCloses \/ PassStarts \/ PassEnds \/ CooldownPasses \/ WindowPasses
    \/ \E c \in Clients : ServerFails(c) \/ Ages(c)

Next == Turns \/ Others \/ World \/ \E l \in Lanes : LaneStep(l)

\* The loop turns, time passes, passes end and workers are found.  A lane waits for a
\* lock that is held for a bounded time and let go for a whole interval after it, which
\* the model knows only as a lock that is free again and again.
Fairness ==
    /\ WF_vars(Tick /\ UNCHANGED browser)
    /\ \A t \in Tasks : WF_vars(TimePasses(t) /\ UNCHANGED browser)
    /\ \A l \in Lanes : SF_vars(LaneStep(l))
    /\ WF_vars(Others) /\ WF_vars(PassEnds)
    /\ WF_vars(CooldownPasses) /\ WF_vars(WindowPasses)

Spec == Init /\ [][Next]_vars
FairSpec == Spec /\ Fairness

-----------------------------------------------------------------------------
(* Properties.                                                             *)

TypeOK ==
    /\ chrome \in [up : BOOLEAN, port : Ports]
    /\ holder \in [client : Clients \cup {NoClient}, recycles : 0..RecycleMax,
                   cooling : BOOLEAN]
    /\ client \in [Clients -> [port : Ports, retired : BOOLEAN, lock : Lanes \cup {Free},
                               server : Alive \cup {"none", "dead"},
                               streak : 0..RecycleAfter, detached : BOOLEAN,
                               tab : BOOLEAN, aged : BOOLEAN]]
    /\ lane \in [Lanes -> [at : {"idle", "ensure", "look", "evict", "dispose", "build",
                                 "prune", "enter", "tab", "drive"},
                           port : Ports, client : Clients \cup {NoClient}]]
    /\ passing \in BOOLEAN /\ troubles \in 0..MaxTroubles

\* A client that was closed never has a process again, although a lane that got it
\* before may still call it (client.py, _retired): nobody would ever end that process.
NoCorpseRises ==
    \A c \in Clients : client[c].retired => client[c].server = "none"

\* While a lane is inside its bracket, no step but its own lets go of the lock, closes the
\* client, moves it to another port, or touches the tab and the streak of failures the
\* lane's calls have made, whatever replacements, prunings and evictions other lanes are in
\* the middle of (client.py exclusive and close, daemon.py "always between operations").
Has(l, c) == Inside(l) /\ lane[l].client = c

BracketIsWhole ==
    [][\A l \in Lanes, c \in Clients :
          Has(l, c) /\ lane'[l] = lane[l] =>
              /\ client'[c].lock = l
              /\ \A f \in {"retired", "port", "tab", "streak"} :
                     client'[c][f] = client[c][f]]_vars

\* A held server that has lost a Chrome that answers is replaced, without waiting for
\* the age ceiling: the wedge of 28 hours is what recycling is for (daemon.py).
WedgeEnds ==
    \A c \in Clients :
        holder.client = c /\ client[c].server = "lost"
            ~> holder.client # c \/ client[c].server # "lost" \/ ~chrome.up

\* "One browser client for the whole daemon: one Chrome, one tab, one mutex": two lanes
\* are never driving at the same time (daemon.py, run_daemon).
OneDriver == \A l, m \in Lanes : Inside(l) /\ Inside(m) => l = m
=============================================================================
