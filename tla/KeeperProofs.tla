---------------------------- MODULE KeeperProofs ----------------------------
(***************************************************************************)
(* The scheduler marks a task exactly while it runs, also where the runs   *)
(* are a lane's way through the browser; a page server that was closed     *)
(* never comes back, and a lane inside its bracket has its client to       *)
(* itself, whatever the other lanes are replacing.                         *)
(***************************************************************************)
EXTENDS Keeper, FiniteSetTheorems, TLAPS

Numbers == Nat

(***************************************************************************)
(* The loop.  What a run leaves behind is written under its task's name,   *)
(* so the argument needs each run to bear a registered name, the tasks no  *)
(* switch replaces to stay registered, and the failures told apart to stop *)
(* at MaxFailures: a count no float holds is never forgotten.              *)
(***************************************************************************)

TaskRow == [on : BOOLEAN, running : BOOLEAN, failures : Numbers, due : BOOLEAN]

IsRun(r) == r = [task |-> r.task, begun |-> r.begun, n |-> r.n] /\ r.task \in Tasks

LoopTypes == task \in [Tasks -> TaskRow] /\ \A r \in runs : IsRun(r)
Counted   == \A t \in Tasks : task[t].failures <= MaxFailures
StaysOn   == \A t \in Tasks \ Replaceable : task[t].on

\* MarkIsRun for one task.
Marked(t) ==
    /\ \A q, r \in RunsOf(t) : q = r
    /\ RunsOf(t) # {} => task[t].running
    /\ task[t].running => RunsOf(t) # {} \/ ~Countable(task[t].failures)

LoopInv == LoopTypes /\ Counted /\ StaysOn /\ \A t \in Tasks \ Replaceable : Marked(t)

\* The row of a task just registered, under whichever flag.
LEMMA FreshRow ==
    ASSUME NEW b \in BOOLEAN, NEW new, new = [FreshTask EXCEPT !.on = b]
    PROVE  new \in TaskRow /\ new.failures = 0 /\ ~new.running /\ new.on = b
<1>1. 0 \in Numbers
    BY DEF Numbers
<1> QED
    BY <1>1 DEF FreshTask, TaskRow

\* At the start no task is marked and nothing runs.
LEMMA LoopStart == ASSUME LoopInit PROVE LoopInv
<1>1. PICK off \in SUBSET Replaceable :
        task = [t \in Tasks |-> [FreshTask EXCEPT !.on = t \notin off]]
    BY DEF LoopInit
<1>2. ASSUME NEW t \in Tasks
      PROVE  /\ task[t] \in TaskRow /\ task[t].failures = 0 /\ ~task[t].running
             /\ t \notin Replaceable => task[t].on
    <2> DEFINE b == t \notin off
    <2>1. task[t] = [FreshTask EXCEPT !.on = b]
        BY <1>1
    <2>2. b \in BOOLEAN /\ (t \notin Replaceable => b)
        OBVIOUS
    <2> HIDE DEF b
    <2> QED
        BY <2>1, <2>2, FreshRow
<1>3. runs = {}
    BY DEF LoopInit
<1>4. 0 <= MaxFailures
    BY TaskLoopAssumption
<1>6. task \in [Tasks -> TaskRow]
    BY <1>1, <1>2
<1>7. \A t \in Tasks \ Replaceable : task[t].on
    BY <1>2
<1> QED
    BY <1>2, <1>3, <1>4, <1>6, <1>7
    DEF LoopInv, LoopTypes, Counted, StaysOn, Marked, RunsOf

\* What a claim leaves in the row of its task.
LEMMA ClaimRow ==
    ASSUME NEW st \in TaskRow, NEW new, new = [st EXCEPT !.running = TRUE, !.due = FALSE]
    PROVE  /\ new \in TaskRow /\ new.running
           /\ new.on = st.on /\ new.failures = st.failures
BY DEF TaskRow

\* The tick marks what it submits, and submits one run of each: whatever else the set of
\* runs holds of a due task would have kept the task marked.
LEMMA TickKeeps == ASSUME LoopInv, Tick PROVE LoopInv'
<1>1. \A t \in Tasks : task[t] \in TaskRow
    BY DEF LoopInv, LoopTypes
<1>2. ASSUME NEW t \in Tasks
      PROVE  /\ Claimed(t) \in TaskRow /\ Claimed(t).running
             /\ Claimed(t).on = task[t].on /\ Claimed(t).failures = task[t].failures
    BY <1>1, ClaimRow DEF Claimed
<1>3. \A t \in Tasks : task'[t] = IF t \in Due THEN Claimed(t) ELSE task[t]
    BY DEF Tick
<1>6. task' \in [Tasks -> TaskRow]
    BY <1>1, <1>2, <1>3 DEF Tick
<1>7. \A t \in Tasks : task'[t].on = task[t].on /\ task'[t].failures = task[t].failures
    BY <1>2, <1>3
<1>8. Due \subseteq Tasks
    BY DEF Due
<1>9. \A t \in Due : IsRun(Submitted(t)) /\ Submitted(t).task = t
    BY <1>8 DEF IsRun, Submitted
<1>10. \A r \in runs' : IsRun(r)
    BY <1>9 DEF Tick, LoopInv, LoopTypes
<1>11. ASSUME NEW t \in Tasks \ Replaceable PROVE Marked(t)'
    <2>1. CASE t \in Due
        <3>1. RunsOf(t) = {}
            BY <2>1 DEF Due, LoopInv, Marked
        <3>2. RunsOf(t)' = {Submitted(t)}
            BY <2>1, <3>1, <1>9 DEF Tick, RunsOf
        <3> QED
            BY <3>2, <2>1, <1>2, <1>3 DEF Marked
    <2>2. CASE t \notin Due
        <3>1. RunsOf(t)' = RunsOf(t)
            BY <2>2, <1>9 DEF Tick, RunsOf
        <3>2. task'[t] = task[t]
            BY <2>2, <1>3
        <3> QED
            BY <3>1, <3>2 DEF Marked, LoopInv
    <2> QED
        BY <2>1, <2>2
<1> QED
    BY <1>6, <1>7, <1>10, <1>11 DEF LoopInv, LoopTypes, Counted, StaysOn

\* A row that has become due.
LEMMA DueRow ==
    ASSUME NEW st \in TaskRow, NEW new, new = [st EXCEPT !.due = TRUE]
    PROVE  /\ new \in TaskRow /\ new.on = st.on /\ new.running = st.running
           /\ new.failures = st.failures
BY DEF TaskRow

\* Time touches no mark.
LEMMA TimeKeeps == ASSUME NEW k \in Tasks, LoopInv, TimePasses(k) PROVE LoopInv'
<1> DEFINE new == [task[k] EXCEPT !.due = TRUE]
<1>1. task[k] \in TaskRow
    BY DEF LoopInv, LoopTypes
<1>2. /\ new \in TaskRow /\ new.on = task[k].on /\ new.running = task[k].running
      /\ new.failures = task[k].failures
    BY <1>1, DueRow
<1>3. task' = [task EXCEPT ![k] = new] /\ runs' = runs
    BY DEF TimePasses
<1> HIDE DEF new
<1>4. task' \in [Tasks -> TaskRow]
    BY <1>2, <1>3 DEF LoopInv, LoopTypes
<1>5. \A t \in Tasks : /\ task'[t].on = task[t].on /\ task'[t].running = task[t].running
                       /\ task'[t].failures = task[t].failures
    BY <1>2, <1>3 DEF LoopInv, LoopTypes
<1>6. ASSUME NEW t \in Tasks \ Replaceable PROVE Marked(t)'
    <2>1. RunsOf(t)' = RunsOf(t)
        BY <1>3 DEF RunsOf
    <2> QED
        BY <2>1, <1>5 DEF Marked, LoopInv, Countable
<1> QED
    BY <1>3, <1>4, <1>5, <1>6 DEF LoopInv, LoopTypes, Counted, StaysOn

\* A run that has begun is a run of the same task.
LEMMA BegunRow ==
    ASSUME NEW r, IsRun(r), NEW s, s = [r EXCEPT !.begun = TRUE]
    PROVE  IsRun(s) /\ s.task = r.task
<1>1. s = [task |-> r.task, begun |-> TRUE, n |-> r.n]
    BY DEF IsRun
<1> QED
    BY <1>1 DEF IsRun

\* A run that begins is the same run.
LEMMA BeginKeeps == ASSUME NEW r, LoopInv, Begin(r) PROVE LoopInv'
<1> DEFINE s == [r EXCEPT !.begun = TRUE]
<1>1. r \in runs /\ IsRun(r)
    BY DEF Begin, LoopInv, LoopTypes
<1>3. IsRun(s) /\ s.task = r.task
    BY <1>1, BegunRow
<1>4. runs' = (runs \ {r}) \cup {s} /\ task' = task
    BY DEF Begin
<1>5. \A q \in runs' : IsRun(q)
    BY <1>3, <1>4 DEF LoopInv, LoopTypes
<1>6. ASSUME NEW t \in Tasks \ Replaceable PROVE Marked(t)'
    <2>1. CASE r.task = t
        <3>1. RunsOf(t) = {r}
            BY <2>1, <1>1 DEF RunsOf, LoopInv, Marked
        <3>2. RunsOf(t)' = {s}
            BY <2>1, <3>1, <1>3, <1>4 DEF RunsOf
        <3> QED
            BY <3>1, <3>2, <1>4 DEF Marked, LoopInv
    <2>2. CASE r.task # t
        <3>1. RunsOf(t)' = RunsOf(t)
            BY <2>2, <1>3, <1>4 DEF RunsOf
        <3> QED
            BY <3>1, <1>4 DEF Marked, LoopInv
    <2> QED
        BY <2>1, <2>2
<1> QED
    BY <1>4, <1>5, <1>6 DEF LoopInv, LoopTypes, Counted, StaysOn

\* What a run leaves in the row of its task.
LEMMA OverRow ==
    ASSUME NEW st \in TaskRow, st.failures <= MaxFailures, NEW ok \in BOOLEAN,
           NEW new, new = IF ok THEN Succeeded(st) ELSE Failed(st)
    PROVE  /\ new \in TaskRow /\ new.on = st.on /\ new.failures <= MaxFailures
           /\ ~new.running \/ ~Countable(new.failures)
<1>1. /\ st.failures \in Nat /\ st.failures \in Numbers /\ 0 \in Numbers /\ 0 <= MaxFailures
      /\ MaxFailures \in Nat /\ FloatExponent \in Nat /\ MaxFailures # FloatExponent
    BY TaskLoopAssumption DEF TaskRow, Numbers
<1>2. CASE ok
    <2>1. new = [st EXCEPT !.failures = 0, !.running = FALSE]
        BY <1>2 DEF Succeeded
    <2>2. new \in TaskRow /\ new.on = st.on /\ new.failures = 0 /\ ~new.running
        BY <2>1, <1>1 DEF TaskRow
    <2> QED
        BY <2>2, <1>1
<1>3. CASE ~ok
    <2> DEFINE counted == IF st.failures + 1 > MaxFailures THEN MaxFailures
                          ELSE st.failures + 1
    <2>1. counted \in Numbers /\ counted <= MaxFailures
        BY <1>1 DEF Numbers
    <2>2. new = IF Countable(st.failures + 1)
                THEN [st EXCEPT !.failures = counted, !.due = FALSE, !.running = FALSE]
                ELSE [st EXCEPT !.failures = counted]
        BY <1>3 DEF Failed
    <2>3. Countable(st.failures + 1) \/ ~Countable(counted)
        BY <1>1 DEF Countable
    <2> HIDE DEF counted
    <2>4. CASE Countable(st.failures + 1)
        <3>1. new = [st EXCEPT !.failures = counted, !.due = FALSE, !.running = FALSE]
            BY <2>2, <2>4
        <3>2. new \in TaskRow /\ new.on = st.on /\ new.failures = counted /\ ~new.running
            BY <3>1, <2>1 DEF TaskRow
        <3> QED
            BY <3>2, <2>1
    <2>5. CASE ~Countable(st.failures + 1)
        <3>1. new = [st EXCEPT !.failures = counted]
            BY <2>2, <2>5
        <3>2. new \in TaskRow /\ new.on = st.on /\ new.failures = counted
            BY <3>1, <2>1 DEF TaskRow
        <3> QED
            BY <3>2, <2>1, <2>3, <2>5
    <2> QED
        BY <2>4, <2>5
<1> QED
    BY <1>2, <1>3

\* The end of a run takes the mark with it, unless the float overflowed.
LEMMA OverKeeps == ASSUME NEW r, NEW ok \in BOOLEAN, LoopInv, Over(r, ok) PROVE LoopInv'
<1> DEFINE k   == r.task
           new == IF ok THEN Succeeded(task[k]) ELSE Failed(task[k])
<1>1. r \in runs /\ k \in Tasks /\ runs' = runs \ {r}
    BY DEF Over, Begun, LoopInv, LoopTypes, IsRun
<1>2. task[k] \in TaskRow /\ task[k].failures <= MaxFailures
    BY <1>1 DEF LoopInv, LoopTypes, Counted
<1>3. /\ new \in TaskRow /\ new.on = task[k].on /\ new.failures <= MaxFailures
      /\ ~new.running \/ ~Countable(new.failures)
    BY <1>2, OverRow
<1>4. task' = IF ~task[k].on THEN task ELSE [task EXCEPT ![k] = new]
    BY DEF Over
<1> HIDE DEF new
<1>5. \A t \in Tasks : t # k => task'[t] = task[t]
    BY <1>4 DEF LoopInv, LoopTypes
<1>6. task[k].on => task'[k] = new
    BY <1>1, <1>4 DEF LoopInv, LoopTypes
<1>7. ~task[k].on => task' = task
    BY <1>4
<1>8. task' \in [Tasks -> TaskRow]
    BY <1>1, <1>3, <1>4 DEF LoopInv, LoopTypes
<1>9. \A t \in Tasks : task'[t].on = task[t].on /\ task'[t].failures <= MaxFailures
    BY <1>3, <1>5, <1>6, <1>7 DEF LoopInv, Counted
<1>10. ASSUME NEW t \in Tasks \ Replaceable PROVE Marked(t)'
    <2>1. CASE k = t
        <3>1. RunsOf(t) = {r}
            BY <2>1, <1>1 DEF RunsOf, LoopInv, Marked
        <3>2. RunsOf(t)' = {}
            BY <3>1, <1>1 DEF RunsOf
        <3>3. task'[t] = new
            BY <2>1, <1>6 DEF LoopInv, StaysOn
        <3> QED
            BY <3>2, <3>3, <1>3 DEF Marked
    <2>2. CASE k # t
        <3>1. RunsOf(t)' = RunsOf(t)
            BY <2>2, <1>1 DEF RunsOf
        <3>2. task'[t] = task[t]
            BY <2>2, <1>5
        <3> QED
            BY <3>1, <3>2 DEF Marked, LoopInv
    <2> QED
        BY <2>1, <2>2
<1> QED
    BY <1>1, <1>8, <1>9, <1>10 DEF LoopInv, LoopTypes, Counted, StaysOn

\* A switch takes a replaceable task, and the others keep their rows and runs.
LEMMA SwitchKeeps ==
    ASSUME NEW k \in Replaceable, LoopInv, Deregister(k) \/ Register(k)
    PROVE  LoopInv'
<1>1. PICK new : /\ task' = [task EXCEPT ![k] = new]
                 /\ new \in TaskRow /\ new.failures = 0
    <2>1. CASE Deregister(k)
        <3> DEFINE new == [FreshTask EXCEPT !.on = FALSE]
        <3>1. new \in TaskRow /\ new.failures = 0
            BY FreshRow
        <3> QED
            BY <2>1, <3>1 DEF Deregister
    <2>2. CASE Register(k)
        <3>0. 0 \in Numbers
            BY DEF Numbers
        <3>1. FreshTask \in TaskRow /\ FreshTask.failures = 0
            BY <3>0 DEF FreshTask, TaskRow
        <3> QED
            BY <2>2, <3>1 DEF Register
    <2> QED
        BY <2>1, <2>2
<1>2. runs' = runs
    BY DEF Deregister, Register
<1>3. \A t \in Tasks \ Replaceable : task'[t] = task[t]
    BY <1>1 DEF LoopInv, LoopTypes
<1>4. task' \in [Tasks -> TaskRow]
    BY <1>1 DEF LoopInv, LoopTypes
<1>5. Counted'
    BY <1>1, TaskLoopAssumption DEF LoopInv, LoopTypes, Counted
<1>6. ASSUME NEW t \in Tasks \ Replaceable PROVE Marked(t)'
    <2>1. RunsOf(t)' = RunsOf(t)
        BY <1>2 DEF RunsOf
    <2> QED
        BY <2>1, <1>3 DEF Marked, LoopInv
<1> QED
    BY <1>2, <1>3, <1>4, <1>5, <1>6 DEF LoopInv, LoopTypes, StaysOn

\* Every step of the scheduler, whoever's runs it is about.
LEMMA LoopKeeps == ASSUME LoopInv, [LoopNext]_loop PROVE LoopInv'
<1>1. CASE Tick
    BY <1>1, TickKeeps
<1>2. CASE \E t \in Tasks : TimePasses(t)
    BY <1>2, TimeKeeps
<1>3. ASSUME NEW r \in runs, Begin(r) PROVE LoopInv'
    BY <1>3, BeginKeeps
<1>4. ASSUME NEW r \in runs, NEW ok \in BOOLEAN, Over(r, ok) PROVE LoopInv'
    BY <1>4, OverKeeps
<1>5. ASSUME NEW t \in Tasks, Deregister(t) \/ Register(t) PROVE LoopInv'
    <2>1. t \in Replaceable
        BY <1>5 DEF Deregister, Register
    <2> QED
        BY <2>1, <1>5, SwitchKeeps
<1>6. CASE UNCHANGED loop
    BY <1>6 DEF loop, LoopInv, LoopTypes, Counted, StaysOn, Marked, RunsOf
<1> QED
    BY <1>1, <1>2, <1>3, <1>4, <1>5, <1>6 DEF LoopNext, LoopTurn, Work

\* Every step of the daemon is, to the scheduler, one of its own or none.
LEMMA LaneTurns ==
    ASSUME NEW l \in Lanes, LaneStep(l)
    PROVE  [LoopNext]_loop
<1>1. l \in Tasks
    BY KeeperAssumption
<1>2. Ends(l) => LoopNext
    BY <1>1 DEF Ends, Over, Begun, RunsOf, LoopNext, Work
<1>3. Starts(l) => LoopNext
    BY <1>1 DEF Starts, Begin, RunsOf, LoopNext, Work
<1>4. CASE Starts(l)
    BY <1>3, <1>4
<1>5. CASE EnsureChrome(l)
    BY <1>2, <1>5 DEF EnsureChrome
<1>6. CASE Look(l)
    <2>1. Recycle(l) => Ends(l) \/ UNCHANGED loop
        BY DEF Recycle
    <2> QED
        BY <1>2, <1>6, <2>1 DEF Look
<1>7. CASE Evict(l) \/ Dispose(l) \/ Build(l) \/ Prune(l) \/ Enter(l)
    BY <1>7 DEF Evict, Dispose, Build, Prune, Enter
<1>8. CASE TakesTab(l)
    BY <1>2, <1>8 DEF TakesTab, LeavesWith
<1>9. CASE Drives(l)
    BY <1>2, <1>9 DEF Drives, LeavesWith
<1> QED
    BY <1>4, <1>5, <1>6, <1>7, <1>8, <1>9 DEF LaneStep

LEMMA StepTurns == ASSUME [Next]_vars PROVE [LoopNext]_loop
<1>1. CASE Turns
    BY <1>1 DEF Turns, LoopNext
<1>2. CASE Others
    BY <1>2 DEF Others, Work, LoopNext
<1>3. CASE World
    BY <1>3 DEF World, ChromeCloses, ServerFails, Ages, PassStarts, PassEnds,
                CooldownPasses, WindowPasses
<1>4. CASE \E l \in Lanes : LaneStep(l)
    BY <1>4, LaneTurns
<1>5. CASE UNCHANGED vars
    BY <1>5 DEF vars
<1> QED
    BY <1>1, <1>2, <1>3, <1>4, <1>5 DEF Next

\* A task no switch replaces is marked as running exactly while it has its one run, with
\* any number of lanes, workers and switches: "a task never runs concurrently with
\* itself" and comes back after it, except after a back-off no float can hold
\* (scheduler.py, the in-flight guard and _backoff_delay).
THEOREM RunsAlone == Spec => []MarkIsRun
<1>1. Init => LoopInv
    BY LoopStart DEF Init
<1>2. LoopInv /\ [Next]_vars => LoopInv'
    BY StepTurns, LoopKeeps
<1>3. LoopInv => MarkIsRun
    BY DEF LoopInv, Marked, MarkIsRun
<1> QED
    BY <1>1, <1>2, <1>3, PTL DEF Spec

(***************************************************************************)
(* The page servers.  A client that was closed has no process, and every   *)
(* call a lane may still make of it leaves it at that; closing takes a     *)
(* client whose lock is free, and nothing else retires one.  A client that *)
(* is forgotten comes back under its identity as a new one.                *)
(***************************************************************************)

ClientRow ==
    [port : Ports, retired : BOOLEAN, lock : Tasks \cup {Free},
     server : {"up", "lost", "hung", "none", "dead"}, streak : Numbers,
     detached : BOOLEAN, tab : BOOLEAN, aged : BOOLEAN]

Answer == [cl : ClientRow, ok : BOOLEAN]

Rests(cl) == cl.retired => cl.server = "none"

\* What a call may do to a client.
Keeps(cl, s) == s \in ClientRow /\ s.retired = cl.retired /\ s.lock = cl.lock /\ Rests(s)

\* What a step may make of client d.
Proper(d, new) ==
    /\ new \in ClientRow /\ Rests(new)
    /\ new.retired => client[d].retired \/ client[d].lock = Free

IsLane(x) == x = [at |-> x.at, port |-> x.port, client |-> x.client] /\ x.port \in Ports

LaneTypes   == lane = [l \in Lanes |-> lane[l]] /\ \A l \in Lanes : IsLane(lane[l])
ClientTypes == client \in [Clients -> ClientRow] /\ \A c \in Clients : Rests(client[c])
ChromeTypes == chrome \in [up : BOOLEAN, port : Ports]

KeeperInv == ChromeTypes /\ LaneTypes /\ ClientTypes

LEMMA SomePort == ASSUME ChromeTypes PROVE AnyPort \in Ports
BY DEF ChromeTypes, AnyPort

\* A client that was never called.
LEMMA NewRow ==
    ASSUME NEW p \in Ports, NEW new, new = NewClient(p)
    PROVE  new \in ClientRow /\ ~new.retired /\ new.server = "none" /\ new.lock = Free
<1>1. 0 \in Numbers
    BY DEF Numbers
<1> QED
    BY <1>1 DEF NewClient, ClientRow

\* A closed client is not started again, and a process belongs to one that is not closed.
LEMMA StartKeeps ==
    ASSUME NEW cl \in ClientRow, Rests(cl), NEW s \in Start(cl)
    PROVE  Keeps(cl, s)
<1>1. CASE s = cl
    BY <1>1 DEF Keeps
<1>2. CASE ~cl.retired /\ s \in Respawned(cl)
    <2>1. PICK v \in {"none", IF Answering(cl.port) THEN "up" ELSE "lost"} :
            s = [NewClient(cl.port) EXCEPT !.lock = cl.lock, !.retired = cl.retired, !.server = v]
        BY <1>2 DEF Respawned
    <2>2. NewClient(cl.port) \in ClientRow
        BY NewRow DEF ClientRow
    <2>3. v \in {"up", "lost", "none"}
        OBVIOUS
    <2>4. cl.lock \in Tasks \cup {Free} /\ cl.retired \in BOOLEAN
        BY DEF ClientRow
    <2>5. s \in ClientRow
        BY <2>1, <2>2, <2>3, <2>4 DEF ClientRow
    <2>6. s.retired = cl.retired /\ s.lock = cl.lock
        BY <2>1, <2>2, <2>4 DEF ClientRow
    <2> QED
        BY <1>2, <2>5, <2>6 DEF Keeps, Rests
<1> QED
    BY <1>1, <1>2 DEF Start

\* The streak goes up to RecycleAfter, and nothing else changes.
LEMMA FailingKeeps ==
    ASSUME NEW cl \in ClientRow, Rests(cl)
    PROVE  Keeps(cl, Failing(cl))
<1> DEFINE n == IF cl.streak < RecycleAfter THEN cl.streak + 1 ELSE cl.streak
           new == Failing(cl)
<1>1. n \in Numbers
    BY DEF ClientRow, Numbers
<1>2. new = [cl EXCEPT !.streak = n]
    BY DEF Failing
<1> HIDE DEF n, new
<1>3. new \in ClientRow /\ new.retired = cl.retired /\ new.lock = cl.lock
      /\ new.server = cl.server
    BY <1>1, <1>2 DEF ClientRow
<1>4. Keeps(cl, new)
    BY <1>3 DEF Keeps, Rests
<1> QED
    BY <1>4 DEF new

LEMMA AnswerRow ==
    ASSUME NEW cl \in ClientRow, NEW ok \in BOOLEAN, NEW a, a = Answered(cl, ok)
    PROVE  a \in Answer /\ a.cl = cl /\ a.ok = ok
BY DEF Answered, Answer

\* One exchange leaves the lock, and a closed client where it is.
LEMMA ExchangeKeeps ==
    ASSUME NEW cl \in ClientRow, Rests(cl), NEW a \in Exchange(cl)
    PROVE  a \in Answer /\ Keeps(cl, a.cl)
<1>1. Keeps(cl, cl)
    BY DEF Keeps
<1>2. Keeps(cl, Failing(cl))
    BY FailingKeeps
<1>3. ASSUME NEW new, new = [cl EXCEPT !.streak = 0] PROVE Keeps(cl, new)
    <2>1. 0 \in Numbers
        BY DEF Numbers
    <2>2. new \in ClientRow /\ new.retired = cl.retired /\ new.lock = cl.lock
          /\ new.server = cl.server
        BY <1>3, <2>1 DEF ClientRow
    <2> QED
        BY <2>2 DEF Keeps, Rests
<1>4. CASE a = Alike(cl)
    BY <1>1, <1>4, AnswerRow DEF Alike, Keeps
<1>5. CASE a = Alike(Failing(cl))
    <2>1. a = Answered(Failing(cl), FALSE)
        BY <1>5 DEF Alike
    <2> QED
        BY <2>1, <1>2, AnswerRow DEF Keeps
<1>6. CASE a = Answered([cl EXCEPT !.streak = 0], TRUE)
    <2> DEFINE new == [cl EXCEPT !.streak = 0]
    <2>1. Keeps(cl, new)
        BY <1>3
    <2>2. a = Answered(new, TRUE)
        BY <1>6
    <2> HIDE DEF new
    <2> QED
        BY <2>1, <2>2, AnswerRow DEF Keeps
<1>7. \/ a = Alike(cl) \/ a = Alike(Failing(cl))
      \/ a = Answered([cl EXCEPT !.streak = 0], TRUE)
    BY DEF Exchange
<1> QED
    BY <1>4, <1>5, <1>6, <1>7

LEMMA CallKeeps ==
    ASSUME NEW cl \in ClientRow, Rests(cl), NEW a \in CallOnce(cl)
    PROVE  a \in Answer /\ Keeps(cl, a.cl)
<1>1. CASE cl.detached
    <2>1. a = Answered(cl, FALSE)
        BY <1>1 DEF CallOnce, Alike
    <2> QED
        BY <2>1, AnswerRow DEF Keeps
<1>2. CASE ~cl.detached
    <2>1. PICK s \in Start(cl) : a \in Exchange(s)
        BY <1>2 DEF CallOnce
    <2>2. Keeps(cl, s)
        BY StartKeeps
    <2>3. a \in Answer /\ Keeps(s, a.cl)
        BY <2>1, <2>2, ExchangeKeeps DEF Keeps
    <2> QED
        BY <2>2, <2>3 DEF Keeps
<1> QED
    BY <1>1, <1>2

LEMMA TabKeeps ==
    ASSUME NEW cl \in ClientRow, Rests(cl), NEW a \in EnsureTab(cl)
    PROVE  a \in Answer /\ Keeps(cl, a.cl)
<1>1. PICK s \in Start(cl) :
        a \in (IF s.server \notin Alive THEN {Alike(s)}
               ELSE IF s.tab THEN {Answered(s, TRUE)}
               ELSE {[b EXCEPT !.cl.tab = b.ok] : b \in CallOnce(s)})
    BY DEF EnsureTab
<1>2. Keeps(cl, s) /\ s \in ClientRow /\ Rests(s)
    BY StartKeeps DEF Keeps
<1>3. CASE a = Alike(s) \/ a = Answered(s, TRUE)
    <2>1. PICK ok \in BOOLEAN : a = Answered(s, ok)
        BY <1>3 DEF Alike
    <2> QED
        BY <2>1, <1>2, AnswerRow
<1>4. CASE \E b \in CallOnce(s) : a = [b EXCEPT !.cl.tab = b.ok]
    <2>1. PICK b \in CallOnce(s) : a = [b EXCEPT !.cl.tab = b.ok]
        BY <1>4
    <2>2. b \in Answer /\ Keeps(s, b.cl)
        BY <1>2, CallKeeps
    <2> DEFINE new == [b.cl EXCEPT !.tab = b.ok]
    <2>3. b.cl \in ClientRow /\ b.ok \in BOOLEAN
        BY <2>2 DEF Answer
    <2>4. a = [b EXCEPT !.cl = new]
        BY <2>1
    <2>5. new \in ClientRow /\ new.retired = b.cl.retired /\ new.lock = b.cl.lock
          /\ new.server = b.cl.server
        BY <2>3 DEF ClientRow
    <2> HIDE DEF new
    <2>6. a \in Answer /\ a.cl = new
        BY <2>2, <2>4, <2>5 DEF Answer
    <2> QED
        BY <1>2, <2>2, <2>5, <2>6 DEF Keeps, Rests
<1> QED
    BY <1>1, <1>3, <1>4

LEMMA PruneKeeps ==
    ASSUME NEW cl \in ClientRow, Rests(cl), NEW a \in PruneTabs(cl)
    PROVE  a \in Answer /\ Keeps(cl, a.cl)
<1>1. CASE cl.tab
    <2>1. PICK s \in Start(cl) : a \in CallOnce(s)
        BY <1>1 DEF PruneTabs
    <2>2. Keeps(cl, s)
        BY StartKeeps
    <2>3. a \in Answer /\ Keeps(s, a.cl)
        BY <2>1, <2>2, CallKeeps DEF Keeps
    <2> QED
        BY <2>2, <2>3 DEF Keeps
<1>2. CASE ~cl.tab
    <2>1. a = Answered(cl, TRUE)
        BY <1>2 DEF PruneTabs
    <2> QED
        BY <2>1, AnswerRow DEF Keeps
<1> QED
    BY <1>1, <1>2

(***************************************************************************)
(* The steps.                                                              *)
(***************************************************************************)

AllProper(clients) ==
    clients \in [Clients -> ClientRow] /\ \A d \in Clients : Proper(d, clients[d])

LEMMA NothingCalled == ASSUME ClientTypes, UNCHANGED client PROVE AllProper(client')
BY DEF ClientTypes, AllProper, Proper

\* A step that changes one client.
LEMMA OneCalled ==
    ASSUME ClientTypes, NEW c, NEW new, NEW clients,
           c \in Clients => Proper(c, new),
           clients = [client EXCEPT ![c] = new]
    PROVE  AllProper(clients)
<1>1. \A d \in Clients : clients[d] = IF d = c THEN new ELSE client[d]
    BY DEF ClientTypes
<1>2. \A d \in Clients : Proper(d, client[d])
    BY DEF ClientTypes, Proper
<1>3. \A d \in Clients : Proper(d, clients[d])
    BY <1>1, <1>2
<1>4. clients \in [Clients -> ClientRow]
    BY <1>1, <1>3 DEF ClientTypes, Proper
<1> QED
    BY <1>3, <1>4 DEF AllProper

\* What is forgotten comes back as a client that was never called.
LEMMA ForgottenIsNew ==
    ASSUME ChromeTypes, NEW clients, AllProper(clients), client' = Remembered(clients)
    PROVE  AllProper(client')
<1> DEFINE new == NewClient(AnyPort)
<1>1. new \in ClientRow /\ ~new.retired /\ Rests(new)
    BY SomePort, NewRow DEF Rests
<1>2. client' = [c \in Clients |-> IF c \in Referred' THEN clients[c] ELSE new]
    BY DEF Remembered
<1> HIDE DEF new
<1>3. \A d \in Clients : client'[d] = clients[d] \/ client'[d] = new
    BY <1>2
<1>4. \A d \in Clients : Proper(d, client'[d])
    BY <1>1, <1>3 DEF AllProper, Proper
<1>5. client' \in [Clients -> ClientRow]
    BY <1>2, <1>4 DEF Proper
<1> QED
    BY <1>4, <1>5 DEF AllProper

\* Only a client whose lock is free is closed, and its process ends with it.
LEMMA ClosedIsProper ==
    ASSUME ChromeTypes, ClientTypes, NEW c, MayClose(c)
    PROVE  AllProper(Closed(c))
<1> DEFINE new == [NewClient(AnyPort) EXCEPT !.retired = TRUE]
<1>1. NewClient(AnyPort) \in ClientRow /\ NewClient(AnyPort).server = "none"
    BY SomePort, NewRow
<1>2. new \in ClientRow /\ new.server = "none"
    BY <1>1 DEF ClientRow
<1>3. Closed(c) = [client EXCEPT ![c] = new]
    BY DEF Closed
<1> HIDE DEF new
<1>4. c \in Clients => Proper(c, new)
    BY <1>2 DEF Proper, Rests, MayClose
<1> QED
    BY <1>3, <1>4, OneCalled

LEMMA LaneMoves ==
    ASSUME LaneTypes, NEW l \in Lanes, NEW new, IsLane(new), lane' = [lane EXCEPT ![l] = new]
    PROVE  LaneTypes'
<1>1. \A m \in Lanes : lane'[m] = IF m = l THEN new ELSE lane[m]
    BY DEF LaneTypes
<1>2. lane' = [m \in Lanes |-> lane'[m]]
    BY DEF LaneTypes
<1>3. \A m \in Lanes : IsLane(lane'[m])
    BY <1>1 DEF LaneTypes
<1>4. \A m \in Lanes : IsLane(lane[m])'
    BY <1>3 DEF IsLane
<1> QED
    BY <1>2, <1>4 DEF LaneTypes

LEMMA AwayIsLane == ASSUME ChromeTypes PROVE IsLane(Away)
BY SomePort DEF Away, IsLane

\* The rows a lane passes through.
LEMMA LaneRow ==
    ASSUME NEW x, IsLane(x), NEW step, NEW p \in Ports, NEW c, NEW new,
           \/ new = [x EXCEPT !.at = step, !.client = c]
           \/ new = [x EXCEPT !.at = step, !.port = p]
    PROVE  IsLane(new)
<1>1. CASE new = [x EXCEPT !.at = step, !.client = c]
    <2>1. new = [at |-> step, port |-> x.port, client |-> c]
        BY <1>1 DEF IsLane
    <2> QED
        BY <2>1 DEF IsLane
<1>2. CASE new = [x EXCEPT !.at = step, !.port = p]
    <2>1. new = [at |-> step, port |-> p, client |-> x.client]
        BY <1>2 DEF IsLane
    <2> QED
        BY <2>1 DEF IsLane
<1> QED
    BY <1>1, <1>2

LEMMA GoesTypes ==
    ASSUME LaneTypes, NEW l \in Lanes, NEW step, Goes(l, step)
    PROVE  LaneTypes'
<1> DEFINE new == [lane[l] EXCEPT !.at = step]
<1>1. IsLane(lane[l]) /\ lane' = [lane EXCEPT ![l] = new]
    BY DEF LaneTypes, Goes
<1>2. new = [at |-> step, port |-> lane[l].port, client |-> lane[l].client]
    BY <1>1 DEF IsLane
<1>3. IsLane(new)
    BY <1>1, <1>2 DEF IsLane
<1> HIDE DEF new
<1> QED
    BY <1>1, <1>3, LaneMoves

LEMMA TakesTypes ==
    ASSUME LaneTypes, NEW l \in Lanes, NEW step, NEW c, Takes(l, step, c)
    PROVE  LaneTypes'
<1> DEFINE new == [lane[l] EXCEPT !.at = step, !.client = c]
<1>1. IsLane(lane[l]) /\ lane' = [lane EXCEPT ![l] = new]
    BY DEF LaneTypes, Takes
<1>2. lane[l].port \in Ports
    BY <1>1 DEF IsLane
<1>3. IsLane(new)
    BY <1>1, <1>2, LaneRow
<1> HIDE DEF new
<1> QED
    BY <1>1, <1>3, LaneMoves

LEMMA SettlesTypes ==
    ASSUME ChromeTypes, LaneTypes, NEW l \in Lanes, NEW c, Settles(l, c)
    PROVE  LaneTypes'
<1> DEFINE new == [Away EXCEPT !.at = "prune", !.client = c]
<1>2. IsLane(new)
    BY SomePort, AwayIsLane, LaneRow
<1>3. lane' = [lane EXCEPT ![l] = new]
    BY DEF Settles
<1> HIDE DEF new
<1> QED
    BY <1>2, <1>3, LaneMoves

LEMMA EndsTypes == ASSUME ChromeTypes, LaneTypes, NEW l \in Lanes, Ends(l) PROVE LaneTypes'
BY AwayIsLane, LaneMoves DEF Ends

\* The last lane of a bracket lets the lock go, with whatever the call left of the client.
LEMMA LeavesProper ==
    ASSUME ChromeTypes, ClientTypes, NEW l \in Lanes, NEW cl,
           lane[l].client \in Clients => Keeps(client[lane[l].client], cl),
           LeavesWith(l, cl)
    PROVE  AllProper(client')
<1> DEFINE c   == lane[l].client
           new == [cl EXCEPT !.lock = Free]
<1>1. c \in Clients => Proper(c, new)
    <2> SUFFICES ASSUME c \in Clients PROVE Proper(c, new)
        OBVIOUS
    <2>1. Keeps(client[c], cl)
        OBVIOUS
    <2>2. new \in ClientRow /\ new.retired = cl.retired /\ new.server = cl.server
        BY <2>1 DEF Keeps, ClientRow
    <2> HIDE DEF new
    <2> QED
        BY <2>1, <2>2 DEF Keeps, Proper, Rests
<1> DEFINE clients == [client EXCEPT ![c] = new]
<1>2. clients = [client EXCEPT ![c] = new] /\ client' = Remembered(clients)
    BY DEF LeavesWith
<1> HIDE DEF new, clients
<1>3. AllProper(clients)
    BY <1>1, <1>2, OneCalled
<1> QED
    BY <1>2, <1>3, ForgottenIsNew

\* What the lane that looks does to the held client is at most to give it up for lost.
LEMMA LookProper ==
    ASSUME KeeperInv, NEW l \in Lanes, Look(l)
    PROVE  LaneTypes' /\ AllProper(client')
<1> USE DEF KeeperInv
<1>1. CASE Recycle(l)
    <2> DEFINE gone == client[Held].detached \/ LostChrome(Held, lane[l].port)
               new  == [client[Held] EXCEPT !.detached = gone]
    <2>1. client' = [client EXCEPT ![Held] = new]
        BY <1>1 DEF Recycle
    <2>2. Held \in Clients => Proper(Held, new)
        <3> SUFFICES ASSUME Held \in Clients PROVE Proper(Held, new)
            OBVIOUS
        <3>1. client[Held] \in ClientRow /\ Rests(client[Held])
            BY DEF ClientTypes
        <3>2. gone \in BOOLEAN
            BY DEF LostChrome
        <3> HIDE DEF gone
        <3>3. /\ new \in ClientRow /\ new.retired = client[Held].retired
              /\ new.server = client[Held].server
            BY <3>1, <3>2 DEF ClientRow
        <3> QED
            BY <3>1, <3>3 DEF Proper, Rests
    <2> HIDE DEF new
    <2>3. AllProper(client')
        BY <2>1, <2>2, OneCalled
    <2>4. Settles(l, Held) \/ Ends(l) \/ Takes(l, "dispose", Held)
        BY <1>1 DEF Recycle
    <2> QED
        BY <2>3, <2>4, SettlesTypes, EndsTypes, TakesTypes
<1>2. CASE ~Recycle(l)
    <2>1. UNCHANGED client
        BY <1>2 DEF Look
    <2>2. Goes(l, "build") \/ Takes(l, "evict", Held) \/ Settles(l, Held)
        BY <1>2 DEF Look
    <2> QED
        BY <2>1, <2>2, NothingCalled, GoesTypes, TakesTypes, SettlesTypes
<1> QED
    BY <1>1, <1>2

\* The steps of a lane that closes a client or makes one.
LEMMA FactoryProper ==
    ASSUME KeeperInv, NEW l \in Lanes, Evict(l) \/ Dispose(l) \/ Build(l)
    PROVE  LaneTypes' /\ AllProper(client')
<1> USE DEF KeeperInv
<1>1. CASE Evict(l)
    <2>1. Takes(l, "build", NoClient) /\ MayClose(lane[l].client)
          /\ client' = Remembered(Closed(lane[l].client))
        BY <1>1 DEF Evict
    <2> QED
        BY <2>1, TakesTypes, ClosedIsProper, ForgottenIsNew
<1>2. CASE Dispose(l)
    <2>1. /\ Takes(l, "build", NoClient) \/ Settles(l, Held)
          /\ MayClose(lane[l].client)
          /\ client' = Remembered(Closed(lane[l].client))
        BY <1>2 DEF Dispose
    <2> QED
        BY <2>1, TakesTypes, SettlesTypes, ClosedIsProper, ForgottenIsNew
<1>3. CASE Build(l)
    <2> DEFINE new     == NewClient(lane[l].port)
               clients == [client EXCEPT ![NextId] = new]
    <2>1. Settles(l, NextId) /\ client' = Remembered(clients)
        BY <1>3 DEF Build
    <2>2. lane[l].port \in Ports
        BY DEF LaneTypes, IsLane
    <2>3. new \in ClientRow /\ ~new.retired
        BY <2>2, NewRow
    <2>4. clients = [client EXCEPT ![NextId] = new]
        OBVIOUS
    <2> HIDE DEF new, clients
    <2>5. NextId \in Clients => Proper(NextId, new)
        BY <2>3 DEF Proper, Rests
    <2>6. AllProper(clients)
        BY <2>4, <2>5, OneCalled
    <2> QED
        BY <2>1, <2>6, SettlesTypes, ForgottenIsNew
<1> QED
    BY <1>1, <1>2, <1>3

\* The calls a lane makes of its client.
LEMMA CallsProper ==
    ASSUME KeeperInv, NEW l \in Lanes, Prune(l) \/ Enter(l) \/ TakesTab(l) \/ Drives(l)
    PROVE  LaneTypes' /\ AllProper(client')
<1> USE DEF KeeperInv
<1> DEFINE c == lane[l].client
<1>0. c \in Clients => client[c] \in ClientRow /\ Rests(client[c])
    BY DEF ClientTypes
<1>1. CASE Prune(l)
    <2>1. Goes(l, "enter")
        BY <1>1 DEF Prune
    <2>2. CASE UNCHANGED client
        BY <2>1, <2>2, GoesTypes, NothingCalled
    <2>3. CASE \E a \in PruneTabs(client[c]) : client' = [client EXCEPT ![c] = a.cl]
        <3>1. PICK a \in PruneTabs(client[c]) : client' = [client EXCEPT ![c] = a.cl]
            BY <2>3
        <3>2. c \in Clients => Proper(c, a.cl)
            BY <1>0, PruneKeeps DEF Keeps, Proper
        <3> QED
            BY <2>1, <3>1, <3>2, GoesTypes, OneCalled
    <2> QED
        BY <1>1, <2>2, <2>3 DEF Prune
<1>2. CASE Enter(l)
    <2> DEFINE new == [client[c] EXCEPT !.lock = l]
    <2>1. Goes(l, "tab") /\ client' = [client EXCEPT ![c] = new]
        BY <1>2 DEF Enter
    <2>2. c \in Clients => Proper(c, new)
        <3> SUFFICES ASSUME c \in Clients PROVE Proper(c, new)
            OBVIOUS
        <3>1. l \in Tasks \cup {Free}
            BY KeeperAssumption
        <3>2. /\ new \in ClientRow /\ new.retired = client[c].retired
              /\ new.server = client[c].server
            BY <1>0, <3>1 DEF ClientRow
        <3> QED
            BY <1>0, <3>2 DEF Proper, Rests
    <2> HIDE DEF new
    <2> QED
        BY <2>1, <2>2, GoesTypes, OneCalled
<1>3. CASE TakesTab(l)
    <2>1. PICK a \in EnsureTab(client[c]) :
            IF a.ok THEN Goes(l, "drive") /\ client' = [client EXCEPT ![c] = a.cl]
                    ELSE LeavesWith(l, a.cl)
        BY <1>3 DEF TakesTab
    <2>2. c \in Clients => Keeps(client[c], a.cl)
        BY <1>0, TabKeeps
    <2>3. c \in Clients => Proper(c, a.cl)
        BY <2>2 DEF Keeps, Proper
    <2>4. CASE a.ok
        BY <2>1, <2>3, <2>4, GoesTypes, OneCalled
    <2>5. CASE ~a.ok
        <3>1. Ends(l)
            BY <2>1, <2>5 DEF LeavesWith
        <3> QED
            BY <2>1, <2>2, <2>5, <3>1, EndsTypes, LeavesProper
    <2> QED
        BY <2>4, <2>5
<1>4. CASE Drives(l)
    <2>1. PICK a \in CallOnce(client[c]) : LeavesWith(l, a.cl)
        BY <1>4 DEF Drives
    <2>2. c \in Clients => Keeps(client[c], a.cl)
        BY <1>0, CallKeeps
    <2>3. Ends(l)
        BY <2>1 DEF LeavesWith
    <2> QED
        BY <2>1, <2>2, <2>3, EndsTypes, LeavesProper
<1> QED
    BY <1>1, <1>2, <1>3, <1>4

\* Chrome that closes, a server that fails or ages, take no client's lock and close none.
LEMMA WorldProper ==
    ASSUME KeeperInv, World
    PROVE  ChromeTypes' /\ LaneTypes' /\ AllProper(client')
<1> USE DEF KeeperInv
<1>1. LaneTypes'
    BY DEF World, ChromeCloses, ServerFails, Ages, PassStarts, PassEnds, CooldownPasses,
           WindowPasses, LaneTypes, IsLane
<1>2. CASE ChromeCloses
    <2> DEFINE worse(c) == IF client[c].server = "up" THEN "lost" ELSE client[c].server
               new(c)   == [client[c] EXCEPT !.server = worse(c)]
    <2>1. client' = [c \in Clients |-> new(c)]
        BY <1>2 DEF ChromeCloses
    <2>2. ASSUME NEW c \in Clients PROVE Proper(c, new(c))
        <3>1. client[c] \in ClientRow /\ Rests(client[c])
            BY DEF ClientTypes
        <3>2. worse(c) \in {"up", "lost", "hung", "none", "dead"}
              /\ (client[c].server = "none" => worse(c) = "none")
            BY <3>1 DEF ClientRow
        <3> HIDE DEF worse
        <3>3. /\ new(c) \in ClientRow /\ new(c).retired = client[c].retired
              /\ new(c).server = worse(c)
            BY <3>1, <3>2 DEF ClientRow
        <3> HIDE DEF new
        <3> QED
            BY <3>1, <3>2, <3>3 DEF Proper, Rests
    <2> HIDE DEF new
    <2>3. AllProper(client')
        BY <2>1, <2>2 DEF AllProper, Proper
    <2>4. ChromeTypes'
        BY <1>2 DEF ChromeCloses, ChromeTypes
    <2> QED
        BY <1>1, <2>3, <2>4
<1>3. ASSUME NEW c \in Clients, ServerFails(c) PROVE ChromeTypes' /\ AllProper(client')
    <2>1. PICK s \in {"lost", "hung", "dead"} :
            client' = [client EXCEPT ![c] = [client[c] EXCEPT !.server = s]]
        BY <1>3 DEF ServerFails
    <2> DEFINE new == [client[c] EXCEPT !.server = s]
    <2>2. client[c] \in ClientRow /\ ~client[c].retired
        BY <1>3 DEF ClientTypes, Rests, ServerFails
    <2>3. new \in ClientRow /\ new.retired = client[c].retired
        BY <2>2 DEF ClientRow
    <2>4. client' = [client EXCEPT ![c] = new]
        BY <2>1
    <2> HIDE DEF new
    <2>5. c \in Clients => Proper(c, new)
        BY <2>2, <2>3 DEF Proper, Rests
    <2> QED
        BY <1>3, <2>4, <2>5, OneCalled DEF ServerFails, ChromeTypes
<1>4. ASSUME NEW c \in Clients, Ages(c) PROVE ChromeTypes' /\ AllProper(client')
    <2> DEFINE new == [client[c] EXCEPT !.aged = TRUE]
    <2>1. client' = [client EXCEPT ![c] = new]
        BY <1>4 DEF Ages
    <2>2. client[c] \in ClientRow /\ Rests(client[c])
        BY DEF ClientTypes
    <2>3. /\ new \in ClientRow /\ new.retired = client[c].retired
          /\ new.server = client[c].server
        BY <2>2 DEF ClientRow
    <2> HIDE DEF new
    <2>4. c \in Clients => Proper(c, new)
        BY <2>2, <2>3 DEF Proper, Rests
    <2> QED
        BY <1>4, <2>1, <2>4, OneCalled DEF Ages, ChromeTypes
<1>5. CASE PassStarts \/ PassEnds \/ CooldownPasses \/ WindowPasses
    <2>1. UNCHANGED <<chrome, client>>
        BY <1>5 DEF PassStarts, PassEnds, CooldownPasses, WindowPasses
    <2> QED
        BY <1>1, <2>1, NothingCalled DEF ChromeTypes
<1> QED
    BY <1>1, <1>2, <1>3, <1>4, <1>5 DEF World

LEMMA StepProper ==
    ASSUME KeeperInv, [Next]_vars
    PROVE  ChromeTypes' /\ LaneTypes' /\ AllProper(client')
<1> USE DEF KeeperInv
<1>1. CASE UNCHANGED browser
    <2>1. UNCHANGED <<chrome, client, lane>>
        BY <1>1 DEF browser
    <2> QED
        BY <2>1, NothingCalled DEF ChromeTypes, LaneTypes, IsLane
<1>2. CASE World
    BY <1>2, WorldProper
<1>3. ASSUME NEW l \in Lanes, LaneStep(l) PROVE ChromeTypes' /\ LaneTypes' /\ AllProper(client')
    <2>1. CASE Starts(l)
        BY <2>1, GoesTypes, NothingCalled DEF Starts, ChromeTypes
    <2>2. CASE EnsureChrome(l)
        <3>1. AllProper(client')
            BY <2>2, NothingCalled DEF EnsureChrome
        <3>2. CASE Ends(l) /\ UNCHANGED chrome
            BY <3>1, <3>2, EndsTypes DEF ChromeTypes
        <3>3. ASSUME NEW p \in Ports, chrome' = [up |-> TRUE, port |-> p],
                     lane' = [lane EXCEPT ![l] = [lane[l] EXCEPT !.at = "look", !.port = p]]
              PROVE  ChromeTypes' /\ LaneTypes'
            <4> DEFINE new == [lane[l] EXCEPT !.at = "look", !.port = p]
            <4>1. IsLane(lane[l])
                BY DEF LaneTypes
            <4>3. IsLane(new)
                BY <4>1, LaneRow
            <4>4. lane' = [lane EXCEPT ![l] = new]
                BY <3>3
            <4> HIDE DEF new
            <4>5. LaneTypes'
                BY <4>3, <4>4, LaneMoves
            <4>6. ChromeTypes'
                BY <3>3 DEF ChromeTypes
            <4> QED
                BY <4>5, <4>6
        <3> QED
            BY <2>2, <3>1, <3>2, <3>3 DEF EnsureChrome
    <2>3. CASE Look(l)
        BY <2>3, LookProper DEF Look, ChromeTypes
    <2>4. CASE Evict(l) \/ Dispose(l) \/ Build(l)
        BY <2>4, FactoryProper DEF Evict, Dispose, Build, ChromeTypes
    <2>5. CASE Prune(l) \/ Enter(l) \/ TakesTab(l) \/ Drives(l)
        BY <2>5, CallsProper DEF Prune, Enter, TakesTab, Drives, ChromeTypes
    <2> QED
        BY <1>3, <2>1, <2>2, <2>3, <2>4, <2>5 DEF LaneStep
<1> QED
    BY <1>1, <1>2, <1>3 DEF Next, vars, Turns, Others

LEMMA KeeperHolds == Spec => []KeeperInv
<1>1. Init => KeeperInv
    <2> SUFFICES ASSUME Init PROVE KeeperInv
        OBVIOUS
    <2>1. ChromeTypes
        BY DEF Init, ChromeTypes
    <2>2. LaneTypes
        BY <2>1, AwayIsLane DEF Init, LaneTypes
    <2>3. ClientTypes
        BY <2>1, SomePort, NewRow DEF Init, ClientTypes, Rests
    <2> QED
        BY <2>1, <2>2, <2>3 DEF KeeperInv
<1>2. KeeperInv /\ [Next]_vars => KeeperInv'
    <2> SUFFICES ASSUME KeeperInv, [Next]_vars PROVE KeeperInv'
        OBVIOUS
    <2>1. ChromeTypes' /\ LaneTypes' /\ AllProper(client')
        BY StepProper
    <2>2. ClientTypes'
        BY <2>1 DEF AllProper, Proper, ClientTypes, Rests
    <2> QED
        BY <2>1, <2>2 DEF KeeperInv
<1> QED
    BY <1>1, <1>2, PTL DEF Spec

\* A client that was closed never has a process again, whichever lane still calls it
\* (client.py, _retired): nobody would ever end that process.
THEOREM ClosedStaysDown == Spec => []NoCorpseRises
<1>1. KeeperInv => NoCorpseRises
    BY DEF KeeperInv, ClientTypes, Rests, NoCorpseRises
<1> QED
    BY <1>1, KeeperHolds, PTL

(***************************************************************************)
(* The bracket.  A lane inside it holds its client's lock.  What closes,   *)
(* prunes or calls that client waits for the lock, and what makes a new    *)
(* one takes an identity nobody refers to; that there is one is counted:   *)
(* the lane that makes it has no client, and the other lanes and the       *)
(* holder have at most as many as there are lanes.                         *)
(***************************************************************************)

LocksHeld  == \A l \in Lanes, c \in Clients : Has(l, c) => client[c].lock = l
EmptyHands == \A l \in Lanes : lane[l].at \in {"idle", "ensure", "look", "build"}
                               => lane[l].client = NoClient

BracketInv == LocksHeld /\ EmptyHands

\* What nobody but the lane that has it does to a client.
Same(old, new) == \A f \in {"retired", "port", "tab", "streak", "lock"} : new[f] = old[f]

\* A step of one lane leaves the others where they are.
LEMMA OthersStay ==
    ASSUME KeeperInv, NEW m \in Lanes, LaneStep(m), NEW l \in Lanes, l # m
    PROVE  lane'[l] = lane[l]
<1> USE DEF KeeperInv, LaneTypes
<1>1. \A new : lane' = [lane EXCEPT ![m] = new] => lane'[l] = lane[l]
    OBVIOUS
<1>2. \A step, c : Goes(m, step) \/ Takes(m, step, c) \/ Settles(m, c) \/ Ends(m)
                   => lane'[l] = lane[l]
    BY <1>1 DEF Goes, Takes, Settles, Ends
<1>3. CASE Starts(m) \/ Evict(m) \/ Build(m) \/ Prune(m) \/ Enter(m)
    BY <1>2, <1>3 DEF Starts, Evict, Build, Prune, Enter
<1>4. CASE EnsureChrome(m)
    BY <1>1, <1>2, <1>4 DEF EnsureChrome
<1>5. CASE Look(m) \/ Dispose(m)
    BY <1>2, <1>5 DEF Look, Recycle, Dispose
<1>6. CASE TakesTab(m) \/ Drives(m)
    BY <1>2, <1>6 DEF TakesTab, Drives, LeavesWith
<1> QED
    BY <1>3, <1>4, <1>5, <1>6 DEF LaneStep

\* There is an identity left for the client a lane makes.
LEMMA FreshIdentity ==
    ASSUME EmptyHands, NEW m \in Lanes, At(m, "build")
    PROVE  NextId \in Clients \ Referred
<1> DEFINE S == Lanes \ {m}
           f == [l \in S |-> lane[l].client]
           T == {f[l] : l \in S}
           R == T \cup {holder.client}
<1>1. IsFiniteSet(Lanes) /\ IsFiniteSet(Clients) /\ Cardinality(Clients) > Cardinality(Lanes)
      /\ NoClient \notin Clients
    BY KeeperAssumption, TaskLoopAssumption, FS_Subset
<1>2. IsFiniteSet(S) /\ Cardinality(S) = Cardinality(Lanes) - 1
    BY <1>1, FS_RemoveElement
<1>3. f \in Surjection(S, T)
    BY DEF Surjection
<1>4. IsFiniteSet(T) /\ Cardinality(T) <= Cardinality(S)
    <2> HIDE DEF S, f, T
    <2> QED
        BY <1>2, <1>3, FS_Surjection
<1>5. IsFiniteSet(R) /\ Cardinality(R) <= Cardinality(Lanes)
    <2>1. Cardinality(Lanes) \in Nat /\ Cardinality(T) \in Nat
        BY <1>1, <1>4, FS_CardinalityType
    <2> HIDE DEF S, T
    <2> QED
        BY <1>2, <1>4, <2>1, FS_AddElement
<1>6. lane[m].client = NoClient
    BY DEF EmptyHands, At
<1>7. Referred \subseteq R \cup {NoClient}
    <2>1. ASSUME NEW l \in Lanes PROVE lane[l].client \in R \cup {NoClient}
        BY <1>6
    <2> QED
        BY <2>1 DEF Referred
<1> HIDE DEF R
<1>8. ~(Clients \subseteq R)
    <2> SUFFICES ASSUME Clients \subseteq R PROVE FALSE
        OBVIOUS
    <2>1. Cardinality(Clients) <= Cardinality(R)
        BY <1>5, FS_Subset
    <2>2. Cardinality(Clients) \in Nat /\ Cardinality(R) \in Nat /\ Cardinality(Lanes) \in Nat
        BY <1>1, <1>5, FS_CardinalityType
    <2> QED
        BY <1>1, <1>5, <2>1, <2>2
<1>9. \E c : c \in Clients \ Referred
    BY <1>1, <1>7, <1>8
<1> QED
    BY <1>9 DEF NextId

\* One client changed; the others are as they were.
LEMMA OneTouched ==
    ASSUME ClientTypes, NEW c \in Clients, NEW d, NEW new, NEW clients,
           clients = [client EXCEPT ![d] = new], d = c => Same(client[c], new)
    PROVE  Same(client[c], clients[c])
BY DEF ClientTypes, Same

\* A client a lane has is not forgotten.
LEMMA HadIsRemembered ==
    ASSUME NEW c \in Clients, NEW l \in Lanes, lane'[l].client = c,
           NEW clients, client' = Remembered(clients)
    PROVE  client'[c] = clients[c]
<1>1. c \in Referred'
    BY DEF Referred
<1> QED
    BY <1>1 DEF Remembered

\* What another lane does to the client of a lane inside its bracket.
LEMMA OthersWait ==
    ASSUME KeeperInv, BracketInv, NEW m \in Lanes, LaneStep(m),
           NEW l \in Lanes, l # m, NEW c \in Clients, Has(l, c)
    PROVE  Same(client[c], client'[c])
<1>1. ClientTypes /\ client[c] \in ClientRow /\ client[c].lock = l
    BY DEF KeeperInv, ClientTypes, BracketInv, LocksHeld
<1>2. lane'[l].client = c
    BY OthersStay DEF Has
<1>3. l # Free
    BY KeeperAssumption
<1>4. CASE UNCHANGED client
    BY <1>4 DEF Same
<1>5. ASSUME MayClose(lane[m].client), client' = Remembered(Closed(lane[m].client))
      PROVE  Same(client[c], client'[c])
    <2>1. lane[m].client # c
        BY <1>1, <1>3, <1>5 DEF MayClose
    <2>2. Closed(lane[m].client)[c] = client[c]
        BY <1>1, <2>1 DEF Closed, ClientTypes
    <2> QED
        BY <1>2, <1>5, <2>2, HadIsRemembered DEF Same
<1>6. CASE Look(m) /\ Recycle(m)
    <2> DEFINE gone == client[Held].detached \/ LostChrome(Held, lane[m].port)
               new  == [client[Held] EXCEPT !.detached = gone]
    <2>1. client' = [client EXCEPT ![Held] = new]
        BY <1>6 DEF Recycle
    <2>2. Held = c => Same(client[c], new)
        BY <1>1 DEF ClientRow, Same
    <2> HIDE DEF new
    <2> QED
        BY <1>1, <2>1, <2>2, OneTouched
<1>7. CASE Evict(m)
    BY <1>5, <1>7 DEF Evict
<1>8. CASE Dispose(m)
    BY <1>5, <1>8 DEF Dispose
<1>9. CASE Build(m)
    <2>1. NextId # c
        <3>1. c \in Referred
            BY DEF Referred, Has
        <3> QED
            BY <1>9, <3>1, FreshIdentity DEF Build, BracketInv
    <2> DEFINE clients == [client EXCEPT ![NextId] = NewClient(lane[m].port)]
    <2>2. client' = Remembered(clients)
        BY <1>9 DEF Build
    <2>3. clients[c] = client[c]
        BY <1>1, <2>1 DEF ClientTypes
    <2> HIDE DEF clients
    <2> QED
        BY <1>2, <2>2, <2>3, HadIsRemembered DEF Same
<1>10. CASE Prune(m) \/ Enter(m)
    <2>1. lane[m].client # c \/ UNCHANGED client
        BY <1>1, <1>3, <1>10 DEF Prune, Enter
    <2>2. \/ UNCHANGED client
          \/ \E new : client' = [client EXCEPT ![lane[m].client] = new]
        BY <1>10 DEF Prune, Enter
    <2> QED
        BY <1>1, <1>4, <2>1, <2>2, OneTouched
<1>11. CASE TakesTab(m) \/ Drives(m)
    <2>1. Inside(m)
        BY <1>11 DEF TakesTab, Drives, Inside, At
    <2>2. lane[m].client # c
        BY <1>1, <2>1 DEF BracketInv, LocksHeld, Has
    <2>3. PICK new : LET clients == [client EXCEPT ![lane[m].client] = new] IN
                     client' = clients \/ client' = Remembered(clients)
        BY <1>11 DEF TakesTab, Drives, LeavesWith
    <2> DEFINE clients == [client EXCEPT ![lane[m].client] = new]
    <2>4. clients[c] = client[c]
        BY <1>1, <2>2 DEF ClientTypes
    <2>5. client'[c] = clients[c]
        <3> HIDE DEF clients
        <3>1. client' = clients \/ client' = Remembered(clients)
            BY <2>3 DEF clients
        <3> QED
            BY <1>2, <3>1, HadIsRemembered
    <2> QED
        BY <2>4, <2>5 DEF Same
<1>12. CASE Starts(m) \/ EnsureChrome(m) \/ (Look(m) /\ ~Recycle(m))
    BY <1>4, <1>12 DEF Starts, EnsureChrome, Look
<1> QED
    BY <1>6, <1>7, <1>8, <1>9, <1>10, <1>11, <1>12 DEF LaneStep

\* The world ends a lane's process or ages it, and no more.
LEMMA WorldWaits ==
    ASSUME KeeperInv, World, NEW c \in Clients
    PROVE  UNCHANGED lane /\ Same(client[c], client'[c])
<1>0. ClientTypes /\ client[c] \in ClientRow
    BY DEF KeeperInv, ClientTypes
<1>1. UNCHANGED lane
    BY DEF World, ChromeCloses, ServerFails, Ages, PassStarts, PassEnds, CooldownPasses,
           WindowPasses
<1>2. CASE ChromeCloses
    BY <1>0, <1>2 DEF ChromeCloses, ClientRow, Same
<1>3. ASSUME NEW d \in Clients, ServerFails(d) \/ Ages(d) PROVE Same(client[c], client'[c])
    <2>1. PICK new : /\ client' = [client EXCEPT ![d] = new]
                     /\ \/ \E s : new = [client[d] EXCEPT !.server = s]
                        \/ new = [client[d] EXCEPT !.aged = TRUE]
        BY <1>3 DEF ServerFails, Ages
    <2>2. d = c => Same(client[c], new)
        BY <1>0, <2>1 DEF ClientRow, Same
    <2> QED
        BY <1>0, <2>1, <2>2, OneTouched
<1>4. CASE PassStarts \/ PassEnds \/ CooldownPasses \/ WindowPasses
    BY <1>4 DEF PassStarts, PassEnds, CooldownPasses, WindowPasses, Same
<1> QED
    BY <1>1, <1>2, <1>3, <1>4 DEF World

\* Where a lane's own step leaves it.
LEMMA WhereItGoes ==
    ASSUME LaneTypes, NEW l \in Lanes
    PROVE  /\ \A step : Goes(l, step) => lane'[l].at = step /\ lane'[l].client = lane[l].client
           /\ \A step, d : Takes(l, step, d) => lane'[l].at = step /\ lane'[l].client = d
           /\ \A d : Settles(l, d) => lane'[l].at = "prune"
           /\ Ends(l) => lane'[l].at = "idle" /\ lane'[l].client = NoClient
<1>1. IsLane(lane[l])
    BY DEF LaneTypes
<1>2. ASSUME NEW new, lane' = [lane EXCEPT ![l] = new] PROVE lane'[l] = new
    BY <1>2 DEF LaneTypes
<1>3. ASSUME NEW step, Goes(l, step)
      PROVE  lane'[l].at = step /\ lane'[l].client = lane[l].client
    BY <1>1, <1>2, <1>3 DEF Goes, IsLane
<1>4. ASSUME NEW step, NEW d, Takes(l, step, d)
      PROVE  lane'[l].at = step /\ lane'[l].client = d
    BY <1>1, <1>2, <1>4 DEF Takes, IsLane
<1>5. ASSUME NEW d, Settles(l, d) PROVE lane'[l].at = "prune"
    <2>1. lane'[l] = [Away EXCEPT !.at = "prune", !.client = d]
        BY <1>2, <1>5 DEF Settles
    <2> QED
        BY <2>1 DEF Away
<1>6. ASSUME Ends(l) PROVE lane'[l].at = "idle" /\ lane'[l].client = NoClient
    <2>1. lane'[l] = Away
        BY <1>2, <1>6 DEF Ends
    <2> QED
        BY <2>1 DEF Away
<1> QED
    BY <1>3, <1>4, <1>5, <1>6

\* A lane that is inside after its own step has the lock: it has just taken it, or its
\* call left it alone.
LEMMA OwnStep ==
    ASSUME KeeperInv, BracketInv, NEW l \in Lanes, LaneStep(l), NEW c \in Clients, Has(l, c)'
    PROVE  client'[c].lock = l /\ lane'[l] # lane[l]
<1> USE DEF KeeperInv
<1>1. /\ IsLane(lane[l])
      /\ \A new : lane' = [lane EXCEPT ![l] = new] => lane'[l] = new
    BY DEF LaneTypes
<1>2. \A step : Goes(l, step) => lane'[l].at = step /\ lane'[l].client = lane[l].client
    BY WhereItGoes
<1>3. \A step, d : Takes(l, step, d) => lane'[l].at = step
    BY WhereItGoes
<1>4. (\A d : Settles(l, d) => lane'[l].at = "prune") /\ (Ends(l) => lane'[l].at = "idle")
    BY WhereItGoes
<1>5. lane'[l].at \in {"tab", "drive"} /\ lane'[l].client = c
    BY DEF Has, Inside
<1>6. CASE Enter(l)
    <2>1. lane[l].client = c /\ client' = [client EXCEPT ![c] = [client[c] EXCEPT !.lock = l]]
        BY <1>2, <1>5, <1>6 DEF Enter
    <2>2. client'[c].lock = l
        BY <2>1 DEF ClientTypes, ClientRow
    <2> QED
        BY <1>2, <1>6, <2>2 DEF Enter, At
<1>7. CASE TakesTab(l)
    <2>1. ~Ends(l)
        BY <1>4, <1>5
    <2>2. PICK a \in EnsureTab(client[lane[l].client]) :
            Goes(l, "drive") /\ client' = [client EXCEPT ![lane[l].client] = a.cl]
        BY <1>7, <2>1 DEF TakesTab, LeavesWith
    <2>3. lane[l].client = c /\ lane[l].at = "tab" /\ lane'[l].at = "drive"
        BY <1>2, <1>5, <1>7, <2>2 DEF TakesTab, At
    <2>4. client[c] \in ClientRow /\ Rests(client[c]) /\ client[c].lock = l
        BY <2>3 DEF ClientTypes, BracketInv, LocksHeld, Has, Inside
    <2>5. Keeps(client[c], a.cl)
        BY <2>2, <2>3, <2>4, TabKeeps
    <2>6. client'[c] = a.cl
        BY <2>2, <2>3 DEF ClientTypes
    <2> QED
        BY <2>3, <2>4, <2>5, <2>6 DEF Keeps
<1>8. CASE Drives(l)
    BY <1>4, <1>5, <1>8 DEF Drives, LeavesWith
<1>9. CASE Starts(l) \/ Evict(l) \/ Dispose(l) \/ Build(l) \/ Prune(l)
    BY <1>2, <1>3, <1>4, <1>5, <1>9 DEF Starts, Evict, Dispose, Build, Prune
<1>10. CASE EnsureChrome(l)
    <2>1. ~Ends(l)
        BY <1>4, <1>5
    <2>2. PICK p \in Ports : lane' = [lane EXCEPT ![l] = [lane[l] EXCEPT !.at = "look", !.port = p]]
        BY <1>10, <2>1 DEF EnsureChrome
    <2>3. lane'[l].at = "look"
        BY <1>1, <2>2 DEF IsLane
    <2> QED
        BY <1>5, <2>3
<1>11. CASE Look(l)
    BY <1>2, <1>3, <1>4, <1>5, <1>11 DEF Look, Recycle
<1> QED
    BY <1>6, <1>7, <1>8, <1>9, <1>10, <1>11 DEF LaneStep

\* A lane carries a client only from the factory's answer to the end of its run.
LEMMA EmptyHandsStep ==
    ASSUME KeeperInv, EmptyHands, NEW l \in Lanes, LaneStep(l)
    PROVE  lane'[l].at \in {"idle", "ensure", "look", "build"} => lane'[l].client = NoClient
<1> USE DEF KeeperInv
<1>1. /\ IsLane(lane[l])
      /\ \A new : lane' = [lane EXCEPT ![l] = new] => lane'[l] = new
    BY DEF LaneTypes
<1>2. \A step : Goes(l, step) => lane'[l].at = step /\ lane'[l].client = lane[l].client
    BY WhereItGoes
<1>3. \A step, d : Takes(l, step, d) => lane'[l].at = step /\ lane'[l].client = d
    BY WhereItGoes
<1>4. (\A d : Settles(l, d) => lane'[l].at = "prune") /\ (Ends(l) => lane'[l].client = NoClient)
    BY WhereItGoes
<1>5. CASE Starts(l)
    BY <1>2, <1>5 DEF Starts, EmptyHands, At
<1>6. CASE EnsureChrome(l)
    <2>1. ASSUME NEW p, lane' = [lane EXCEPT ![l] = [lane[l] EXCEPT !.at = "look", !.port = p]]
          PROVE  lane'[l].client = lane[l].client
        BY <1>1, <2>1 DEF IsLane
    <2> QED
        BY <1>4, <1>6, <2>1 DEF EnsureChrome, EmptyHands, At
<1>7. CASE Look(l)
    BY <1>2, <1>3, <1>4, <1>7 DEF Look, Recycle, EmptyHands, At
<1>8. CASE Evict(l) \/ Dispose(l) \/ Build(l)
    <2>1. Takes(l, "build", NoClient) \/ \E d : Settles(l, d)
        BY <1>8 DEF Evict, Dispose, Build
    <2> QED
        BY <1>3, <1>4, <2>1
<1>9. CASE Prune(l) \/ Enter(l)
    BY <1>2, <1>9 DEF Prune, Enter
<1>10. CASE TakesTab(l) \/ Drives(l)
    <2>1. Goes(l, "drive") \/ Ends(l)
        BY <1>10 DEF TakesTab, Drives, LeavesWith
    <2> QED
        BY <1>2, <1>4, <2>1
<1> QED
    BY <1>5, <1>6, <1>7, <1>8, <1>9, <1>10 DEF LaneStep

LEMMA BracketStep ==
    ASSUME KeeperInv, BracketInv, [Next]_vars
    PROVE  /\ BracketInv'
           /\ \A l \in Lanes, c \in Clients :
                Has(l, c) /\ lane'[l] = lane[l] => Same(client[c], client'[c])
<1>1. CASE UNCHANGED <<client, lane>>
    BY <1>1 DEF BracketInv, LocksHeld, EmptyHands, Has, Inside, Same
<1>2. CASE World
    <2>1. \A c \in Clients : UNCHANGED lane /\ Same(client[c], client'[c])
        BY <1>2, WorldWaits
    <2>2. EmptyHands'
        <3>1. UNCHANGED lane
            BY <1>2 DEF World, ChromeCloses, ServerFails, Ages, PassStarts, PassEnds,
                        CooldownPasses, WindowPasses
        <3> QED
            BY <3>1 DEF BracketInv, EmptyHands
    <2>3. \A l \in Lanes, c \in Clients : Has(l, c)' => Has(l, c)
        BY <2>1 DEF Has, Inside
    <2>4. LocksHeld'
        BY <2>1, <2>3 DEF BracketInv, LocksHeld, Same
    <2> QED
        BY <2>1, <2>2, <2>4 DEF BracketInv
<1>3. ASSUME NEW m \in Lanes, LaneStep(m)
      PROVE  /\ BracketInv'
             /\ \A l \in Lanes, c \in Clients :
                  Has(l, c) /\ lane'[l] = lane[l] => Same(client[c], client'[c])
    <2>1. ASSUME NEW l \in Lanes, l # m, NEW c \in Clients, Has(l, c)'
          PROVE  Has(l, c) /\ client'[c].lock = l
        <3>1. Has(l, c)
            BY <1>3, <2>1, OthersStay DEF Has, Inside
        <3> QED
            BY <1>3, <2>1, <3>1, OthersWait DEF Same, BracketInv, LocksHeld
    <2>2. LocksHeld'
        BY <1>3, <2>1, OwnStep DEF LocksHeld
    <2>3. EmptyHands'
        BY <1>3, OthersStay, EmptyHandsStep DEF EmptyHands, BracketInv
    <2>4. ASSUME NEW l \in Lanes, NEW c \in Clients, Has(l, c), lane'[l] = lane[l]
          PROVE  Same(client[c], client'[c])
        <3>1. l # m
            BY <1>3, <2>4, OwnStep DEF Has, Inside
        <3> QED
            BY <1>3, <2>4, <3>1, OthersWait
    <2> QED
        BY <2>2, <2>3, <2>4 DEF BracketInv
<1> QED
    BY <1>1, <1>2, <1>3 DEF Next, vars, Turns, Others, browser

\* Whatever lanes there are and wherever in the factory they stand, a lane inside its
\* bracket keeps the lock, and its client is not closed, moved or called by another
\* (client.py exclusive and close, daemon.py "always between operations").
THEOREM NeverPulledAway == Spec => BracketIsWhole
<1>1. Init => BracketInv
    BY DEF Init, Away, BracketInv, LocksHeld, EmptyHands, Has, Inside
<1>2. KeeperInv /\ BracketInv /\ [Next]_vars => BracketInv'
    BY BracketStep
<1>3. KeeperInv /\ BracketInv /\ [Next]_vars =>
        [\A l \in Lanes, c \in Clients :
            Has(l, c) /\ lane'[l] = lane[l] =>
                /\ client'[c].lock = l
                /\ \A f \in {"retired", "port", "tab", "streak"} :
                       client'[c][f] = client[c][f]]_vars
    BY BracketStep DEF Same, BracketInv, LocksHeld
<1> QED
    BY <1>1, <1>2, <1>3, KeeperHolds, PTL DEF Spec, BracketIsWhole
=============================================================================
