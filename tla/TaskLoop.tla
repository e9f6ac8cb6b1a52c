------------------------------ MODULE TaskLoop ------------------------------
(***************************************************************************)
(* The scheduler: one loop claims the tasks that are due and hands them to *)
(* a few workers, and what a run leaves behind decides when its task is    *)
(* due again.  The channel manager takes the drain lane away and puts the  *)
(* next provider's under the same name while a run of the old one may      *)
(* still be going.  Time is a task becoming due.                           *)
(***************************************************************************)
EXTENDS Naturals, FiniteSets

CONSTANTS
    Tasks,          \* the names tasks are registered under
    Replaceable,    \* those a provider switch takes away and registers anew
    Workers,        \* how many runs go at once
    FloatExponent,  \* the first power of two no float can hold
    MaxFailures,    \* bound: consecutive failures told apart, not FloatExponent itself
    MaxSwaps        \* bound: provider switches

ASSUME TaskLoopAssumption ==
    /\ IsFiniteSet(Tasks) /\ Replaceable \subseteq Tasks
    /\ Workers \in Nat \ {0}
    /\ {FloatExponent, MaxFailures, MaxSwaps} \subseteq Nat /\ MaxFailures # FloatExponent

VARIABLES
    task,           \* the registry: whether a name is taken, and its _TaskState
    runs,           \* the runs submitted and not over, begun or waiting for a worker
    swaps           \* how often a provider was started (a bound only)

loop == <<task, runs, swaps>>

\* Due on the first tick after it is registered.
FreshTask == [on |-> TRUE, running |-> FALSE, failures |-> 0, due |-> TRUE]

\* A provider's task is there from the start if the provider was configured already.
LoopInit ==
    /\ \E off \in SUBSET Replaceable :
           task = [t \in Tasks |-> [FreshTask EXCEPT !.on = t \notin off]]
    /\ runs = {} /\ swaps \in 0..MaxSwaps

RunsOf(t) == {r \in runs : r.task = t}
Begun     == {r \in runs : r.begun}

-----------------------------------------------------------------------------

Due == {t \in Tasks : task[t].on /\ ~task[t].running /\ task[t].due}

\* A run is told from another of its task by its number.
Submitted(t) == [task |-> t, begun |-> FALSE,
                 n |-> CHOOSE n \in 0..Cardinality(runs) : \A r \in RunsOf(t) : r.n # n]

\* Mutant: a claim that leaves the mark to the worker.
Claimed_Unmarked(t) == [task[t] EXCEPT !.due = FALSE]

Claimed(t) == [task[t] EXCEPT !.running = TRUE, !.due = FALSE]

Tick ==
    /\ Due # {}
    /\ task' = [t \in Tasks |-> IF t \in Due THEN Claimed(t) ELSE task[t]]
    /\ runs' = runs \cup {Submitted(t) : t \in Due}
    /\ UNCHANGED swaps

\* Both the interval since the claim and the back-off, if there is one, have passed;
\* while the task runs nobody asks.
TimePasses(t) ==
    /\ task[t].on /\ ~task[t].running /\ ~task[t].due
    /\ task' = [task EXCEPT ![t].due = TRUE]
    /\ UNCHANGED <<runs, swaps>>

Begin(r) ==
    /\ r \in runs /\ ~r.begun
    /\ Cardinality(Begun) < Workers
    /\ runs' = (runs \ {r}) \cup {[r EXCEPT !.begun = TRUE]}
    /\ UNCHANGED <<task, swaps>>

\* The delay doubles with every failure before it is capped; a power the float cannot
\* hold raises before the flag is cleared.
Countable(failures) == failures <= FloatExponent

Succeeded(st) == [st EXCEPT !.failures = 0, !.running = FALSE]
Failed(st) ==
    LET failures == st.failures + 1
        counted  == IF failures > MaxFailures THEN MaxFailures ELSE failures
    IN  IF Countable(failures)
        THEN [st EXCEPT !.failures = counted, !.due = FALSE, !.running = FALSE]
        ELSE [st EXCEPT !.failures = counted]

\* The outcome is written to whatever task has the name by now.
Over(r, ok) ==
    /\ r \in Begun
    /\ runs' = runs \ {r}
    /\ task' = IF ~task[r.task].on THEN task
               ELSE [task EXCEPT ![r.task] = IF ok THEN Succeeded(@) ELSE Failed(@)]
    /\ UNCHANGED swaps

-----------------------------------------------------------------------------
(* A provider switch.  The handle's shutdown joins its receive thread and  *)
(* its typing thread, and not a run of the lane it deregisters.            *)

Deregister(t) ==
    /\ t \in Replaceable /\ task[t].on /\ swaps < MaxSwaps
    /\ task' = [task EXCEPT ![t] = [FreshTask EXCEPT !.on = FALSE]]
    /\ UNCHANGED <<runs, swaps>>

Register(t) ==
    /\ t \in Replaceable /\ ~task[t].on /\ swaps < MaxSwaps
    /\ task' = [task EXCEPT ![t] = FreshTask]
    /\ swaps' = swaps + 1
    /\ UNCHANGED runs

Work(Mine) ==
    \/ \E r \in runs : r.task \in Mine /\ (Begin(r) \/ \E ok \in BOOLEAN : Over(r, ok))
    \/ \E t \in Mine : Deregister(t) \/ Register(t)

LoopTurn == Tick \/ \E t \in Tasks : TimePasses(t)

LoopNext == LoopTurn \/ Work(Tasks)
LoopSpec == LoopInit /\ [][LoopNext]_loop

-----------------------------------------------------------------------------
(* Properties.                                                             *)

\* "A task never runs concurrently with itself", and comes back after it: a task that no
\* switch replaces is marked as running exactly while it has its one run, which is what
\* the tick goes by; only a back-off no float can hold leaves the mark without a run
\* (scheduler.py, the in-flight guard and _backoff_delay).
MarkIsRun ==
    \A t \in Tasks \ Replaceable :
        /\ \A q, r \in RunsOf(t) : q = r
        /\ RunsOf(t) # {} => task[t].running
        /\ task[t].running => RunsOf(t) # {} \/ ~Countable(task[t].failures)
=============================================================================
