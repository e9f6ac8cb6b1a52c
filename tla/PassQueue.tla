----------------------------- MODULE PassQueue -----------------------------
(***************************************************************************)
(* The queue of headless passes (store/passes.py), the lane that runs them *)
(* one at a time (passes.py) and the process each of them is               *)
(* (proc_tree.py).  A row outlives the daemon; the token that lets its     *)
(* process call the tools, and the babysitter that kills the process at    *)
(* its deadline, do not, so a process left over from a daemon that was     *)
(* killed is let in no more, and is not modelled further.  The token is    *)
(* read once, as a request comes in (http_server.py): a call already let   *)
(* in runs on in its own thread of the daemon, whatever becomes of the     *)
(* process that asked, of its row and of its token.                        *)
(***************************************************************************)
EXTENDS Integers, Sequences, FiniteSets, SequencesExt

CONSTANTS
    MaxStops,       \* bound: the times the daemon stops or is killed
    MaxCalls        \* bound: the tool calls at work at once, one fewer for each stop

ASSUME PassQueueAssumption == MaxStops \in Nat /\ MaxCalls \in Nat

VARIABLES
    passes,         \* the rows of passes, by age: type, claim, status, class
    lane,           \* what pass_lane is doing: the pass it runs and where it is
    tokens,         \* the passes that hold a bearer token of this daemon
    calls,          \* the passes a tool call of whose was let in and has done nothing yet
    overdue,        \* the running rows started longer ago than deadline and slack
    daemon,         \* "up" or "down"
    paused,         \* the pause flag of the control row
    stops           \* the times the daemon stopped so far

queue == <<passes, lane, tokens, calls, overdue, daemon, paused, stops>>

Terminal == {"done", "error"}
Resting  == [pass |-> 0, at |-> "idle"]

QueueInit ==
    /\ passes = <<>> /\ lane = Resting
    /\ tokens = {} /\ calls = {} /\ overdue = {}
    /\ daemon = "up" /\ paused = FALSE /\ stops \in 0..MaxStops

-----------------------------------------------------------------------------
(* The rows.                                                               *)

PassIds      == DOMAIN passes
Active(type) == {p \in PassIds : /\ passes[p].type = type
                                 /\ passes[p].status \in {"queued", "running"}}
\* Mutant: nobody fails the rows a dead daemon left running.
Stale_Never  == {}
Stale        == {p \in overdue : passes[p].status = "running"}

Enqueued(type, claim) ==
    passes' = Append(passes, [type |-> type, claim |-> claim,
                              status |-> "queued", class |-> "none"])

\* The rows after the passes of ps have settled.
Finished(ps, status, class) ==
    [p \in PassIds |-> IF p \in ps
                       THEN [passes[p] EXCEPT !.status = status, !.class = class]
                       ELSE passes[p]]

-----------------------------------------------------------------------------
(* The lane.  One tick fails the rows a dead daemon left running, paused   *)
(* or not, then claims the oldest queued row and runs it to the end.       *)

Swept   == Finished(Stale, "error", "fault")
Waits   == {p \in PassIds : Swept[p].status = "queued"}

PassLane ==
    /\ daemon = "up" /\ lane.at = "idle"
    /\ \/ /\ paused \/ Waits = {}
          /\ Stale # {}
          /\ passes' = Swept /\ UNCHANGED lane
       \/ /\ ~paused
          /\ \E p \in Waits :
               /\ \A q \in Waits : p <= q
               /\ passes' = [Swept EXCEPT ![p].status = "running"]
               /\ lane' = [pass |-> p, at |-> "claimed"]
    /\ overdue' = overdue \ Stale
    /\ UNCHANGED <<tokens, calls, daemon, paused, stops>>

\* A payload that can only fail, or a harness that does not start, settles the row at
\* once: validate_payload and build_prompt read the store as it is now.
SpawnError ==
    /\ lane.at = "claimed"
    /\ passes' = Finished({lane.pass}, "error", "fault")
    /\ lane' = Resting
    /\ UNCHANGED <<tokens, calls, overdue, daemon, paused, stops>>

\* Staging photos or starting the process raises: the token is revoked on the way out and
\* the row is left running, for the sweep.
SpawnRaises ==
    /\ lane.at = "claimed"
    /\ lane' = Resting
    /\ UNCHANGED <<passes, tokens, calls, overdue, daemon, paused, stops>>

Spawn ==
    /\ lane.at = "claimed"
    /\ tokens' = tokens \cup {lane.pass}
    /\ lane' = [lane EXCEPT !.at = "watching"]
    /\ UNCHANGED <<passes, calls, overdue, daemon, paused, stops>>

\* The process ends by itself: a clean exit or not.
Exits(rc) ==
    /\ lane.at = "watching"
    /\ lane' = [lane EXCEPT !.at = rc]
    /\ UNCHANGED <<passes, tokens, calls, overdue, daemon, paused, stops>>

\* The babysitter, at the deadline or when it finds the pause set, signals the whole group
\* and waits until it is gone.
Babysits(why) ==
    /\ lane.at = "watching"
    /\ why = "timeout" \/ paused
    /\ lane' = [lane EXCEPT !.at = "fault"]
    /\ UNCHANGED <<passes, tokens, calls, overdue, daemon, paused, stops>>

\* progressed is what the pass type says of a clean exit.  Every other class (error,
\* timeout, paused, stopped, stale, spawn_error) settles a row the same way.
Classify(progressed) ==
    IF lane.at = "ok" /\ ~progressed THEN "no_send" ELSE lane.at

\* finish_pass writes the row; the token still stands.
FinishPass(progressed) ==
    LET class == Classify(progressed)
    IN  /\ lane.at \in {"ok", "fault"}
        /\ passes' = Finished({lane.pass}, IF class = "ok" THEN "done" ELSE "error", class)
        /\ lane' = [lane EXCEPT !.at = "settled"]
        /\ UNCHANGED <<tokens, calls, overdue, daemon, paused, stops>>

\* Mutant: the run ends with its token in place.
RevokeToken_Keeps ==
    /\ lane.at = "settled"
    /\ lane' = Resting
    /\ UNCHANGED <<passes, tokens, calls, overdue, daemon, paused, stops>>

\* The finally of run_pass.
RevokeToken ==
    /\ lane.at = "settled"
    /\ tokens' = tokens \ {lane.pass}
    /\ lane' = Resting
    /\ UNCHANGED <<passes, calls, overdue, daemon, paused, stops>>

\* A request that carries a token is let in, one of a pass at a time; its process may be
\* dead by the time it is read.  Calls that change nothing are not followed.
LetIn ==
    /\ Cardinality(calls) + stops < MaxCalls
    /\ \E p \in tokens \ calls : calls' = calls \cup {p}
    /\ UNCHANGED <<passes, lane, tokens, overdue, daemon, paused, stops>>

-----------------------------------------------------------------------------
(* Time and the daemon's life.                                             *)

\* Deadline and slack pass for a row no babysitter is watching; under one the process
\* is dead and the row settled before that.
GoesOverdue(p) ==
    /\ p \in PassIds \ overdue /\ passes[p].status = "running" /\ p # lane.pass
    /\ overdue' = overdue \cup {p}
    /\ UNCHANGED <<passes, lane, tokens, calls, daemon, paused, stops>>

SetPaused ==
    /\ daemon = "up"
    /\ paused' = ~paused
    /\ UNCHANGED <<passes, lane, tokens, calls, overdue, daemon, stops>>

Gone(rows) ==
    /\ daemon = "up" /\ stops < MaxStops
    /\ daemon' = "down" /\ stops' = stops + 1
    /\ passes' = rows
    /\ lane' = Resting /\ tokens' = {} /\ calls' = {}
    /\ UNCHANGED <<overdue, paused>>

\* A stop waits for the lane: the babysitter hears it, kills the pass and its row is
\* settled before the process ends.
Stops ==
    \/ lane.at = "idle" /\ Gone(passes)
    \/ lane.at = "watching" /\ Gone(Finished({lane.pass}, "error", "fault"))

Killed == Gone(passes)

Starts ==
    /\ daemon = "down"
    /\ daemon' = "up"
    /\ UNCHANGED <<passes, lane, tokens, calls, overdue, paused, stops>>

\* What runs without the contents of a claim.
QueueStep ==
    \/ PassLane \/ SpawnError \/ SpawnRaises \/ Spawn
    \/ \E rc \in {"ok", "fault"} : Exits(rc)
    \/ \E why \in {"timeout", "paused"} : Babysits(why)
    \/ RevokeToken \/ LetIn
    \/ \E p \in PassIds : GoesOverdue(p)
    \/ SetPaused \/ Stops \/ Killed \/ Starts
=============================================================================
