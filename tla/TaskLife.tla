------------------------------- MODULE TaskLife -------------------------------
(***************************************************************************)
(* What the service promises of its tasks, whatever sessions, locks and    *)
(* threads are behind them: tasks have the machine one at a time and once  *)
(* each, a cancel that was acknowledged in time is kept, the result file   *)
(* goes with the status, and a task's connection outlives its work.        *)
(***************************************************************************)
CONSTANT Tasks

VARIABLES status,     \* "absent", "pending", "running", or how the task ended
          result,     \* what its result file says, "none" without one
          cancelled,  \* "never", or when a cancel came in time: "waiting", "running"
          turn,       \* its turn on the machine: "before", "now" or "after"
          connected   \* the tasks and requests that hold a connection

lifeVars == <<status, result, cancelled, turn, connected>>

Ended(t) == status[t] \in {"completed", "failed", "cancelled"}
Turns(t, from, to) == turn[t] = from /\ turn' = [turn EXCEPT ![t] = to]
Becomes(t, value) == status' = [status EXCEPT ![t] = value]
Leaves(t, values) == \E value \in values : result' = [result EXCEPT ![t] = value]

Init ==
    /\ status = [t \in Tasks |-> "absent"] /\ result = [t \in Tasks |-> "none"]
    /\ cancelled = [t \in Tasks |-> "never"] /\ turn = [t \in Tasks |-> "before"]
    /\ connected = {}

\* A connection is taken before there is a task.
Connects(t) ==
    /\ status[t] = "absent" /\ t \notin connected /\ connected' = connected \union {t}
    /\ UNCHANGED <<status, result, cancelled, turn>>

\* It is given back when there will be no task, or when the task is over.
Disconnects(t) ==
    /\ t \in connected /\ connected' = connected \ {t}
    /\ status[t] = "absent" \/ (Ended(t) /\ turn[t] = "after")
    /\ UNCHANGED <<status, result, cancelled, turn>>

IsSubmitted(t) ==
    /\ status[t] = "absent" /\ Becomes(t, "pending")
    /\ UNCHANGED <<result, cancelled, turn, connected>>

\* One task has the machine at a time.
TakesTurn(t) ==
    /\ status[t] = "pending" /\ (\A u \in Tasks : turn[u] # "now") /\ Turns(t, "before", "now")
    /\ UNCHANGED <<status, result, cancelled, connected>>

\* A task that could not be prepared gives its turn up before it has failed.
EndsTurn(t) ==
    /\ Ended(t) \/ status[t] = "pending"
    /\ Turns(t, "now", "after")
    /\ UNCHANGED <<status, result, cancelled, connected>>

\* A cancel in time.  One that meets a task which waits keeps it from running; a
\* client cannot know whether the worker had looked before its cancel came.
IsCancelled(t, when) ==
    /\ cancelled[t] = "never" /\ turn[t] # "after"
    /\ status[t] = "pending" \/ (status[t] = "running" /\ when = "running")
    /\ cancelled' = [cancelled EXCEPT ![t] = when]
    /\ UNCHANGED <<status, result, turn, connected>>

Starts(t) ==
    /\ status[t] = "pending" /\ turn[t] = "now" /\ cancelled[t] # "waiting"
    /\ Becomes(t, "running")
    /\ UNCHANGED <<result, cancelled, turn, connected>>

WritesResult(t) ==
    /\ status[t] = "running" /\ turn[t] = "now"
    /\ Leaves(t, {"running", "unavailable", "completed"})
    /\ UNCHANGED <<status, cancelled, turn, connected>>

Completes(t) ==
    /\ status[t] = "running" /\ turn[t] = "now" /\ cancelled[t] = "never"
    /\ result[t] \in {"none", "unavailable", "completed"}
    /\ Becomes(t, "completed")
    /\ UNCHANGED <<result, cancelled, turn, connected>>

EndsCancelled(t) ==
    /\ status[t] \in {"pending", "running"} /\ turn[t] = "now" /\ cancelled[t] # "never"
    /\ Leaves(t, {result[t], "cancelled"} \ {"running"})
    /\ Becomes(t, "cancelled")
    /\ UNCHANGED <<cancelled, turn, connected>>

Fails(t) ==
    /\ \/ status[t] = "running" /\ turn[t] = "now"
       \/ status[t] = "pending" /\ turn[t] = "after"
    /\ Leaves(t, {"none", "failed"})
    /\ Becomes(t, "failed")
    /\ UNCHANGED <<cancelled, turn, connected>>

TaskStep(t) ==
    \/ Connects(t) \/ Disconnects(t) \/ IsSubmitted(t)
    \/ TakesTurn(t) \/ EndsTurn(t) \/ (\E when \in {"waiting", "running"} : IsCancelled(t, when))
    \/ Starts(t) \/ WritesResult(t)
    \/ Completes(t) \/ EndsCancelled(t) \/ Fails(t)

Next == \E t \in Tasks : TaskStep(t)

Spec == Init /\ [][Next]_lifeVars

=============================================================================
