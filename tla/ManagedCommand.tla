--------------------------- MODULE ManagedCommand ---------------------------
(***************************************************************************)
(* SSHRunner.run_cancellable of runner/ssh_runner.py, one call of it: the   *)
(* local thread that polls the channel, the shell that supervises the      *)
(* command on the machine, the command's process group, and the second     *)
(* shell that finds the group by its pid file and stops it.                *)
(*                                                                         *)
(* The waits of the stop shell (TERM, 5 s, KILL, 2 s) are one step each way:*)
(* the group is gone in time, or it is not.  setsid(1) leads its group from*)
(* the moment its environment can be read, and a pid is not reused while   *)
(* the stop shell runs.  Output that the loops outrun is one write between *)
(* two visits of theirs; only a flood refills the channel while they read. *)
(***************************************************************************)
EXTENDS Naturals

CONSTANT CommandFaults  \* what may go wrong besides a cancel and a timeout

FaultKinds == {"link",        \* the connection breaks for good, or refuses a channel
               "silence",     \* nothing gets through any more and nobody notices
               "flood",       \* the group writes faster than the loops read
               "error",       \* a call inside the polling loop raises
               "unkillable",  \* the group survives TERM and KILL
               "setsid",      \* the machine has no setsid
               "slow",        \* the supervisor's exit takes more than the grace period
               "helpers"}     \* the command leaves processes of its group behind

ASSUME FaultsKnown == CommandFaults \subseteq FaultKinds

VARIABLES thread,           \* where the local thread stands
          cancelRequested,  \* should_cancel()
          overdue,          \* effective_timeout has passed
          why,              \* what ended the polling: cancelled, timed_out or the exception
          stopVerified,     \* stop_verified, or cleanup_verified after an exception
          answer,           \* the CommandResult, as far as the callers tell results apart
          link,             \* the SSH connection works, as far as the local side knows
          silent,           \* nothing gets through it any more
          heard,            \* the shells whose exit status has arrived
          closed,           \* the local thread closed the channel
          output,           \* bytes wait in the channel
          flooding,         \* the group writes faster than the loops read
          supervisor,       \* the shell that starts and awaits the command
          pidFile,          \* its pid file exists
          leader,           \* the command itself, leader of its process group
          helpers,          \* other processes of the group run
          stopper           \* the shell that stops the group

callVars == <<thread, why, stopVerified, answer, closed>>
requestVars == <<cancelRequested, overdue>>
wireVars == <<link, silent, heard, output, flooding>>
remoteVars == <<supervisor, pidFile, leader, helpers>>
commandVars == <<callVars, requestVars, wireVars, remoteVars, stopper>>

StopReasons == {"cancelled", "timed_out", "error"}

\* The variables hold what the two shells and the thread keep in them.
CommandTypes ==
    /\ thread \in {"guard", "opening", "poll", "draining", "checks", "stop", "stopping", "grace",
                   "collecting", "returned"}
    /\ cancelRequested \in BOOLEAN /\ overdue \in BOOLEAN
    /\ why \in StopReasons \union {"none"}
    /\ stopVerified \in BOOLEAN
    /\ answer \in {"none", "denied", "exited", "stopped", "unverified"}
    /\ link \in BOOLEAN /\ silent \in BOOLEAN /\ heard \subseteq {"supervisor", "stopper"}
    /\ closed \in BOOLEAN /\ output \in BOOLEAN /\ flooding \in BOOLEAN
    /\ supervisor \in {"absent", "started", "launched", "waiting", "hangup", "reaped", "exited"}
    /\ pidFile \in BOOLEAN
    /\ leader \in {"none", "forked", "grouped", "gone"}
    /\ helpers \in BOOLEAN
    /\ stopper \in {"idle", "started", "signalled", "confirmed", "refused"}

CommandInit ==
    /\ thread = "guard" /\ why = "none" /\ stopVerified = FALSE /\ answer = "none" /\ closed = FALSE
    /\ cancelRequested = FALSE /\ overdue = FALSE
    /\ link = TRUE /\ silent = FALSE /\ heard = {} /\ output = FALSE /\ flooding = FALSE
    /\ supervisor = "absent" /\ pidFile = FALSE /\ leader = "none" /\ helpers = FALSE
    /\ stopper = "idle"

\* exit_status_ready(): the supervisor's status has arrived, or the channel is closed.
StatusReady == "supervisor" \in heard \/ ~link \/ closed

GroupRuns == leader = "grouped" \/ helpers

\* What is sent from the machine arrives.
Arrives == link /\ ~silent

\* A shell exits, and its status gets through or does not.
ExitOf(shell) == heard' = IF Arrives THEN heard \union {shell} ELSE heard

Floods == flooding /\ GroupRuns /\ Arrives /\ ~closed

-----------------------------------------------------------------------------
\* The local thread.

Goto(place) == thread' = place /\ UNCHANGED <<why, stopVerified, answer, closed>>

ReturnsWith(result) ==
    /\ thread' = "returned" /\ answer' = result
    /\ UNCHANGED <<why, stopVerified, closed>>

\* The command guard refuses the command, the supervisor or a device override.
Denied ==
    /\ thread = "guard"
    /\ ReturnsWith("denied")
    /\ UNCHANGED <<requestVars, wireVars, remoteVars, stopper>>

Guarded ==
    /\ thread = "guard"
    /\ Goto("opening")
    /\ UNCHANGED <<requestVars, wireVars, remoteVars, stopper>>

Opens ==
    /\ thread = "opening" /\ Arrives
    /\ Goto("poll")
    /\ supervisor' = "started"
    /\ UNCHANGED <<requestVars, wireVars, pidFile, leader, helpers, stopper>>

\* exec_command raises: there is no channel, so nothing is stopped and nothing is
\* verified; the machine may have got the request all the same.
OpenRaises ==
    /\ thread = "opening" /\ ("link" \in CommandFaults \/ ~Arrives)
    /\ ReturnsWith("unverified")
    /\ supervisor' \in {"absent"} \union (IF Arrives THEN {} ELSE {"started"})
    /\ UNCHANGED <<requestVars, wireVars, pidFile, leader, helpers, stopper>>

\* The loop's condition, then the two inner loops that empty the channel.
PollReads ==
    /\ thread = "poll"
    /\ Goto(IF StatusReady THEN "collecting" ELSE "draining")
    /\ UNCHANGED <<requestVars, wireVars, remoteVars, stopper>>

\* What was written meanwhile is read as well, for as long as there is any.
Reads ==
    /\ thread \in {"draining", "collecting"} /\ output
    /\ output' = Floods
    /\ UNCHANGED <<callVars, requestVars, link, silent, heard, flooding, remoteVars, stopper>>

Drained ==
    /\ thread = "draining" /\ ~output
    /\ Goto("checks")
    /\ UNCHANGED <<requestVars, wireVars, remoteVars, stopper>>

Breaks(reason) ==
    /\ thread' = "stop" /\ why' = reason
    /\ UNCHANGED <<stopVerified, answer, closed, requestVars, wireVars, remoteVars, stopper>>

ChecksCancelOnly ==  \* mutant: the timeout is not looked at
    /\ thread = "checks"
    /\ IF cancelRequested THEN Breaks("cancelled")
       ELSE Goto("poll") /\ UNCHANGED <<requestVars, wireVars, remoteVars, stopper>>

\* should_cancel() first, the timeout second.
Checks ==
    /\ thread = "checks"
    /\ IF cancelRequested THEN Breaks("cancelled")
       ELSE IF overdue THEN Breaks("timed_out")
       ELSE Goto("poll") /\ UNCHANGED <<requestVars, wireVars, remoteVars, stopper>>

Raises ==
    /\ thread \in {"draining", "checks"} /\ "error" \in CommandFaults
    /\ Breaks("error")

\* stop_managed_process_group: a second exec_command on the same connection.
StopStarts ==
    /\ thread = "stop" /\ Arrives
    /\ Goto("stopping")
    /\ stopper' = "started"
    /\ UNCHANGED <<requestVars, wireVars, remoteVars>>

AnyStopCounts == TRUE  \* mutant: the exit code of the stop shell is not looked at
StopSucceeded == stopper = "confirmed" /\ "stopper" \in heard

\* The stop shell's exit code, or its failure when there is no channel for it.  The wait
\* for the code has no timeout: only its arrival or a broken connection ends it.
StopOver ==
    \/ thread = "stop" /\ (~Arrives \/ "link" \in CommandFaults)
    \/ thread = "stopping" /\ ("stopper" \in heard \/ ~link)

\* After a cancel or a timeout the supervisor is given five seconds to exit.
StopAnswered ==
    /\ StopOver /\ why # "error"
    /\ stopVerified' = StopSucceeded
    /\ thread' = "grace"
    /\ UNCHANGED <<why, answer, closed, requestVars, wireVars, remoteVars, stopper>>

\* After an exception the channel is closed at once.
CleanedUp ==
    /\ StopOver /\ why = "error"
    /\ stopVerified' = StopSucceeded
    /\ closed' = TRUE
    /\ thread' = "returned" /\ answer' = IF StopSucceeded THEN "stopped" ELSE "unverified"
    /\ UNCHANGED <<why, requestVars, wireVars, remoteVars, stopper>>

GraceSees ==
    /\ thread = "grace" /\ StatusReady
    /\ Goto("collecting")
    /\ UNCHANGED <<requestVars, wireVars, remoteVars, stopper>>

\* A supervisor that does not exit in time makes the stop unverified.
GraceExpires ==
    /\ thread = "grace" /\ ~StatusReady
    /\ leader = "grouped" \/ silent \/ "slow" \in CommandFaults
    /\ closed' = TRUE /\ stopVerified' = FALSE /\ thread' = "collecting"
    /\ UNCHANGED <<why, answer, requestVars, wireVars, remoteVars, stopper>>

\* The result: an exit code (-1 when the connection broke), or what became of the stop.
Result ==
    IF why = "none" THEN "exited" ELSE IF stopVerified THEN "stopped" ELSE "unverified"

Collected ==
    /\ thread = "collecting" /\ ~output
    /\ ReturnsWith(Result)
    /\ UNCHANGED <<requestVars, wireVars, remoteVars, stopper>>

Local ==
    \/ Denied \/ Guarded \/ Opens \/ OpenRaises \/ PollReads \/ Reads \/ Drained \/ Checks \/ Raises
    \/ StopStarts \/ StopAnswered \/ CleanedUp \/ GraceSees \/ GraceExpires \/ Collected

-----------------------------------------------------------------------------
\* The supervising shell and the command.

\* setsid is missing: exit 69 before anything is started.
SupervisorRefuses ==
    /\ supervisor = "started" /\ "setsid" \in CommandFaults
    /\ supervisor' = "exited" /\ ExitOf("supervisor")
    /\ UNCHANGED <<callVars, requestVars, link, silent, output, flooding, pidFile, leader, helpers,
                   stopper>>

Launches ==
    /\ supervisor = "started"
    /\ supervisor' = "launched" /\ leader' = "forked"
    /\ UNCHANGED <<callVars, requestVars, wireVars, pidFile, helpers, stopper>>

WritesPid ==
    /\ supervisor = "launched"
    /\ supervisor' = "waiting" /\ pidFile' = TRUE
    /\ UNCHANGED <<callVars, requestVars, wireVars, leader, helpers, stopper>>

\* wait returns; child='' keeps the trap from signalling a group that is done.
Reaps ==
    /\ supervisor \in {"waiting", "hangup"} /\ leader = "gone"
    /\ supervisor' = "reaped"
    /\ UNCHANGED <<callVars, requestVars, wireVars, pidFile, leader, helpers, stopper>>

\* A signal, possible once the channel is gone: the trap sends TERM and waits.
HangsUp ==
    /\ supervisor \in {"launched", "waiting"} /\ (closed \/ ~Arrives)
    /\ supervisor' = "hangup"
    /\ UNCHANGED <<callVars, requestVars, wireVars, pidFile, leader, helpers, stopper>>

\* The EXIT trap removes the pid file.
Exits ==
    /\ supervisor = "reaped"
    /\ supervisor' = "exited" /\ pidFile' = FALSE /\ ExitOf("supervisor")
    /\ UNCHANGED <<callVars, requestVars, link, silent, output, flooding, leader, helpers, stopper>>

Supervisor == SupervisorRefuses \/ Launches \/ WritesPid \/ Reaps \/ Exits

\* The forked child becomes setsid, a group and its command.
Groups ==
    /\ leader = "forked"
    /\ leader' = "grouped"
    /\ UNCHANGED <<callVars, requestVars, wireVars, supervisor, pidFile, helpers, stopper>>

Ends ==
    /\ leader \in {"forked", "grouped"}
    /\ leader' = "gone"
    /\ UNCHANGED <<callVars, requestVars, wireVars, supervisor, pidFile, helpers, stopper>>

HelperStarts ==
    /\ leader = "grouped" /\ ~helpers /\ "helpers" \in CommandFaults
    /\ helpers' = TRUE
    /\ UNCHANGED <<callVars, requestVars, wireVars, supervisor, pidFile, leader, stopper>>

HelpersEnd ==
    /\ helpers
    /\ helpers' = FALSE
    /\ UNCHANGED <<callVars, requestVars, wireVars, supervisor, pidFile, leader, stopper>>

Writes ==
    /\ GroupRuns /\ Arrives /\ ~closed /\ ~output
    /\ thread \notin {"draining", "collecting"}
    /\ output' = TRUE
    /\ UNCHANGED <<callVars, requestVars, link, silent, heard, flooding, remoteVars, stopper>>

FloodTurns ==
    /\ GroupRuns /\ "flood" \in CommandFaults
    /\ flooding' = ~flooding
    /\ UNCHANGED <<callVars, requestVars, link, silent, heard, output, remoteVars, stopper>>

Command == Groups \/ Ends \/ HelperStarts \/ HelpersEnd \/ Writes \/ FloodTurns

-----------------------------------------------------------------------------
\* The stop shell.

\* The pid file, and the token in the environment of the process it names.
FindsGroup == pidFile /\ leader = "grouped"

StopRefuses ==
    /\ stopper = "started" /\ ~FindsGroup
    /\ stopper' = "refused" /\ ExitOf("stopper")
    /\ UNCHANGED <<callVars, requestVars, link, silent, output, flooding, remoteVars>>

StopSignals ==
    /\ stopper = "started" /\ FindsGroup
    /\ stopper' = "signalled"
    /\ UNCHANGED <<callVars, requestVars, wireVars, remoteVars>>

\* kill -0 finds nobody: the pid file goes, exit 0.
StopConfirms ==
    /\ stopper = "signalled" /\ ~GroupRuns
    /\ stopper' = "confirmed" /\ pidFile' = FALSE /\ ExitOf("stopper")
    /\ UNCHANGED <<callVars, requestVars, link, silent, output, flooding, supervisor, leader,
                   helpers>>

GivesUpQuietly ==  \* mutant: exit 0 although kill -0 still finds the group
    /\ stopper = "signalled" /\ GroupRuns /\ "unkillable" \in CommandFaults
    /\ stopper' = "confirmed" /\ pidFile' = FALSE /\ ExitOf("stopper")
    /\ UNCHANGED <<callVars, requestVars, link, silent, output, flooding, supervisor, leader,
                   helpers>>

StopGivesUp ==
    /\ stopper = "signalled" /\ GroupRuns /\ "unkillable" \in CommandFaults
    /\ stopper' = "refused" /\ ExitOf("stopper")
    /\ UNCHANGED <<callVars, requestVars, link, silent, output, flooding, remoteVars>>

\* TERM, then KILL: the group is gone unless it is unkillable.
Killed ==
    /\ stopper = "signalled" /\ GroupRuns
    /\ leader' = (IF leader = "grouped" THEN "gone" ELSE leader) /\ helpers' = FALSE
    /\ UNCHANGED <<callVars, requestVars, wireVars, supervisor, pidFile, stopper>>

Stopper == StopRefuses \/ StopSignals \/ StopConfirms \/ StopGivesUp \/ Killed

-----------------------------------------------------------------------------
RequestCancel ==
    /\ ~cancelRequested /\ cancelRequested' = TRUE
    /\ UNCHANGED <<callVars, overdue, wireVars, remoteVars, stopper>>

TimePasses ==
    /\ ~overdue /\ overdue' = TRUE
    /\ UNCHANGED <<callVars, cancelRequested, wireVars, remoteVars, stopper>>

ConnectionBreaks ==
    /\ link /\ "link" \in CommandFaults
    /\ link' = FALSE
    /\ UNCHANGED <<callVars, requestVars, silent, heard, output, flooding, remoteVars, stopper>>

\* A peer that is gone without a word.  The keepalives of connect() may make the local side
\* notice later, which is ConnectionBreaks; a peer that still acknowledges them it trusts.
ConnectionFallsSilent ==
    /\ Arrives /\ "silence" \in CommandFaults
    /\ silent' = TRUE
    /\ UNCHANGED <<callVars, requestVars, link, heard, output, flooding, remoteVars, stopper>>

\* The call is over and nothing is left on the machine.
Over ==
    /\ thread = "returned" /\ supervisor \in {"absent", "exited"} /\ ~helpers
    /\ UNCHANGED commandVars

CommandNext ==
    \/ Local \/ Supervisor \/ HangsUp \/ Command \/ Stopper
    \/ RequestCancel \/ TimePasses \/ ConnectionBreaks \/ ConnectionFallsSilent \/ Over

CommandSpec == CommandInit /\ [][CommandNext]_commandVars

\* A request was made over a connection that died unnoticed.  exec_command bounds the
\* opening of its channel, but recv_exit_status bounds no wait.
Unanswered == silent /\ link /\ thread \in {"opening", "stop", "stopping"}

\* The thread runs on unless it waits for an answer that cannot come, the two shells run
\* on and time passes.  Nothing makes the command end, its output pause or the connection
\* hold.
FairCommandSpec ==
    /\ CommandSpec
    /\ WF_commandVars(Local /\ ~Unanswered)
    /\ WF_commandVars(Supervisor) /\ WF_commandVars(Stopper)
    /\ WF_commandVars(TimePasses)

-----------------------------------------------------------------------------
(* Properties                                                              *)

\* The result as the engine reads it: marked with "stop could not be verified", a
\* verified stop, or anything else.
Contract ==
    INSTANCE CommandContract WITH
        connected <- link,
        command <- CASE leader = "none" -> "ready"
                     [] leader = "gone" -> "over"
                     [] OTHER -> "running",
        answer <- IF answer \in {"denied", "exited"} THEN "finished" ELSE answer

\* While the connection is up, a result without the mark means that the command is
\* over: what the engine relies on when it restores the workspace.
ImplementsContract == Contract!Spec

\* A verified stop leaves nobody of the process group, background processes included.
VerifiedStopClearsGroup == answer = "stopped" => ~GroupRuns

\* Once the supervisor has exited its pid file is gone, so no later stop can find a
\* process that merely has the same number.
NoStalePidFile == supervisor = "exited" => ~pidFile

\* The call comes back, even from a command that never ends, that nothing can stop or whose
\* connection breaks.  Two things keep it, and nothing else does: output that floods the
\* reading loops over and over, and an answer awaited from a connection that died unnoticed.
CallReturns ==
    \/ <>(thread = "returned")
    \/ <>[](thread \in {"draining", "collecting"}) /\ []<>Floods
    \/ <>[]Unanswered

=============================================================================
