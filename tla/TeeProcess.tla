----------------------------- MODULE TeeProcess -----------------------------
(***************************************************************************)
(* One program of the pod under supervisord (runpod-image/supervisord.conf) *)
(* and runpod-image/tee_process.py: the child, its two pipes, the two      *)
(* _tee_stream coroutines of _run, the signal handlers, and the log files, *)
(* which outlive the process.  A byte is its number in its stream.         *)
(***************************************************************************)
EXTENDS Integers, SequencesExt

CONSTANTS
    Streams,     \* stdout, stderr
    PipeSize,    \* what the pipe and the StreamReader hold of a stream
    ChunkSize,   \* the most that stream.read returns, 64 * 1024
    MaxBytes,    \* bound on what the program writes to each stream
    MaxRuns,     \* bound on the times supervisord starts it
    MaxFaults    \* bound on the writes that fail and the tees that are killed

ASSUME TeeAssumption ==
    /\ {PipeSize, ChunkSize, MaxRuns} \subseteq Nat \ {0} /\ MaxFaults \in Nat
    /\ MaxBytes \in [Streams -> Nat]

VARIABLES
    tee,       \* down; spawned: before add_signal_handler; running: in gather
    child,     \* the child of this run
    asked,     \* it was sent SIGTERM
    orphans,   \* children that outlived their tee
    runs,      \* starts so far
    faults,    \* failed writes and killed tees so far
    stopping,  \* supervisord was told to stop the program
    written,   \* written[s]: bytes written to s, by all runs
    began,     \* began[s]: how many before this run
    opened,    \* opened[s]: the child holds its end of the pipe
    pipe,      \* pipe[s]: bytes on their way
    eof,       \* eof[s]: the coroutine of s has returned
    held,      \* the chunk on the console and not yet in the file
    console, log

teeVars == <<tee, child, asked, orphans, runs, faults, stopping, written, began, opened,
             pipe, eof, held, console, log>>
output == <<console, log>>
lifecycle == <<tee, child, asked, orphans, runs, stopping, began>>

NoChunk == << >>
Empty == [s \in Streams |-> << >>]

TeeInit ==
    /\ tee = "down" /\ child = "none" /\ asked = FALSE
    /\ orphans = 0 /\ runs = 0 /\ faults = 0 /\ stopping = FALSE
    /\ written = [s \in Streams |-> 0] /\ began = written
    /\ opened = [s \in Streams |-> FALSE]
    /\ pipe = Empty /\ eof = opened
    /\ held = NoChunk
    /\ console = Empty /\ log = Empty

-----------------------------------------------------------------------------
\* Mutant: the file is opened with "wb".
OpensAnew == Empty

\* log_path.open("ab"): what is there stays.
Opens == log

\* autorestart: the tee starts and creates the child.
Spawn ==
    /\ tee = "down" /\ ~stopping /\ runs < MaxRuns
    /\ tee' = "spawned" /\ runs' = runs + 1
    /\ child' = "running" /\ asked' = FALSE
    /\ opened' = [s \in Streams |-> TRUE]
    /\ pipe' = Empty /\ eof' = [s \in Streams |-> FALSE]
    /\ began' = written
    /\ UNCHANGED <<orphans, faults, stopping, written, held, console, log>>

\* The signal handlers are there; the coroutines open their files.
Install ==
    /\ tee = "spawned"
    /\ tee' = "running"
    /\ log' = Opens
    /\ UNCHANGED <<child, asked, orphans, runs, faults, stopping, written, began, opened,
                   pipe, eof, held, console>>

-----------------------------------------------------------------------------
\* The child.

ChildWrites(s) ==
    /\ child = "running" /\ opened[s]
    /\ written[s] < MaxBytes[s] /\ Len(pipe[s]) < PipeSize
    /\ written' = [written EXCEPT ![s] = @ + 1]
    /\ pipe' = [pipe EXCEPT ![s] = Append(@, written[s] + 1)]
    /\ UNCHANGED <<lifecycle, faults, opened, eof, held, output>>

ChildCloses(s) ==
    /\ child = "running" /\ opened[s]
    /\ opened' = [opened EXCEPT ![s] = FALSE]
    /\ UNCHANGED <<lifecycle, faults, written, pipe, eof, held, output>>

ChildEnds ==
    /\ child = "running"
    /\ child' = "ended"
    /\ opened' = [s \in Streams |-> FALSE]
    /\ UNCHANGED <<tee, asked, orphans, runs, faults, stopping, written, began, pipe, eof,
                   held, output>>

-----------------------------------------------------------------------------
\* _tee_stream.  There is no await between the console and the file: while a
\* chunk is held the event loop runs nothing else.

\* Mutant: stdout is copied to its end first.
InTurn(s) == \A t \in Streams : t < s => eof[t]

\* asyncio.gather: whichever stream has something.
Concurrently(s) == TRUE

\* Mutant: readexactly.
FullChunks(s) == {ChunkSize} \cap 1..Len(pipe[s])

\* stream.read returns what is there, up to the limit.
Chunks(s) == {n \in 1..Len(pipe[s]) : n <= ChunkSize}

Reads(s) ==
    /\ tee = "running" /\ held = NoChunk /\ ~eof[s]
    /\ Concurrently(s)
    /\ \E n \in Chunks(s) :
          LET chunk == SubSeq(pipe[s], 1, n) IN
          /\ pipe' = [pipe EXCEPT ![s] = SubSeq(@, n + 1, Len(@))]
          /\ console' = [console EXCEPT ![s] = @ \o chunk]
          /\ held' = <<s, chunk>>
    /\ UNCHANGED <<lifecycle, faults, written, opened, eof, log>>

Logs ==
    /\ held # NoChunk
    /\ log' = [log EXCEPT ![held[1]] = @ \o held[2]]
    /\ held' = NoChunk
    /\ UNCHANGED <<lifecycle, faults, written, opened, pipe, eof, console>>

\* A write fails, or the tee is killed.
Fault == faults < MaxFaults /\ faults' = faults + 1

\* Mutant: what did not fit makes the whole chunk be written again.
LogsAgain ==
    /\ Fault /\ held # NoChunk
    /\ \E n \in 1..(Len(held[2]) - 1) :
          log' = [log EXCEPT ![held[1]] = @ \o SubSeq(held[2], 1, n)]
    /\ UNCHANGED <<lifecycle, written, opened, pipe, eof, held, console>>

\* The file is unbuffered: a write that does not fit returns how much did, and
\* nobody looks at it.
LogsShort ==
    /\ Fault /\ held # NoChunk
    /\ \E n \in 1..(Len(held[2]) - 1) :
          log' = [log EXCEPT ![held[1]] = @ \o SubSeq(held[2], 1, n)]
    /\ held' = NoChunk
    /\ UNCHANGED <<lifecycle, written, opened, pipe, eof, console>>

ReachesEnd(s) ==
    /\ tee = "running" /\ held = NoChunk /\ ~eof[s]
    /\ Concurrently(s)
    /\ pipe[s] = << >> /\ ~opened[s]
    /\ eof' = [eof EXCEPT ![s] = TRUE]
    /\ UNCHANGED <<lifecycle, faults, written, opened, pipe, held, output>>

\* Mutant: the exit code of the child is not waited for.
Streamed == \A s \in Streams : eof[s]

\* Mutant: the child has ended, so there is nothing left to copy.
ChildGone == child = "ended" /\ held = NoChunk

\* gather and process.wait() have returned.
Finished == child = "ended" /\ \A s \in Streams : eof[s]

\* The tee ends without its child: what is in the pipes is lost.
Abandon ==
    /\ tee' = "down" /\ child' = "none"
    /\ orphans' = IF child = "running" THEN orphans + 1 ELSE orphans
    /\ pipe' = Empty /\ held' = NoChunk
    /\ opened' = [s \in Streams |-> FALSE]

Exits ==
    /\ tee = "running" /\ Finished
    /\ Abandon
    /\ UNCHANGED <<asked, runs, faults, stopping, written, began, eof, output>>

\* log_file.write raises out of gather and _run (OSError), or a SIGKILL.
Dies ==
    /\ Fault /\ tee # "down"
    /\ Abandon
    /\ UNCHANGED <<asked, runs, stopping, written, began, eof, output>>

-----------------------------------------------------------------------------
\* supervisord.

\* Mutant: without stopasgroup the signal goes to the tee alone.
ToTee == tee = "running"

\* stopasgroup: the child gets the signal too, twice if the tee forwards it.
ToGroup == tee # "down"

\* SIGTERM.  Before its handlers are installed it ends the tee.
Stop ==
    /\ ~stopping
    /\ stopping' = TRUE
    /\ asked' = (child = "running" /\ (asked \/ ToGroup))
    /\ IF tee = "spawned"
       THEN /\ tee' = "down"
            /\ opened' = [s \in Streams |-> FALSE] /\ pipe' = Empty
       ELSE UNCHANGED <<tee, opened, pipe>>
    /\ UNCHANGED <<child, orphans, runs, faults, written, began, eof, held, output>>

\* killasgroup, when the program has not ended in time.
Kill ==
    /\ stopping /\ tee # "down"
    /\ tee' = "down" /\ child' = "none"
    /\ pipe' = Empty /\ held' = NoChunk
    /\ opened' = [s \in Streams |-> FALSE]
    /\ UNCHANGED <<asked, orphans, runs, faults, stopping, written, began, eof, output>>

-----------------------------------------------------------------------------
ChildStep == ChildEnds \/ \E s \in Streams : ChildWrites(s) \/ ChildCloses(s)

TeeStep == Install \/ Logs \/ Exits \/ \E s \in Streams : Reads(s) \/ ReachesEnd(s)

TeeNext == ChildStep \/ TeeStep \/ Spawn \/ LogsShort \/ Dies \/ Stop \/ Kill

\* The event loop runs what is ready, supervisord restarts what has ended, and
\* a child that was asked to end does.
TeeFairness ==
    /\ WF_teeVars(TeeStep)
    /\ WF_teeVars(Spawn)
    /\ WF_teeVars(asked /\ ChildEnds)

TeeSpec == TeeInit /\ [][TeeNext]_teeVars /\ TeeFairness

-----------------------------------------------------------------------------
\* Once a tee has waited for its child, all the child wrote is on the console.
\* While no write has failed and no tee was killed, the file has all that was
\* ever written: nothing of this run is missing, and nothing of an earlier one.
NothingLost ==
    [][ Exits =>
        \A s \in Streams :
            /\ \A b \in (began[s] + 1)..written[s] : Contains(console[s], b)
            /\ faults = 0 => log[s] = [b \in 1..written[s] |-> b] ]_teeVars

\* Whatever has failed, a file holds what the console showed, in that order and
\* once, whichever run wrote it and wherever a run died.
Ascending(f) == \A i, j \in DOMAIN f : i < j => f[i] < f[j]

LogBehindConsole ==
    \A s \in Streams :
        /\ Ascending(console[s]) /\ Ascending(log[s])
        /\ ToSet(log[s]) \subseteq ToSet(console[s])

\* A second child is started beside a living one only where a tee was killed or
\* could not write: otherwise the port is free when supervisord restarts the
\* program.
Alone == orphans <= faults

\* A child that waits for room in a pipe gets it: stdout and stderr are drained
\* side by side, so neither can block the program behind the other.
Blocked(s) == tee # "down" /\ child = "running" /\ opened[s] /\ Len(pipe[s]) = PipeSize

NeverBlockedForGood == \A s \in Streams : Blocked(s) ~> ~Blocked(s)

\* A program that has died is noticed, so that supervisord can restart it.
DeathNoticed == child = "ended" ~> tee = "down"

\* A stop of the program leaves no child behind, wherever in its start it came.
StopEndsChild == stopping ~> child # "running"

=============================================================================
