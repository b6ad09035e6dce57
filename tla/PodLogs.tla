------------------------------ MODULE PodLogs -------------------------------
(***************************************************************************)
(* The log drain: adapter/adapter/pod_logs.py and cli_drain.py fetch the   *)
(* tails that GET /internal/pod-logs of runpod-image/wrapper.py reads from *)
(* the files, while the tee of module TeeProcess, another process, goes on *)
(* appending to them and may die.                                          *)
(***************************************************************************)
EXTENDS TeeProcess

CONSTANT MaxTail   \* WRAPPER_POD_LOGS_MAX_BYTES

\* The files are numbered in the order of their names.
ASSUME LogsAssumption ==
    /\ MaxTail \in Nat
    /\ Streams \subseteq Nat \ {0} /\ 1 \in Streams
    /\ \A s \in Streams : 1..s \subseteq Streams

VARIABLES
    drain,     \* the await drain_cloud_pod_logs is suspended in, or idle
    wrapper,   \* what internal_pod_logs is at, with which file, and its size
    content,   \* content[s]: what its answer has of s
    unread,    \* streams whose file could not be read
    sizes      \* sizes[s]: the size of the file when the drain asked for it

drainVars == <<drain, wrapper, content, unread, sizes>>
vars == <<teeVars, drainVars>>

At(what, s, size) == [at |-> what, file |-> s, size |-> size]
NotServing == At("none", 0, 0)

NoSizes == [s \in Streams |-> 0]

Init ==
    /\ TeeInit
    /\ drain = "idle" /\ wrapper = NotServing
    /\ content = Empty /\ unread = {} /\ sizes = NoSizes

\* The drain is over.  An answer nobody waits for any more is dropped at once:
\* what is left of it only reads.
DrainEnds ==
    /\ drain' = "idle" /\ wrapper' = NotServing
    /\ content' = Empty /\ unread' = {} /\ sizes' = NoSizes
    /\ UNCHANGED teeVars

-----------------------------------------------------------------------------
\* The adapter, or the CLI next to it.

\* cli_drain._run, or the idle release: the token is set, and there is a pod.
Drain ==
    /\ drain = "idle"
    /\ drain' = "lookup"
    /\ UNCHANGED <<teeVars, wrapper, content, unread, sizes>>

\* It returns False: get_pod raises, or there is no mapping; the fetch raises,
\* times out, or its answer is no JSON object.
DrainFails == drain # "idle" /\ DrainEnds

\* The mapping is there: GET /internal/pod-logs with the token.
Fetches ==
    /\ drain = "lookup"
    /\ drain' = "fetching"
    /\ wrapper' = At("stat", 1, 0)
    /\ sizes' = [s \in Streams |-> Len(log[s])]
    /\ UNCHANGED <<teeVars, content, unread>>

\* It returns True: the lines of the answer go to capture_logger.
Emits == drain = "fetching" /\ wrapper.at = "sent" /\ DrainEnds

-----------------------------------------------------------------------------
\* internal_pod_logs: the files one after the other, in the order of names.

Following(s) == IF s + 1 \in Streams THEN At("stat", s + 1, 0) ELSE At("sent", s, 0)

\* _tail_utf8_text: the size, before the file is opened.
Stats(s) ==
    /\ wrapper.at = "stat" /\ wrapper.file = s
    /\ wrapper' = At("read", s, Len(log[s]))
    /\ UNCHANGED <<teeVars, drain, content, unread, sizes>>

\* Mutant: the first max_bytes of the file.
HeadOf(f, size) == SubSeq(f, 1, Min({size, MaxTail}))

\* seek(max(0, size - max_bytes)), then read to the end there is by now.
TailOf(f, size) ==
    IF MaxTail = 0 THEN << >> ELSE SubSeq(f, Max({0, size - MaxTail}) + 1, Len(f))

ReadsTail(s) ==
    /\ wrapper.at = "read" /\ wrapper.file = s
    /\ content' = [content EXCEPT ![s] = TailOf(log[s], wrapper.size)]
    /\ wrapper' = Following(s)
    /\ UNCHANGED <<teeVars, drain, unread, sizes>>

\* OSError: the file is listed without content.
Unreadable(s) ==
    /\ MaxFaults > 0
    /\ wrapper.at \in {"stat", "read"} /\ wrapper.file = s
    /\ unread' = unread \cup {s}
    /\ wrapper' = Following(s)
    /\ UNCHANGED <<teeVars, drain, content, sizes>>

-----------------------------------------------------------------------------
AdapterStep == Drain \/ DrainFails \/ Fetches \/ Emits

WrapperStep == \E s \in Streams : Stats(s) \/ ReadsTail(s) \/ Unreadable(s)

Next == (TeeNext /\ UNCHANGED drainVars) \/ AdapterStep \/ WrapperStep

Spec == Init /\ [][Next]_vars /\ TeeFairness

-----------------------------------------------------------------------------
\* When the drain reports success, it has emitted of every file that could be
\* read one piece without a gap, which reaches at least to the end the file had
\* when it was asked for, and is as long as the bound or that file: no line
\* written before the drain is skipped in favour of an older or a newer one.
DrainedTail ==
    [][ Emits =>
        \A s \in Streams \ unread :
            \E a \in 1..(Len(log[s]) + 1), b \in sizes[s]..Len(log[s]) :
                /\ content[s] = SubSeq(log[s], a, b)
                /\ Len(content[s]) >= Min({MaxTail, sizes[s]}) ]_vars

=============================================================================
