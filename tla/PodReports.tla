----------------------------- MODULE PodReports -----------------------------
(***************************************************************************)
(* The answers RunPod gives about one pod while it warms up, is stopped    *)
(* and resumed, and what the operators of PodPayload make of them.  The    *)
(* fields are those of POD_FIELDS in adapter/adapter/runpod_client.py.     *)
(***************************************************************************)
EXTENDS PodPayload

CONSTANTS
    MaxPorts,   \* bound on the entries RunPod lists
    MaxMoves    \* bound on the changes of the lifecycle fields

ASSUME ReportAssumption == {MaxPorts, MaxMoves} \subseteq Nat

VARIABLES
    desired,   \* desiredStatus
    moved,     \* moved[f]: how often the lifecycle field f has changed
    runtime,   \* "none", or the entries of runtime.ports
    rest       \* the entries of portMappings, in an answer of that shape

vars == <<desired, moved, runtime, rest>>

\* The fields of POD_FIELDS that change while a pod warms up, those within
\* machine and latestTelemetry by their own names.
Lifecycle == {"lastStatusChange", "lastStartedAt", "version", "uptimeSeconds",
              "podHostId", "state"}

\* An entry of runtime.ports.  "none" and 0 are fields RunPod has not filled in;
\* isIpPublic may be true, false or null.
Entries ==
    [ip : {"none", "one", "two"}, open : {True, False, Null},
     private : {Num(WrapperPort), Num(8888)}, public : {0, 19001}]

RestEntries == {<<"9000/tcp", Num(19001)>>, <<"9000", Digits(19002)>>,
                <<"8888/http", Num(19003)>>}

Item(e) ==
    Dict(<< <<"ip", IF e.ip = "none" THEN Null ELSE Text(e.ip)>>,
            <<"isIpPublic", e.open>>, <<"privatePort", e.private>>,
            <<"publicPort", Num(e.public)>>, <<"type", Text("tcp")>> >>)

\* A lifecycle field is null at first, and then has a new value every time.
Stamp(f) == IF moved[f] = 0 THEN Null ELSE Num(moved[f])

Answer ==
    Dict(<< <<"id", Text("pod")>>, <<"desiredStatus", Text(desired)>>,
            <<"lastStatusChange", Stamp("lastStatusChange")>>,
            <<"lastStartedAt", Stamp("lastStartedAt")>>,
            <<"version", Stamp("version")>>,
            <<"uptimeSeconds", Stamp("uptimeSeconds")>>,
            <<"machineId", Text("machine")>>,
            <<"machine", Dict(<< <<"podHostId", Stamp("podHostId")>> >>)>>,
            <<"latestTelemetry", Dict(<< <<"state", Stamp("state")>> >>)>>,
            <<"runtime",
              IF runtime = "none" THEN Null
              ELSE Dict(<< <<"ports",
                     List([i \in DOMAIN runtime |-> Item(runtime[i])])>> >>)>> >>
         \o IF rest = << >> THEN << >>
            ELSE << <<"publicIp", Text("one")>>, <<"portMappings", Dict(rest)>> >>)

Init ==
    /\ desired = "RUNNING"
    /\ moved = [f \in Lifecycle |-> 0]
    /\ runtime = "none"
    /\ rest = << >>

\* The container starts; its ports are mapped later, one after the other.
Starts ==
    /\ desired = "RUNNING" /\ runtime = "none" /\ rest = << >>
    /\ runtime' = << >>
    /\ UNCHANGED <<desired, moved, rest>>

Exposes ==
    /\ runtime # "none"
    /\ Len(runtime) < MaxPorts
    /\ \E e \in Entries : runtime' = Append(runtime, e)
    /\ UNCHANGED <<desired, moved, rest>>

ExposesInRest ==
    /\ desired = "RUNNING" /\ runtime = "none" /\ Len(rest) < MaxPorts
    /\ \E e \in RestEntries :
          /\ \A i \in DOMAIN rest : KeyPort(rest[i][1]) # KeyPort(e[1])
          /\ rest' = Append(rest, e)
    /\ UNCHANGED <<desired, moved, runtime>>

\* Any field may be the next to change.
Progresses ==
    /\ FoldFunction(+, 0, moved) < MaxMoves
    /\ \E f \in Lifecycle : moved' = [moved EXCEPT ![f] = @ + 1]
    /\ UNCHANGED <<desired, runtime, rest>>

Stops ==
    /\ desired = "RUNNING"
    /\ desired' = "EXITED"
    /\ runtime' = "none"
    /\ rest' = << >>
    /\ UNCHANGED moved

Resumes ==
    /\ desired = "EXITED"
    /\ desired' = "RUNNING"
    /\ UNCHANGED <<moved, runtime, rest>>

Next == Starts \/ Exposes \/ ExposesInRest \/ Progresses \/ Stops \/ Resumes

Spec == Init /\ [][Next]_vars

-----------------------------------------------------------------------------
RuntimeEntries == IF runtime = "none" THEN {} ELSE ToSet(runtime)

\* The endpoints of entries for the wrapper's port that are filled in.
Endpoints(entries) ==
    {<<Text(e.ip), Num(e.public)>> :
        e \in {x \in entries : /\ x.private = Num(WrapperPort)
                                /\ x.ip # "none" /\ x.public # 0}}

\* Where the wrapper can be reached from outside: docs/runpod-graphql-api.md has
\* isIpPublic be true for that.
Reachable ==
    Endpoints({e \in RuntimeEntries : e.open = True})
      \cup {<<Text("one"), Num(e[2].n)>> :
              e \in {x \in ToSet(rest) : KeyPort(x[1]) = WrapperPort}}

\* The endpoints of which RunPod does not say whether they are public.
Unmarked == Endpoints({e \in RuntimeEntries : e.open = Null})

\* extract_tcp_mapping never pairs the address of one entry with the port of
\* another, and never takes an entry that is marked private, for another port,
\* or not filled in yet.  Where RunPod marks every entry the adapter sends its
\* token to a public endpoint of the wrapper and nowhere else.
MappedToWrapper ==
    LET m == ExtractTcpMapping(Answer)
    IN  m # NoMapping => m \in Reachable \cup Unmarked

\* The claim of docs/runpod-graphql-api.md: isIpPublic must be checked before
\* ip is used, and only entries where it is true can be reached.  The code
\* passes over an entry only when it is false.
MappedToPublic ==
    LET m == ExtractTcpMapping(Answer) IN m # NoMapping => m \in Reachable

\* It finds the wrapper as soon as any entry leads there, whatever entries
\* come before it: otherwise the adapter would wait until its deadline.
MappedWhenReachable ==
    Reachable # {} => ExtractTcpMapping(Answer) # NoMapping

\* The fingerprint changes with every step RunPod reports of a pod, and not
\* with the entries of a container that runs already: ports that come and go
\* are no warm-up.
FingerprintIsProgress ==
    [][LET same == StartupProgressFingerprint(Answer)' = StartupProgressFingerprint(Answer)
       IN  same <=> /\ desired' = desired /\ moved' = moved
                    /\ (runtime' = "none") = (runtime = "none")]_vars

\* A stopped pod is neither expected to run nor reachable, so template mode
\* replaces it at once; one that RunPod is to run is never replaced for its
\* missing ports alone.  Module RunPodCloud builds on this.
StoppedToldApart ==
    /\ PodIsExpectedRunning(Answer) <=> desired = "RUNNING"
    /\ desired = "EXITED" => ExtractTcpMapping(Answer) = NoMapping

=============================================================================
