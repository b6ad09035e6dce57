----------------------------- MODULE PodPayload -----------------------------
(***************************************************************************)
(* adapter/adapter/pod_mapping.py: what the adapter reads out of the JSON  *)
(* RunPod answers with.  A JSON value is tagged with its type; an object   *)
(* keeps the order of its keys, since the first hit of a search counts.    *)
(***************************************************************************)
EXTENDS Integers, Sequences, SequencesExt

CONSTANT WrapperPort   \* RUNPOD_WRAPPER_PORT

ASSUME WrapperPortAssumption == WrapperPort \in Nat \ {0}

\* num: an integer.  digits: a string of digits, with its value.  text: any
\* other string.  dict: a sequence of pairs of a key and a value.
Null      == [t |-> "null"]
Num(n)    == [t |-> "num", n |-> n]
Digits(n) == [t |-> "digits", n |-> n]
Text(s)   == [t |-> "text", s |-> s]
True      == [t |-> "flag", n |-> 1]
False     == [t |-> "flag", n |-> 0]
List(s)   == [t |-> "list", items |-> s]
Dict(s)   == [t |-> "dict", items |-> s]

Truthy(v) ==
    CASE v.t = "null" -> FALSE
      [] v.t = "text" -> v.s # ""
      [] v.t \in {"num", "flag"}  -> v.n # 0
      [] v.t \in {"list", "dict"} -> v.items # << >>
      [] OTHER        -> TRUE

\* The first of seq with the property Test, or otherwise.
FirstOf(seq, Test(_), otherwise) ==
    LET i == SelectInSeq(seq, Test) IN IF i = 0 THEN otherwise ELSE seq[i]

\* d.get(key): an object has one value for a key.
Get(d, key) ==
    LET hits == {kv \in ToSet(d.items) : kv[1] = key}
    IN  IF hits = {} THEN Null ELSE (CHOOSE kv \in hits : TRUE)[2]

\* d.get(k1) or d.get(k2) or ...
GetAny(d, keys) ==
    Get(d, FirstOf(keys, LAMBDA k : Truthy(Get(d, k)), Last(keys)))

-----------------------------------------------------------------------------
\* The values of an object, or the items of a list.
Parts(v) ==
    CASE v.t = "dict" -> [i \in DOMAIN v.items |-> v.items[i][2]]
      [] v.t = "list" -> v.items
      [] OTHER        -> << >>

\* walk_dicts: an object comes before those inside it, which Inner finds.
Itself(v) == IF v.t = "dict" THEN <<v>> ELSE << >>

Walk(v, Inner(_)) ==
    Itself(v) \o FlattenSeq([i \in DOMAIN Parts(v) |-> Inner(Parts(v)[i])])

\* POD_FIELDS nests no deeper than the entries of runtime.ports.
WalkPorts(ports)     == Walk(ports, Itself)
WalkRuntime(runtime) == Walk(runtime, WalkPorts)
WalkDicts(pod)       == Walk(pod, WalkRuntime)

\* The address in one object.
OwnIp(d) ==
    Get(d, FirstOf(<<"publicIp", "publicIP", "ip", "host">>,
                   LAMBDA k : Get(d, k).t \in {"text", "digits"}
                              /\ Truthy(Get(d, k)),
                   "none"))

\* Otherwise the one in its runtime, which holds no further runtime.
ExtractPublicIp(d) ==
    LET runtime == Get(d, "runtime")
    IN  IF OwnIp(d) # Null THEN OwnIp(d)
        ELSE IF runtime.t = "dict" THEN OwnIp(runtime) ELSE Null

\* An integer or a string of digits, as an integer.
ExtractPublicPort(d) ==
    LET port == Get(d, FirstOf(<<"publicPort", "hostPort", "externalPort">>,
                               LAMBDA k : Get(d, k).t \in {"num", "digits"},
                               "none"))
    IN  IF port = Null THEN Null ELSE Num(port.n)

NoMapping == << >>

\* `if found: return found'
FirstMapping(found) == FirstOf(found, LAMBDA m : m # NoMapping, NoMapping)

\* (host, port) if host and port
Mapping(host, port) ==
    IF Truthy(host) /\ Truthy(port) THEN <<host, port>> ELSE NoMapping

Fallback(host, pod) == IF host # Null THEN host ELSE ExtractPublicIp(pod)

\* Mutant: private entries count as well.
AnyEntry(item) ==
    item.t = "dict" /\ Get(item, "privatePort") \in {Num(WrapperPort), Digits(WrapperPort)}

\* An entry of `ports` that is the wrapper's and not marked private.
WrapperEntry(item) ==
    /\ item.t = "dict"
    /\ GetAny(item, <<"privatePort", "containerPort", "internalPort", "port">>)
         \in {Num(WrapperPort), Digits(WrapperPort)}
    /\ Get(item, "isIpPublic") # False

\* Mutant: the search ends at the first entry for the wrapper's port.
MappingFromFirst(pod, ports) ==
    LET item == FirstOf(ports, WrapperEntry, Dict(<< >>))
    IN  Mapping(Fallback(ExtractPublicIp(item), pod), ExtractPublicPort(item))

MappingFromPorts(pod, ports) ==
    LET found == [i \in DOMAIN ports |->
                    IF WrapperEntry(ports[i])
                    THEN Mapping(Fallback(ExtractPublicIp(ports[i]), pod),
                                 ExtractPublicPort(ports[i]))
                    ELSE NoMapping]
    IN  FirstMapping(found)

\* Keys of portMappings: a port, with or without its protocol.
KeyPort(key) == CASE key \in {"9000", "9000/tcp"} -> 9000 [] OTHER -> 0

\* The first key that names the wrapper's port with a value of use decides.
MappingFromPortMappings(pod, mapping) ==
    LET usable(kv) == /\ KeyPort(kv[1]) = WrapperPort
                      /\ kv[2].t \in {"num", "digits", "dict"}
        entry == FirstOf(mapping.items, usable, <<"none", Null>>)[2]
    IN  CASE entry = Null     -> NoMapping
          [] entry.t = "dict" -> Mapping(Fallback(ExtractPublicIp(entry), pod),
                                         ExtractPublicPort(entry))
          [] OTHER -> IF Truthy(ExtractPublicIp(pod))
                      THEN <<ExtractPublicIp(pod), Num(entry.n)>> ELSE NoMapping

\* What one object of the answer says, in both shapes.
MappingIn(pod, d) ==
    LET mappings == Get(d, "portMappings")
        ports == Get(d, "ports")
        first == IF mappings.t = "dict"
                 THEN MappingFromPortMappings(pod, mappings) ELSE NoMapping
    IN  IF first # NoMapping THEN first
        ELSE IF ports.t = "list" THEN MappingFromPorts(pod, ports.items)
        ELSE NoMapping

\* extract_tcp_mapping.
ExtractTcpMapping(pod) ==
    LET dicts == WalkDicts(pod)
    IN  FirstMapping([i \in DOMAIN dicts |-> MappingIn(pod, dicts[i])])

-----------------------------------------------------------------------------
\* Mutant: a status is enough, whatever it says.
HasStatus(pod) ==
    \E d \in ToSet(WalkDicts(pod)) : Get(d, "desiredStatus").t = "text"

\* pod_is_expected_running, with upper() already applied.
PodIsExpectedRunning(pod) ==
    \E d \in ToSet(WalkDicts(pod)) :
    \E key \in {"desiredStatus", "desired_status", "status"} :
        Get(d, key) \in {Text(s) : s \in {"RUNNING", "STARTING", "PROVISIONING"}}

\* startup_progress_fingerprint
Nested(d, key, field) ==
    LET v == Get(d, key) IN IF v.t = "dict" THEN Get(v, field) ELSE Null

\* Mutant: one field, the uptime, is left out.
CoarseFingerprint(pod) ==
    << Get(pod, "desiredStatus"), Get(pod, "lastStatusChange"),
       Get(pod, "lastStartedAt"), Get(pod, "version"),
       Nested(pod, "latestTelemetry", "state"),
       Nested(pod, "machine", "podHostId"), Get(pod, "runtime") # Null >>

StartupProgressFingerprint(pod) ==
    << Get(pod, "desiredStatus"), Get(pod, "lastStatusChange"),
       Get(pod, "lastStartedAt"), Get(pod, "uptimeSeconds"), Get(pod, "version"),
       Nested(pod, "latestTelemetry", "state"),
       Nested(pod, "machine", "podHostId"), Get(pod, "runtime") # Null >>

=============================================================================
