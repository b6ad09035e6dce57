\* A pod with up to two port entries, two changes of its lifecycle fields.
CONSTANTS
    WrapperPort = 9000
    MaxPorts = 2
    MaxMoves = 2
SPECIFICATION Spec
INVARIANTS MappedToWrapper MappedWhenReachable StoppedToldApart
PROPERTIES FingerprintIsProgress
