\* A pod with one port entry.
CONSTANTS
    WrapperPort = 9000
    MaxPorts = 1
    MaxMoves = 1
SPECIFICATION Spec
INVARIANT MappedToPublic
