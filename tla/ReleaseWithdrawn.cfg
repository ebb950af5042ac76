SPECIFICATION RelSpec
CONSTANTS
    Uploaders = {"u1", "u2"}
    Versions = {1, 2}
    Channels = {"stable", "beta"}
    MaxSeq = 4
    RlFaults = 1
INVARIANT WithdrawnFailsClosed
CHECK_DEADLOCK FALSE
