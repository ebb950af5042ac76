SPECIFICATION CliSpec
CONSTANTS
    PluginVersions = {1, 2}
    Devices = {"d1", "d2"}
    CliRuns = 2
    CliFaults = 1
INVARIANT PairRecovers
CHECK_DEADLOCK FALSE
