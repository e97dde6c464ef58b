\* All targets of five characters, every pair of locations from six.
SPECIFICATION Spec
CONSTANTS
    Servers <- MCServers
    Hosts = {"n", "m", "x"}
    Targets <- MCTargets
    Char <- MCChar
    None = None
INVARIANTS FirstNamedServes LongestPrefix SubstrInRange RestFollowsRoot
CHECK_DEADLOCK FALSE
