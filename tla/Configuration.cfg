\* Two servers with a location each and four lines; limits of three bits,
\* of which six is too large for the sign and seven is the mark for "unset".
SPECIFICATION Spec
CONSTANTS
    Single = {"root", "limit"}
    Many = {"index"}
    Value <- MCValue
    Ports = {0, 1, 5}
    Half = 4
    PortRange = 4
    DefaultPort = 0
    DefaultLimit = 2
    DefaultIndex = 9
    MaxServers = 2
    MaxLocations = 1
    MaxLines = 4
INVARIANTS TypeOK SettingsInForce PagesUnderOwnRoot HostsServed
CHECK_DEADLOCK FALSE
