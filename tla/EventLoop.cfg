\* Every system call after accept succeeds: one listening socket, two clients that
\* can both have a CGI, batches of up to three events.  SIGQUIT really ends it.
SPECIFICATION Spec
CONSTANTS
    l1 = l1
    f1 = f1
    f2 = f2
    f3 = f3
    f4 = f4
    c1 = c1
    c2 = c2
    Fd = {l1, f1, f2, f3, f4}
    Listener = {l1}
    ClientId = {c1, c2}
    NoFd = NoFd
    NoClient = NoClient
    MaxEvents = 3
    Faults = {}
SYMMETRY Symmetric
INVARIANTS TypeOK MapSound NoStaleEvent ClientsRegistered
CHECK_DEADLOCK FALSE
