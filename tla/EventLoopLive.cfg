\* Every fault: Client::init and fork may fail, handlers may throw, which restarts
\* the server; SIGQUIT at any moment.  Liveness, so no symmetry.
SPECIFICATION FairSpec
CONSTANTS
    l1 = l1
    f1 = f1
    f2 = f2
    f3 = f3
    c1 = c1
    c2 = c2
    Fd = {l1, f1, f2, f3}
    Listener = {l1}
    ClientId = {c1, c2}
    NoFd = NoFd
    NoClient = NoClient
    MaxEvents = 2
    Faults = {"init", "fork", "throw"}
INVARIANTS NoFdLeak 
PROPERTIES ImplementsTable 
CHECK_DEADLOCK FALSE
