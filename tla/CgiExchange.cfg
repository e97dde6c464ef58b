\* Bodies longer than the socket pair and none, every kind of program.
SPECIFICATION FairSpec
CONSTANTS
    Bodies = {0, 2}
    Cap = 1
    ReadSize = 2
    Window = 2
    Programs <- MCPrograms
INVARIANTS TypeOK OutputDelivered EofAfterBody
PROPERTIES SendComesBack ExchangeEnds OthersServed
CHECK_DEADLOCK FALSE
