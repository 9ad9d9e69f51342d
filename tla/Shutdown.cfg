SPECIFICATION FairSpec
CONSTANTS
    Order <- OrderThree
    Connection = {c1, c2}
    NoServer = NoServer
    MaxSignals = 2
INVARIANTS
    Inv
    GracefulExit
    GaugeIsOpenConnections
PROPERTIES
    ReceivedSignalEndsProcess
