SPECIFICATION FairSpec
CONSTANTS
    Order <- OrderTwo
    Connection = {c1}
    NoServer = NoServer
    MaxSignals = 1
PROPERTIES
    SignalEndsProcess
