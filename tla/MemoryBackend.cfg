SPECIFICATION FairSpec
CONSTANTS
    Client = {c1, c2, c3}
    Key = {k1}
    Value = {v1, v2}
    NoValue = NoValue
    NoClient = NoClient
INVARIANTS
    TypeOK
    NoDataRace
    AbsentWhenStoring
PROPERTIES
    Linearizable
    CallsReturn
