SPECIFICATION Spec
CONSTANTS
    Request = {r1, r2}
    Object = {o1, o2}
    CustomKey = {k1}
    UUID = {u1}
    NoKey = NoKey
    Value <- MCValue
    NoValue = NoValue
    Quoted <- MCQuoted
    Length <- MCLength
    Bodies <- BodiesOfNetwork
    Configs <- ConfigsOfNetwork
    MaxNumValues = 1
    MaxSize = 15
    MaxTTLSeconds = 3
    NoObject = NoObject
    NoRequest = NoRequest
    NoRecord = NoRecord
    NoElement = NoElement
    k1 = k1
    vA = vA
    vB = vB
    vBare = vBare
    vBig = vBig
SYMMETRY Symmetry
INVARIANTS
    FullInv
    AckedRecordKept
    EmptyUuidMeansTaken
PROPERTIES
    ContractKept
