SPECIFICATION Spec
CONSTANTS
    Request = {r1}
    Object = {o1}
    CustomKey = {k1}
    UUID = {u1}
    NoKey = NoKey
    Value <- MCValue
    NoValue = NoValue
    Quoted <- MCQuoted
    Length <- MCLength
    Bodies <- BodiesMixed
    Configs <- ConfigsOfIgnite
    MaxNumValues = 2
    MaxSize = 15
    MaxTTLSeconds = 3600
    NoObject = NoObject
    NoRequest = NoRequest
    NoRecord = NoRecord
    NoElement = NoElement
    k1 = k1
    vA = vA
    vB = vB
    vBare = vBare
    vBig = vBig
INVARIANTS
    TimeoutAnswered597
