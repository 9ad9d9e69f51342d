SPECIFICATION Spec
CONSTANTS
    Request = {r1, r2}
    Object = {o1, o2}
    CustomKey = {k1}
    UUID = {u1, u2}
    NoKey = NoKey
    Value <- MCValue
    NoValue = NoValue
    Quoted <- MCQuoted
    Length <- MCLength
    Bodies <- BodiesOfElements
    Configs <- ConfigsOfMemory
    MaxNumValues = 2
    MaxSize = 15
    MaxTTLSeconds = 3600
    NoObject = NoObject
    NoRequest = NoRequest
    NoRecord = NoRecord
    NoElement = NoElement
    k1 = k1
    vA = vA
    vB = vB
    vBare = vBare
    vBig = vBig
SYMMETRY Symmetry
INVARIANTS
    TypeOK
    ObjectsHaveOneHolder
    AnswerFromOwnElements
    RefusedBodyStartsNothing
    CustomKeysNeedPermission
    MetricsBalance
