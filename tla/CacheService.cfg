SPECIFICATION ServiceSpec
CONSTANTS
    Request = {r1}
    Object = {o1}
    CustomKey = {k1}
    UUID = {k1}
    NoKey = NoKey
    Value <- MCValue
    NoValue = NoValue
    Quoted <- MCQuoted
    Length <- MCLength
    Bodies <- BodiesOfService
    Configs <- ConfigsOfService
    MaxNumValues = 2
    MaxSize = 15
    MaxTTLSeconds = 3
    NoObject = NoObject
    NoRequest = NoRequest
    NoRecord = NoRecord
    NoElement = NoElement
    k1 = k1
    vA = vA
    vB = vB
    vBare = vBare
    vBig = vBig
    GetRequest = {g1}
    Encodings = {"snappy", "none"}
    FirstEncodings = {"snappy"}
    NoReply = NoReply
    MaxRestarts = 1
INVARIANTS
    FullServiceInv
    TimeoutAnswered597
    AckedIsRetrievable
    ShownWasSent
PROPERTIES
    GetsImplemented
    RequestsEnd
