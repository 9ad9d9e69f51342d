SPECIFICATION FairSpec
CONSTANTS
    Request = {r1}
    Key = {u1, k1}
    LongKey = {u1}
    NoKey = NoKey
    Content = {v1}
    NoRecord = NoRecord
    NoReply = NoReply
    Encodings = {"snappy", "none"}
    Configs <- MCConfigs
INVARIANTS
    TypeOK
    ShowsWhatWasStored
    NotFoundMeansAbsent
    MetricsBalance
PROPERTIES
    GetsAnswered
