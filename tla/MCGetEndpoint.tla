---------------------------- MODULE MCGetEndpoint ----------------------------
\* Small instances of GetEndpoint for TLC.
EXTENDS GetEndpoint

C(backend, compression, allowCustomKeys) ==
    [backend |-> backend, compression |-> compression, allowCustomKeys |-> allowCustomKeys]

\* Every back-end, with compression, without it, and with custom keys.
MCConfigs == {C(b, "none", FALSE) : b \in Backends}
             \cup {C("redis", "snappy", FALSE), C("aerospike", "none", TRUE)}
=============================================================================
