---------------------------- MODULE MCPutEndpoint ----------------------------
\* Small instances of PutEndpoint for TLC.
EXTENDS PutEndpointInv, TLC

CONSTANTS k1,             \* a custom key
          vA, vB,         \* two values that "xml" and "json" accept
          vBare,          \* a JSON value that is no string
          vBig            \* a value above the size limit

MCValue  == {vA, vB, vBare, vBig}
MCQuoted == {vA, vB, vBig}
MCLength == [v \in MCValue |-> IF v = vBig THEN 20 ELSE 8]

Puts(s) == [kind |-> "puts", puts |-> s]
P(type, ttl, value, key) == [type |-> type, ttl |-> ttl, value |-> value, key |-> key]

Malformed  == [kind |-> "malformed", puts |-> <<P("json", 0, vB, k1)>>]
Unreadable == [kind |-> "unreadable", puts |-> <<>>]
NoPuts     == [kind |-> "noPuts", puts |-> <<>>]

C(backend, allowKeys, retries) ==
    [backend |-> backend, allowKeys |-> allowKeys, retries |-> retries]

\* The in-memory back-end, with and without custom keys.
ConfigsOfMemory == {C("memory", TRUE, 0), C("memory", FALSE, 0)}

\* The back-ends with a network that tell a failure from an existing record.
ConfigsOfNetwork == {C("redis", TRUE, 0), C("redis", TRUE, 1), C("ignite", TRUE, 0),
                     C("memcache", TRUE, 0), C("aerospike", TRUE, 0)}

ConfigsOfCassandra == {C("cassandra", TRUE, 0)}
ConfigsOfIgnite    == {C("ignite", TRUE, 0)}

\* Two writers of one custom key, each element also next to one with a random
\* uuid, an element of every invalid kind, the same key twice in a body, and
\* every kind of body that is refused.
BodiesOfElements ==
    { Puts(<<P("json", 0, vA, k1), P("xml", 5, vB, NoKey)>>),
      Puts(<<P("xml", 9, vB, k1), P("json", 1, vA, k1)>>),
      Puts(<<P("json", -1, vA, k1), P("xml", 1, vBare, k1)>>),
      Puts(<<P("xml", 1, vA, k1), P("other", 0, vA, NoKey)>>),
      Puts(<<P("json", 2, NoValue, NoKey), P("json", 2, vBig, k1)>>),
      Puts(<<P("json", 0, vA, NoKey), P("json", 0, vA, NoKey), P("json", 0, vA, NoKey)>>),
      Malformed, Unreadable, NoPuts }

\* Bodies for the back-ends with a network: one key wanted by two writers.
BodiesOfNetwork == { Puts(<<P("json", 0, vA, k1)>>), Puts(<<P("xml", 5, vB, k1)>>) }

\* Valid elements of one request next to an invalid one.
BodiesMixed == { Puts(<<P("json", 0, vA, k1), P("json", -1, vB, NoKey)>>),
                 Puts(<<P("json", 0, vA, k1), P("xml", 0, vB, NoKey)>>) }

Symmetry == Permutations(Request) \cup Permutations(Object) \cup Permutations(UUID)
=============================================================================
