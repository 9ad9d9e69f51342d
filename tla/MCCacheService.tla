---------------------------- MODULE MCCacheService ----------------------------
\* Small instances of CacheService for TLC.
EXTENDS CacheServiceInv, MCPutEndpoint

\* Two values for a custom key, one for a random uuid, and bodies that are refused.
BodiesOfService ==
    { Puts(<<P("json", 0, vA, k1), P("xml", 5, vB, k1)>>),
      Puts(<<P("xml", 5, vB, NoKey)>>), Puts(<<P("other", 0, vA, NoKey)>>), Malformed }

ConfigsOfService == {C("memory", TRUE, 0), C("redis", TRUE, 0)}
=============================================================================
