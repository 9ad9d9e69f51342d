------------------------------ MODULE Decorators ------------------------------
(***************************************************************************)
(* The decorators every Put goes through before the storage adapter        *)
(* (backends/decorators), as DecorateBackend stacks them: the time to live *)
(* is limited, the metrics are taken, the size is checked.                 *)
(***************************************************************************)
EXTENDS Integers

REQUEST_MAX_TTL_SECONDS == 3600

\* LimitTTLs: the limit it enforces.
EnforcedMaxTTL(maxTTLSeconds) ==
    IF maxTTLSeconds <= 0 THEN REQUEST_MAX_TTL_SECONDS ELSE maxTTLSeconds

\* ttlLimited.Put without its test for a positive time to live.
LimitedTTLUnchecked(maxTTLSeconds, requestTTLSeconds) ==
    IF EnforcedMaxTTL(maxTTLSeconds) > requestTTLSeconds
    THEN requestTTLSeconds ELSE EnforcedMaxTTL(maxTTLSeconds)

\* ttlLimited.Put: the time to live it passes on.
LimitedTTL(maxTTLSeconds, requestTTLSeconds) ==
    IF EnforcedMaxTTL(maxTTLSeconds) > requestTTLSeconds /\ requestTTLSeconds > 0
    THEN requestTTLSeconds ELSE EnforcedMaxTTL(maxTTLSeconds)

\* sizeCappedBackend.Put, which DecorateBackend installs for a positive limit.
BadPayloadSize(maxSize, len) == maxSize > 0 /\ (len = 0 \/ len > maxSize)
=============================================================================
