------------------------- MODULE MCRedisSequential -------------------------
EXTENDS RedisRegistryPort

\* One card that is too short-lived, and one of almost four seconds.
MCExpiries == {3, 15}
=============================================================================
