--------------------------- MODULE MCRedisRepository ---------------------------
EXTENDS RedisRepository
=============================================================================
