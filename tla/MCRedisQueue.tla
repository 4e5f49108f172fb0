----------------------------- MODULE MCRedisQueue -----------------------------
EXTENDS RedisQueue

\* Removing by rank is removing by a test, on every line of up to four entries.
ASSUME WithoutIsSelectSeq ==
  \A s \in UNION { [1 .. n -> Client] : n \in 0 .. 4 } : \A c \in Client :
    Without(s, c) = SelectSeq(s, LAMBDA d : d # c)
=============================================================================
