-------------------------------- MODULE MCPool --------------------------------
EXTENDS PoolLifetime, TLC
\* The threads and the descriptors are interchangeable.
Perms == Permutations(Thread) \union Permutations(Fd)
===============================================================================
