------------------------------- MODULE MCSockets -------------------------------
EXTENDS Sockets, TLC
\* The descriptors are interchangeable.
Perms == Permutations(Fd)
===============================================================================
