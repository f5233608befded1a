--------------------------- MODULE MCRateLimiter ---------------------------
\* The threads are interchangeable, and so are the addresses.
EXTENDS RateLimiter, TLC

Symmetry == Permutations(Workers) \union Permutations(Resetters) \union Permutations(Addrs)
=============================================================================
