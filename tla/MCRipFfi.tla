------------------------------- MODULE MCRipFfi -------------------------------
\* RipFfi for TLC: the clients are interchangeable.
EXTENDS RipFfi, TLC

ClientSymmetry == Permutations(Clients)
=============================================================================
