-------------------------- MODULE MCKeithleySource --------------------------
EXTENDS KeithleySource, TLC

\* Channels are interchangeable, and so are OFF callers.
Symmetric == Permutations(Channels) \cup Permutations(Callers)
=============================================================================
