-------------------------- MODULE MCSafetyManager --------------------------
(* Instances of SafetyManager.  The channels are interchangeable, and so   *)
(* are the callers of one kind.                                            *)
EXTENDS SafetyManager, TLC

Symmetric == Permutations(Channels) \cup Permutations(Stops)
=============================================================================
