---------------------------- MODULE MCSelfHealing ----------------------------
EXTENDS SelfHealing, TLC

\* Workers are interchangeable, and so are requests: no definition names one.
ProcessSymmetry == Permutations(Workers) \union Permutations(Callers)

=============================================================================
