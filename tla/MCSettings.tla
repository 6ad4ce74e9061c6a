----------------------------- MODULE MCSettings -----------------------------
EXTENDS SettingsWindow, TLC

\* Neither the windows nor the values are told apart.
Symmetry == Permutations(Windows) \cup Permutations(Values)
=============================================================================
