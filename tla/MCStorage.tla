----------------------------- MODULE MCStorage ------------------------------
EXTENDS Storage, TLC

\* Record files differ in their paths only.
PathSymmetry == Permutations(RecordFiles)
=============================================================================
