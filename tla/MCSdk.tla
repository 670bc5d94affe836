------------------------------- MODULE MCSdk -------------------------------
EXTENDS SdkClient, TLC

MCSymmetry == Permutations(Calls) \cup Permutations(Scopes)
=============================================================================
