----------------------------- MODULE MCInMemory -----------------------------
EXTENDS InMemoryRegistry

\* A card that expires within the run, while its entry stays, and one that outlives it.
MCExpiries == {2, 5}
=============================================================================
