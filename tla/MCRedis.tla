------------------------------ MODULE MCRedis ------------------------------
EXTENDS RedisRegistry, TLC

\* MCRedis.cfg: the card expires in the middle of the run.
MCExpiries == {1}

\* The runs of the two overlaps: the card outlives the run.
MCLongExpiries == {4}

Symmetry == Permutations(Calls)
=============================================================================
