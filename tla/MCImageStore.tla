---------------------------- MODULE MCImageStore ----------------------------
\* The image store for TLC: the runs are alike until one of them clears the
\* store or dies, and every property is a safety property.
EXTENDS ImageStore, TLC

Alike == Permutations(Runs)
=============================================================================
