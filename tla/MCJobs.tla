------------------------------- MODULE MCJobs -------------------------------
EXTENDS Jobs, TLC
Alike == Permutations(Caller)
=============================================================================
