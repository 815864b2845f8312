------------------------- MODULE MCSubmissionTable -------------------------
EXTENDS SubmissionTable, TLC

CONSTANTS u1, u2

Symmetric == Permutations({u1, u2})

=============================================================================
