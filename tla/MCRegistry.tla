----------------------------- MODULE MCRegistry -----------------------------
EXTENDS Registry, TLC

CONSTANTS q1, q2, r1, r2

TwoRequests == {q1, q2}
TwoRounds == {r1, r2}

=============================================================================
