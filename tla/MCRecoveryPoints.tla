-------------------------- MODULE MCRecoveryPoints --------------------------
EXTENDS RecoveryPoints

Policies == {[enabled |-> TRUE, interval |-> 1, retention |-> 1], [enabled |-> FALSE, interval |-> 1, retention |-> 2]}
=============================================================================
