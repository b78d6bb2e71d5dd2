--------------------------- MODULE MCHardwareApproval ---------------------------
EXTENDS HardwareApproval, TLC

Symmetry == Permutations(Approval) \cup Permutations(Host)

================================================================================
