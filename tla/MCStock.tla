------------------------------ MODULE MCStock -------------------------------
\* Instances of Stock for TLC: one product sold plainly or by two variants,
\* and the symmetry of those two.
EXTENDS Stock, TLC

CONSTANTS p1, v1, v2
MCProductOf == [v \in Variants |-> p1]
Symmetry == Permutations(Variants)
=============================================================================
