------------------------------ MODULE MCThemes ------------------------------
EXTENDS Themes, TLC

Symmetry == Permutations(Admins)
=============================================================================
