------------------------------ MODULE MCSkills ------------------------------
EXTENDS Skills
CONSTANTS c1, c2, w1, w2
MCCallers == {c1, c2}
MCLoaders == {w1, w2}
=============================================================================
