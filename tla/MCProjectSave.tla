--------------------------- MODULE MCProjectSave ---------------------------
EXTENDS ProjectSave, TLC

Symmetry == Permutations(Session)

\* One of the names holds a project.
OneProject == [p \in Path |-> IF p = CHOOSE q \in Path : TRUE THEN 1 ELSE NoFile]
=============================================================================
