SPECIFICATION Spec
CONSTANTS
  Session = {s1, s2}
  Path = {p}
  Original <- OneProject
  Command = {"save", "save_as_replace", "save_as_absent", "copy_replace", "copy_absent"}
  MaxFile = 3
  Memory = Memory
SYMMETRY Symmetry
INVARIANTS OldOrNew OutcomeIsEvidence
PROPERTIES ReplacesOnlyAccepted ImplementsStore
