SPECIFICATION FairEditorSpec
CONSTANTS
  Edit = {trim, move, inspect}
  Inspection = {inspect}
  Capacity = 2
  None = None
INVARIANTS
  AnswersHold
  ReadsAreCurrent
PROPERTY LeaseReturns
