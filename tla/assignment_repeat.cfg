CONSTANTS
  r1 = r1
  r2 = r2
  None = None
  Slots <- OneSlot
  Scores = {1}
  Verdicts = {"approved", "returned"}
  MaxUploads = 2
SPECIFICATION AssignmentSpec
INVARIANT EveryChangeTold
CHECK_DEADLOCK FALSE
