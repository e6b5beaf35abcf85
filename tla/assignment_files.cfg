CONSTANTS
  r1 = r1
  r2 = r2
  None = None
  Slots <- TwoSlots
  Scores = {1}
  Verdicts = {"approved", "returned"}
  MaxUploads = 3
SPECIFICATION AssignmentSpec
SYMMETRY SlotPerm
INVARIANT OneUpload
CHECK_DEADLOCK FALSE
