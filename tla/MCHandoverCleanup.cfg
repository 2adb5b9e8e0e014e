SPECIFICATION Spec
CONSTANT Tasks = {c1, c2, c3}
CHECK_DEADLOCK FALSE
PROPERTIES
  CleanupSparesSuccessor
