SPECIFICATION Spec
CONSTANTS
  NodeIds = {n1}
  EdgeIds = {e1}
  Statuses = {"HEALTHY", "FAILING"}
  Loads = {1, 2}
  MaxRows = 2
  PageRows = 1
  Limits <- MCLimits
  MaxCaptures = 2
  MaxOutages = 0
  MaxEnds = 0
PROPERTY MemoryHistoryFrozen
