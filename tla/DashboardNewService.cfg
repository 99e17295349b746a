SPECIFICATION FairSpec
CONSTANTS
  Nodes = {a}
  MaxTicks = 1
  MaxSnapshots = 0
  MaxWire = 2
  MaxPolls = 1
  MaxClicks = 0
PROPERTY NewServiceAppears
