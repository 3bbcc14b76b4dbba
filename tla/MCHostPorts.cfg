SPECIFICATION MCSpec
CONSTANTS
  Hosts = {"mac"}
  Ports = {"p1", "p2"}
  UserFiles = {"user"}
  MaxOps = 3
  MaxFaults = 0
  RcFiles = {"bashrc"}
  MaxEdits = 0
PROPERTIES UserFileKept
CHECK_DEADLOCK FALSE
