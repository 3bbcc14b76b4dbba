SPECIFICATION MCSpec
CONSTANTS
  Hosts = {"resolved", "nm", "mac"}
  Ports = {"p1"}
  UserFiles = {"none", "user", "junk"}
  MaxOps = 2
  MaxFaults = 1
  RcFiles = {"bashrc"}
  MaxEdits = 4
INVARIANTS  DesktopIsHonest
PROPERTIES UsersOwnKept UpgradeAdopted TransitionEnds
CHECK_DEADLOCK FALSE
