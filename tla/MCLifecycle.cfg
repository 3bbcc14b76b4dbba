SPECIFICATION MCSpec
CONSTANTS
  d1 = d1
  d2 = d2
  Daemons = {d1, d2}
  Oses = {"macos", "linux"}
  Foreign = {"desired http", "fallback https"}
  MaxStarts = 2
  MaxChanges = 2
  MaxCrashes = 1
  MaxFlips = 1
  Actors = {d1, d2}
  Versions = {1, 2, 3}
  PreReleases = {2}
  Hosts = {"macos", "linux"}
  MaxOps = 2
  MaxPolls = 1
  MaxKills = 1
INVARIANTS OneDaemonOwns UpdateIsSafe 
PROPERTIES RestartComesBack RemediesWork
