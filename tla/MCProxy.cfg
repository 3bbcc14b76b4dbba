SPECIFICATION MCSpec
CONSTANTS
  Devices = {"d1"}
  Oses = {"mac", "linux"}
  Ips = {"192.168.1.2", "10.0.0.2", "no ip"}
  MaxBoots = 4
  MaxCodes = 3
  MaxCas = 2
INVARIANTS AnswersAreRight ExchangeIsWhole LanIsSafe 
PROPERTIES  ExchangeEnds
CHECK_DEADLOCK FALSE
