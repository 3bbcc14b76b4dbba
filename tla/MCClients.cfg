SPECIFICATION MCSpec
CONSTANTS
  c1 = c1
  c2 = c2
  Clients = {c1, c2}
  Plans <- MCPlans
  MaxBoots = 3
  MaxPolls = 2
  MaxJobs = 1
  CalledTools = {"set_site_php", "status"}
  MaxLines = 4
  MaxFlips = 2
INVARIANTS SessionIsHonest CommandsTellTheTruth
PROPERTY EverythingEnds
