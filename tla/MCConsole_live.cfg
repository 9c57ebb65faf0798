SPECIFICATION LiveSpec
CONSTANTS
  Parts = {"hold", "processing", "downloads", "network", "tile", "flash", "clock"}
  Names = {A, B}
  Stored = {A}
  New = New
  None = None
  MaxSaves = 1
  MaxOpens = 1
  Buttons = {"light", "release"}
  MaxPresses = 2
  Configs = {A, B}
  ByDate = {B}
  NoConfig = NoConfig
  MaxCalls = 1
  MaxRuns = 2
  MaxLines = 1
  MaxPolls = 2
  Files = {F1, F2}
  Matches = {{F1}, {F1, F2}}
  MaxDeletions = 1
  MaxListings = 2
  Items = {F1, F2}
  Batches = {"all"}
  Singles = {F1}
  MaxAttempts = 1
  MaxUpsets = 2
  MaxAnswers = 1
  MaxSaid = 1
  MaxTests = 2
  MaxReads = 2
  Slots = {S1, S2}
  Shots = {S1}
  MaxMishaps = 1
  MaxFlashes = 2
  MaxOutages = 1
  Looks = {}
  Years = 4
  Oldest = 2
  Browsers = {0, 2}
  MaxBoots = 1
  MaxNumbers = 1
  MaxDived = 1
  MaxHistories = 1
  MaxRemovals = 1
  Groups = {{1}}
  Recorded = {"inner"}
  MaxJobs = 1
  MaxPulls = 0
PROPERTIES
  TestEnds
  EndIsShown
  BatchEnds
  TileAgrees
  Reachable
  FailureShown
  MavlinkReturns
  ClockSettles
CHECK_DEADLOCK FALSE
