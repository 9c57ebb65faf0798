SPECIFICATION ConsoleSpec
CONSTANTS
  Parts = {"editor", "hold", "start", "processing", "media", "downloads", "network", "iridium", "tile", "flash", "clock", "dives", "videos"}
  Names = {A, B}
  Stored = {A}
  New = New
  None = None
  MaxSaves = 1
  MaxOpens = 1
  Buttons = {"light", "release"}
  MaxPresses = 3
  Configs = {A, B}
  ByDate = {B}
  NoConfig = NoConfig
  MaxCalls = 1
  MaxRuns = 2
  MaxLines = 2
  MaxPolls = 2
  Files = {F1, F2}
  Matches = {{F1}, {F1, F2}}
  MaxDeletions = 1
  MaxListings = 2
  Items = {F1, F2}
  Batches = {"media", "all"}
  Singles = {F1}
  MaxAttempts = 1
  MaxUpsets = 1
  MaxAnswers = 1
  MaxSaid = 3
  MaxTests = 2
  MaxReads = 2
  Slots = {S1, S2}
  Shots = {S1}
  MaxMishaps = 1
  MaxFlashes = 2
  MaxOutages = 0
  Looks = {L1, L2}
  Years = 4
  Oldest = 1
  Browsers = {2}
  MaxBoots = 1
  MaxNumbers = 2
  MaxDived = 3
  MaxHistories = 1
  MaxRemovals = 1
  Groups = {{1, 2}, {3}}
  Recorded = {"inner", "stick"}
  MaxJobs = 2
  MaxPulls = 1
INVARIANTS
  CleanMeansSaved
  AsksWhileHeld
  OwnRelease
  LogComplete
  VerdictFresh
  FlashVerdict
  FootageKept
PROPERTIES
  EditsKept
  OnlyConfirmedGo
  RecordsKept
  SafeMeansBundled
CHECK_DEADLOCK FALSE
