SPECIFICATION FairSpec
CONSTANTS
  MAX_PROCESSES = 4
  Lines <- MCLines
  Files <- MCFiles
  Pids = {1, 2}
  Codes = {0, 1}
  Crashes = FALSE
  ForkFails = FALSE
  Other = Other
INVARIANTS ShellInv TrackerMatchesChildren QuitLeavesNone
PROPERTIES KillsOnlyChildren StatusFinal ChainStops QuitEnds
CHECK_DEADLOCK FALSE
