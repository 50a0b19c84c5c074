SPECIFICATION ConsoleSpec
CONSTANTS
  Words = {"a", "b", "bad"}
  Malformed = {"bad"}
  MaxRules = 1
  MaxNames = 1
  Settings <- MCSettings
  Rules <- MCRules
  Configs <- ValidFiles
  Addrs = {"a", "b", "bad"}
  ListenAddr <- MCListenAddr
  ForeignAddrs = {}
  Reloads = {r1}
  Saves = {s1, s2}
  Boot = boot
  NotJson = NotJson
  NoConfig = NoConfig
  Sigterm = FALSE
  t1 = t1
  t2 = t2
  Tabs = {t1, t2}
  Visits <- MCVisits
  TypedSettings <- MCTypedSettings
  Starts <- MCStarts
  TypedRules <- MCTypedRules
CHECK_DEADLOCK FALSE
SYMMETRY ConsoleSymmetry
INVARIANTS ConsoleTypeOK NoLostUpdate SavedIsWhatWasShown
PROPERTY MatchesIsTrue
