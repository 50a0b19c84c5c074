SPECIFICATION ResultsFairSpec
CONSTANTS
  A = A
  B = B
  C = C
  p = p
  q = q
  x = x
  y = y
  Configs = {A, B, C}
  Addrs = {p, q}
  ListenAddr <- MCListenAddr
  ForeignAddrs = {q}
  Reloads = {r1, r2}
  Saves = {s1}
  Readers = {t1}
  Paths = {x, y}
  SqlitePath <- MCSqlitePath
  Boot = boot
  NotJson = NotJson
  NoConfig = NoConfig
  Sigterm = TRUE
CHECK_DEADLOCK FALSE
INVARIANTS TypeOK OneReloadAtATime NoOrphan OnlyForeignersBlock
           SummaryIsCurrent CaptionNamesDatabase
PROPERTY ReloadReturns
