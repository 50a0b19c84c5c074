SPECIFICATION ResultsSpec
CONSTANTS
  A = A
  B = B
  C = C
  p = p
  q = q
  x = x
  y = y
  Configs = {A, B}
  Addrs = {p, q}
  ListenAddr <- MCListenAddr
  ForeignAddrs = {}
  Reloads = {r1}
  Saves = {s1}
  Readers = {}
  Paths = {x, y}
  SqlitePath <- MCSqlitePath
  Boot = boot
  NotJson = NotJson
  NoConfig = NoConfig
  Sigterm = FALSE
CHECK_DEADLOCK FALSE
INVARIANT SidebarIsRight
